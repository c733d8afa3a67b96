-------------------------- MODULE PositionLoopLive --------------------------
(***************************************************************************)
(* What the position loop must eventually do, and its velocity setpoint.   *)
(* The estimator publishes a new sample after every one it has published,  *)
(* and each runs the loop.  A step that changes nothing is still a step:   *)
(* sample, the parity of vehicle_local_position.timestamp_sample, tells it *)
(* from no step at all.                                                    *)
(***************************************************************************)
EXTENDS PositionLoop, VelocitySetpoint

VARIABLE sample

LiveVars == <<vars, sample>>

LiveInit == Init /\ sample = 0

LiveNext == Next /\ sample' = 1 - sample

(* The estimator never stops for good.                                     *)
Samples == WF_sample(sample' = 1 - sample)

LiveSpec == LiveInit /\ [][LiveNext]_LiveVars /\ Samples

(* In a sample under position control _positionControl keeps the velocity  *)
(* setpoint within its limit, and its integral does not wind up against    *)
(* the limit, whatever the magnitudes.                                     *)
LimitHolds == out.position => VelocityLimited /\ Unwinds

(* The failsafe cannot be put off: if from some point on position control  *)
(* stays on and every update() of the trajectory fails, the failsafe       *)
(* setpoint is in use from some point on.                                  *)
FailsafeReacts ==
  <>[](out.position /\ out.fed # "trajectory") => <>[](out.fed = "failsafe")

(* Spool-up ends: a vehicle that stays armed does not stay in spoolup.     *)
SpoolupEnds == []<>(takeoff.state # "spoolup")

(* "Failsafe: stop and wait" ends: once all estimates stay valid under     *)
(* position control, update() succeeds again.  Not what the code does.     *)
ControlRecovers ==
  <>[](out.position /\ out.est = [pos |-> Axes, vel |-> Axes]) => []<>out.ok
=============================================================================
