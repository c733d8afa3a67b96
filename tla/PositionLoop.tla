---------------------------- MODULE PositionLoop ----------------------------
(***************************************************************************)
(* ESOMulticopterPositionControl::Run, which composes the takeoff state    *)
(* machine with the position controller and its failsafe.  Every sample of *)
(* vehicle_local_position is one step.  What the step reads from the other *)
(* topics is arbitrary: control mode, land detector, validity of the       *)
(* estimates, trajectory setpoint, wish to take off.  Setpoints and        *)
(* estimates are abstracted to the axes on which they are finite.          *)
(***************************************************************************)
EXTENDS ESOTakeoff, PositionControl

CONSTANTS
  ESO_POS_ESOGATE,             \* observe in flight only
  LOITER_TIME_BEFORE_DESCEND,  \* delay of the failsafe, in samples
  OFFBOARD,                    \* values of flag_control_offboard_enabled
  Trajectories,                \* setpoints that trajectory_setpoint may carry
  LocalPositions               \* validity of what vehicle_local_position carries

ASSUME LoopAssumption ==
  /\ ESO_POS_ESOGATE \in BOOLEAN
  /\ LOITER_TIME_BEFORE_DESCEND \in Nat
  /\ OFFBOARD \subseteq BOOLEAN
  /\ Trajectories \subseteq
       {sp \in Setpoints : sp.yaw \in {"demanded", "nan"} /\ ~sp.pressed}
  /\ LocalPositions \subseteq Estimates

VARIABLES
  setpoint,  \* _setpoint
  land,      \* _failsafe_land_hysteresis
  out,       \* the last step: [position, est, fed, ok], see OutType
  hist       \* history: [armed_for, skipped, failing, observer]

vars == <<takeoff, control, setpoint, land, out, hist>>

NoSetpoint ==
  [pos |-> {}, vel |-> {}, acc |-> {}, fast |-> FALSE, pressed |-> FALSE, yaw |-> "nan"]

(* Stay on the ground: nothing but an acceleration of 100 m/s^2 downwards. *)
Pressed == [NoSetpoint EXCEPT !.acc = Axes, !.pressed = TRUE]

(* What failsafe() is handed: all zero.                                    *)
Zeroed ==
  [NoSetpoint EXCEPT !.pos = Axes, !.vel = Axes, !.acc = Axes, !.yaw = "zero"]

(* Whether position control was on, the estimates, the setpoint of the     *)
(* last update() and whether that succeeded.                               *)
OutType ==
  [position : BOOLEAN, est : Estimates,
   fed : {"trajectory", "zeroed", "failsafe"}, ok : BOOLEAN]

NoOutput ==
  [position |-> FALSE, est |-> [pos |-> {}, vel |-> {}], fed |-> "trajectory", ok |-> TRUE]

(* Samples since arming and whether position control was ever off in them; *)
(* samples since the first failed update() that none succeeded after (0    *)
(* when there is none); whether the observer was idle in the last sample,  *)
(* followed it, or followed it although idle before and not initialised.   *)
HistType ==
  [armed_for : 0 .. SPOOLUP + RAMP, skipped : BOOLEAN,
   failing : 0 .. LOITER_TIME_BEFORE_DESCEND + 1, observer : {"idle", "following", "cold"}]

TypeOK ==
  /\ TakeoffTypeOK
  /\ ControlTypeOK
  /\ setpoint \in Setpoints
  /\ land \in HysteresisType(LOITER_TIME_BEFORE_DESCEND)
  /\ out \in OutType
  /\ hist \in HistType

Init ==
  /\ TakeoffInit
  /\ ControlInit
  /\ setpoint = NoSetpoint
  /\ land = HysteresisInit
  /\ out = NoOutput
  /\ hist = [armed_for |-> 0, skipped |-> FALSE, failing |-> 0,
             observer |-> "idle"]

-----------------------------------------------------------------------------
UpTo(n, bound) == IF n < bound THEN n ELSE bound

ArmedFor(armed) ==
  IF armed /\ takeoff.state # "disarmed" THEN UpTo(hist.armed_for + 1, SPOOLUP + RAMP) ELSE 0

(* Without position control only the takeoff state machine runs.           *)
OtherModes(armed, landed) ==
  /\ takeoff' = UpdateTakeoffState(armed, landed, FALSE, TRUE)
  /\ land' = Aged(land, LOITER_TIME_BEFORE_DESCEND)
  /\ out' = NoOutput
  /\ hist' = [armed_for |-> ArmedFor(armed), skipped |-> armed,
              failing |-> IF hist.failing = 0 THEN 0
                          ELSE UpTo(hist.failing + 1, LOITER_TIME_BEFORE_DESCEND + 1),
              observer |-> "idle"]
  /\ UNCHANGED <<control, setpoint>>

-----------------------------------------------------------------------------
(* The values want_takeoff may get.  In Offboard an armed vehicle on the   *)
(* ground may want to take off if the setpoint says where to climb; it     *)
(* does when that is upwards and less than a second old.  In other modes   *)
(* the flight task decides, or failsafe() did by clearing the wish.        *)
CanClimb(sp, est) ==
  "z" \in (sp.pos \cap est.pos) \cup sp.vel \cup (IF sp.pressed THEN {} ELSE sp.acc)

WantTakeoff(offboard, armed, landed, sp, est) ==
  IF offboard THEN {FALSE, armed /\ landed /\ CanClimb(sp, est)} ELSE BOOLEAN

(* No corrections before takeoff and while touching the ground.            *)
Grounded(state, ground_contact) ==
  \/ state \in {"disarmed", "spoolup", "ready_for_takeoff"}
  \/ state = "flight" /\ ground_contact

(* What a new setpoint is turned into.                                     *)
Accepted(sp, state, ground_contact) ==
  IF Grounded(state, ground_contact) THEN Pressed
  ELSE IF state = "flight" THEN sp ELSE [sp EXCEPT !.acc = @ \ {"z"}]

(* Mutant: the trajectory is handed over as it is.                         *)
Sanitized_Not(sp, est) == sp

(* Missing positions become the estimate, missing velocities and           *)
(* accelerations zero, and a missing yaw the current one.                  *)
Sanitized(sp, est) ==
  [sp EXCEPT !.pos = @ \cup est.pos, !.vel = Axes, !.acc = Axes,
             !.fast = @ /\ "xy" \in sp.vel,
             !.yaw = IF @ = "nan" THEN "current" ELSE @]

(* Stop on the axes whose velocity is known; descend blindly without       *)
(* horizontal velocity, and on a fixed acceleration without a vertical one.*)
FailsafeSetpoint(est) ==
  [NoSetpoint EXCEPT !.vel = est.vel \cap Axes, !.acc = Axes \ est.vel]

(* How the observer took part in a step whose update() calls were given    *)
(* these setpoints.                                                        *)
ObserverAfter(c, feed, rescue, est) ==
  IF Observes(c, feed, est)
    THEN IF hist.observer = "idle" /\ c.prev THEN "cold" ELSE "following"
    ELSE IF Observes(c, rescue, est)
           THEN IF hist.observer = "idle" THEN "cold" ELSE "following"
           ELSE "idle"

(* Mutant: the delay is never set.                                         *)
FailsafeLand_NoDelay(ok) ==
  SetStateAndUpdate(Aged(land, LOITER_TIME_BEFORE_DESCEND), ~ok, 0)

(* _failsafe_land_hysteresis after an update() that did or did not succeed.*)
FailsafeLand(ok) ==
  SetStateAndUpdate(Aged(land, LOITER_TIME_BEFORE_DESCEND), ~ok, LOITER_TIME_BEFORE_DESCEND)

(* update() on the setpoint and, should it fail, again on the rescue       *)
(* setpoint that failsafe() makes.                                         *)
ControlStep(armed, est, ready, feed) ==
  LET first == ControlUpdate(ready, feed, est)
      ok == Succeeds(feed, est, first)
      waiting == FailsafeLand(ok)
      rescue == IF waiting.state THEN FailsafeSetpoint(est) ELSE Zeroed
      last == IF ok THEN first ELSE ControlUpdate(first, rescue, est)
  IN  /\ land' = waiting
      /\ control' = last
      /\ out' = [position |-> TRUE, est |-> est,
                 fed |-> IF ok THEN "trajectory"
                         ELSE IF waiting.state THEN "failsafe" ELSE "zeroed",
                 ok |-> ok \/ Succeeds(rescue, est, last)]
      /\ hist' = [armed_for |-> ArmedFor(armed),
                  skipped |-> armed /\ hist.skipped,
                  failing |-> IF ok THEN 0
                              ELSE UpTo(hist.failing + 1, LOITER_TIME_BEFORE_DESCEND + 1),
                  observer |-> ObserverAfter(ready, feed, IF ok THEN feed ELSE rescue, est)]

(* Mutant: the gate is always open.                                        *)
Gated_Open(state) == [control EXCEPT !.enabled = TRUE]

(* setESOUpdateEnabled: the gate keeps the observer off until flight.      *)
Gated(state) == [control EXCEPT !.enabled = ~ESO_POS_ESOGATE \/ state = "flight"]

(* The step under position control.  new is whether trajectory_setpoint    *)
(* was updated, sp the setpoint after that.                                *)
PositionMode(armed, landed, ground_contact, est, new, sp, want_takeoff) ==
  LET t == UpdateTakeoffState(armed, landed, want_takeoff, FALSE)
      gated == Gated(t.state)
  IN  /\ takeoff' = UpdateRamp(t)
      /\ setpoint' = IF new THEN Accepted(sp, t.state, ground_contact) ELSE sp
      /\ ControlStep(armed, est,
                     IF new /\ Grounded(t.state, ground_contact)
                       THEN ResetIntegral(gated) ELSE gated,
                     Sanitized(setpoint', est))

PositionRun ==
  \E armed, landed, ground_contact, new \in BOOLEAN, est \in LocalPositions :
    \E sp \in IF new THEN Trajectories ELSE {setpoint} :
      \E want_takeoff \in UNION {WantTakeoff(offboard, armed, landed, sp, est) :
                                   offboard \in OFFBOARD} :
        PositionMode(armed, landed, ground_contact, est, new, sp, want_takeoff)

OtherRun == \E armed, landed \in BOOLEAN : OtherModes(armed, landed)

Next == PositionRun \/ OtherRun

Spec == Init /\ [][Next]_vars

-----------------------------------------------------------------------------
(* Unless position control was off at some point since arming, a vehicle   *)
(* is past spool-up only SPOOLUP samples after arming, and in flight only  *)
(* RAMP samples after that: updateTakeoffState falls through its cases but *)
(* never over the spool-up time or the ramp.                               *)
FlightIsEarned ==
  ~hist.skipped =>
    /\ takeoff.state \in {"ready_for_takeoff", "rampup", "flight"} => hist.armed_for >= SPOOLUP
    /\ takeoff.state = "flight" => hist.armed_for >= SPOOLUP + RAMP

(* The all-zero setpoint that failsafe() leaves alone during its delay is  *)
(* never flown: update() refuses it whenever it refused the trajectory, so *)
(* the vehicle is never sent to the origin.                                *)
OriginNeverFlown == out.position /\ out.fed = "zeroed" => ~out.ok

(* The failsafe setpoint is used only when update() has failed for the     *)
(* whole of LOITER_TIME_BEFORE_DESCEND and not succeeded in between, modes *)
(* without position control included.                                      *)
FailsafeIsSustained == land.state => hist.failing > LOITER_TIME_BEFORE_DESCEND

(* Until then the last thrust is kept, if the trajectory is a position and *)
(* the observer is sound: the failing updates leave it alone.              *)
KeepsThrust ==
  [][/\ out'.position /\ out'.fed = "zeroed"
     /\ setpoint'.pos = Axes
     /\ control.z1 \cap control.z2 \cap control.z3 \cap control.eso_input = Axes
     => control'.thr = control.thr]_vars

(* The observer starts to follow the samples without being initialised     *)
(* from the measurement only if position control was off at some point     *)
(* since arming, or if the update() before failed and used up the enable   *)
(* edge: no other sequence of samples hides the edge.                      *)
ColdStartExplained ==
  [][hist'.observer = "cold" => hist'.skipped \/ (out.position /\ ~out.ok)]_vars

-----------------------------------------------------------------------------
(* Inductive strengthening.  The spool-up hysteresis has waited no longer  *)
(* than the vehicle has been armed, and the ramp has run no longer than it *)
(* has been armed after spool-up.                                          *)
SpoolupInv ==
  IF takeoff.state = "disarmed"
    THEN ~takeoff.spoolup.state /\ ~takeoff.spoolup.requested
    ELSE IF takeoff.spoolup.state
           THEN hist.armed_for >= SPOOLUP
           ELSE takeoff.spoolup.requested /\ takeoff.spoolup.age <= hist.armed_for

RampInv ==
  takeoff.state = "rampup" /\ ~hist.skipped => hist.armed_for + 1 >= SPOOLUP + takeoff.progress

(* The failsafe hysteresis has waited no longer than updates have failed.  *)
WaitInv ==
  IF land.state THEN hist.failing > LOITER_TIME_BEFORE_DESCEND
  ELSE land.requested => hist.failing > land.age

(* With the gate, the observer is idle past its enable edge, or the        *)
(* failsafe hysteresis waits, only because of a failed update(), because   *)
(* position control was off, or because the vehicle was disarmed since.    *)
ColdInv ==
  (hist.observer = "idle" /\ control.prev) \/ land.requested \/ land.state =>
    hist.skipped \/ (out.position /\ ~out.ok) \/ takeoff.state = "disarmed"

LoopInv ==
  TypeOK /\ SpoolupInv /\ RampInv /\ WaitInv /\ FlightIsEarned /\ OriginNeverFlown

-----------------------------------------------------------------------------
(* What comments say and the code does not do.                             *)

(* "启用瞬间会用当前测量初始化 ESO": when the observer starts to follow the  *)
(* samples (again), it starts from the measurement.                        *)
ObserverInitialised == hist.observer # "cold"

(* "不能把 NaN 粗暴改成 0": the attitude setpoint never demands heading 0   *)
(* in flight that no trajectory demanded.                                  *)
HeadingNotForced == out.position /\ takeoff.state = "flight" => control.yaw # "zero"

(* "尝试用急救目标点再算一次": with the velocity known, the failsafe's "stop *)
(* and wait" setpoint gives an executable thrust in flight.                *)
FailsafeExecutable ==
  takeoff.state = "flight" /\ out.fed = "failsafe" /\ out.est.vel = Axes => out.ok
=============================================================================
