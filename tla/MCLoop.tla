------------------------------- MODULE MCLoop -------------------------------
(* The position loop on a small instance, with the velocity setpoint of    *)
(* its controller on small integers.                                       *)
EXTENDS PositionLoopLive

(* A position with a heading, and velocities below and at the limit        *)
(* without one.                                                            *)
MCTrajectories ==
  {[NoSetpoint EXCEPT !.pos = Axes, !.yaw = "demanded"]} \cup
  {[NoSetpoint EXCEPT !.vel = Axes, !.fast = f] : f \in BOOLEAN}

MCPosition == {[NoSetpoint EXCEPT !.pos = Axes, !.yaw = "demanded"]}

(* All estimates; no horizontal position; no vertical velocity.            *)
MCLocalPositions ==
  {[pos |-> Axes, vel |-> Axes], [pos |-> {"z"}, vel |-> Axes], [pos |-> Axes, vel |-> {"xy"}]}

(* A position estimate that comes and goes.                                *)
MCNoPosition == {[pos |-> Axes, vel |-> Axes], [pos |-> {}, vel |-> Axes]}
=============================================================================
