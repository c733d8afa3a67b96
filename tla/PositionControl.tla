-------------------------- MODULE PositionControl --------------------------
(***************************************************************************)
(* ESOPositionControl and PositionESO: position and velocity control with  *)
(* an extended state observer.  A number is abstracted to whether it is    *)
(* finite: a vector is the set of the axes on which it is, and the module  *)
(* follows where a NaN comes from and how far it spreads.  The estimator   *)
(* declares x and y valid together, so they are one axis.  Attitude, body  *)
(* rate and parameters are finite.                                         *)
(***************************************************************************)
EXTENDS Naturals

VARIABLE control
  \* [z1, z2, z3      the observer's position, velocity and disturbance,
  \*  eso_input       the acceleration it was told of,
  \*  enabled, prev   _eso_update_enabled and _eso_update_enabled_prev,
  \*  thr, yaw]       what the attitude setpoint is made of

Axes == {"xy", "z"}

(* A thrust computed from finite accelerations; the lowest one, where the  *)
(* program starts and a NaN vertical acceleration ends up; a NaN.          *)
Thrusts == {"computed", "lowest", "nan"}

Yaws == {"demanded", "current", "zero", "nan"}

Setpoints ==
  [pos : SUBSET Axes, vel : SUBSET Axes, acc : SUBSET Axes,
   fast : BOOLEAN,     \* the horizontal velocity reaches the velocity limit
   pressed : BOOLEAN,  \* the acceleration is 100 m/s^2 downwards
   yaw : Yaws]

Estimates == [pos : SUBSET Axes, vel : SUBSET Axes]

ControlTypeOK ==
  control \in [z1 : SUBSET Axes, z2 : SUBSET Axes, z3 : SUBSET Axes,
               eso_input : SUBSET Axes, enabled : BOOLEAN, prev : BOOLEAN,
               thr : Thrusts, yaw : Yaws]

ControlInit ==
  control = [z1 |-> Axes, z2 |-> Axes, z3 |-> Axes, eso_input |-> Axes,
             enabled |-> TRUE, prev |-> TRUE, thr |-> "lowest", yaw |-> "zero"]

-----------------------------------------------------------------------------
(* PositionESO.  A NaN in the state never leaves it: every component is    *)
(* integrated from its own old value.                                      *)
EsoReset(c, pos, vel) ==
  [c EXCEPT !.z1 = pos, !.z2 = vel, !.z3 = Axes]

EsoUpdate(c, pos) ==
  LET err == pos \cap c.z1
  IN  [c EXCEPT !.z1 = @ \cap c.z2 \cap err,
                !.z2 = @ \cap c.z3 \cap c.eso_input \cap err,
                !.z3 = @ \cap err]

(* resetIntegral clears the observer as well and asks for it to be         *)
(* initialised from the next measurement.                                  *)
ResetIntegral(c) ==
  [c EXCEPT !.z1 = Axes, !.z2 = Axes, !.z3 = Axes, !.eso_input = Axes,
            !.prev = FALSE]

-----------------------------------------------------------------------------
(* Mutant: the position need not be known.                                 *)
InputValid_NoPosition(sp, est) ==
  /\ sp.pos \cup sp.vel \cup sp.acc = Axes
  /\ sp.vel \subseteq est.vel

(* Each axis needs a setpoint, and each setpoint its estimate.             *)
InputValid(sp, est) ==
  /\ sp.pos \cup sp.vel \cup sp.acc = Axes
  /\ sp.pos \subseteq est.pos
  /\ sp.vel \subseteq est.vel

(* The velocity setpoint is finite vertically.  Horizontally constrainXY   *)
(* adds the feed-forward, total velocity minus position terms, which is    *)
(* NaN without a position error: only a velocity that already reaches the  *)
(* limit gets through.                                                     *)
VelocitySetpoint(sp, est) ==
  {"z"} \cup IF "xy" \in sp.pos \cap est.pos \/ ("xy" \in sp.vel /\ sp.fast)
               THEN {"xy"} ELSE {}

AccelerationSetpoint(sp, est, disturbance) ==
  VelocitySetpoint(sp, est) \cap est.vel \cap disturbance

(* A NaN horizontal acceleration makes the thrust direction NaN.  A NaN    *)
(* vertical one makes the collective thrust NaN, which min() turns into    *)
(* the lower thrust limit.                                                 *)
ThrustOf(acc) ==
  IF "xy" \notin acc THEN "nan" ELSE IF "z" \notin acc THEN "lowest" ELSE "computed"

(* The controller after update(), given its setpoint and the estimates.    *)
ControlUpdate(c, sp, est) ==
  LET started == IF c.enabled /\ ~c.prev THEN EsoReset(c, est.pos, est.vel) ELSE c
      observed == IF c.enabled THEN EsoUpdate(started, est.pos) ELSE started
      acc == AccelerationSetpoint(sp, est, IF c.enabled THEN observed.z3 ELSE Axes)
      thr == ThrustOf(acc)
  IN  IF InputValid(sp, est)
        THEN [observed EXCEPT
                !.thr = thr,
                !.eso_input = IF thr = "nan" THEN {"z"} ELSE Axes,
                !.yaw = IF sp.yaw = "nan" THEN "current" ELSE sp.yaw,
                !.prev = c.enabled]
        ELSE [c EXCEPT !.yaw = sp.yaw, !.prev = c.enabled]

(* Whether update() runs the observer, and what it returns (after is the   *)
(* controller after it).                                                   *)
Observes(c, sp, est) == c.enabled /\ InputValid(sp, est)

Succeeds(sp, est, after) == InputValid(sp, est) /\ after.thr = "computed"
=============================================================================
