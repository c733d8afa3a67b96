--------------------------- MODULE VelocitySetpoint --------------------------
(***************************************************************************)
(* ESOPositionControl::_positionControl on one horizontal axis, as a       *)
(* function: the position error, its integral and the feed-forward         *)
(* velocity make a velocity setpoint, which constrainXY limits, and what   *)
(* the limit has cut corrects the integral.  Everything points along the   *)
(* axis, so the norms and square roots of constrainXY are absolute values  *)
(* and exact.  Quantities are integers, in units of a sample.              *)
(***************************************************************************)
EXTENDS Integers

CONSTANTS
  GAIN_POS_P,          \* _gain_pos_p, a divisor of 2
  GAIN_POS_I,          \* _gain_pos_i
  LIM_VEL_HORIZONTAL,  \* _lim_vel_horizontal
  LIM_POS_INT,         \* _lim_pos_int
  MaxError,            \* bound on the position error
  MaxFeedForward       \* bound on the feed-forward velocity

ASSUME VelocityAssumption ==
  /\ GAIN_POS_P \in {1, 2}
  /\ GAIN_POS_I \in Nat
  /\ LIM_VEL_HORIZONTAL \in Nat \ {0}
  /\ {LIM_POS_INT, MaxError, MaxFeedForward} \subseteq Nat

Errors == -MaxError .. MaxError
FeedForwards == -MaxFeedForward .. MaxFeedForward
Integrals == -LIM_POS_INT .. LIM_POS_INT

-----------------------------------------------------------------------------
Abs(n) == IF n < 0 THEN -n ELSE n
Sign(n) == IF n < 0 THEN -1 ELSE IF n = 0 THEN 0 ELSE 1
Constrain(n, low, high) == IF n < low THEN low ELSE IF n > high THEN high ELSE n

(* The sum of both within the limit; the first, which has priority, at the *)
(* limit if it exceeds it; the limit in the direction of either if they    *)
(* are equal or the first is zero; and else as much of the second as fits. *)
ConstrainXY(v0, v1, max) ==
  IF Abs(v0 + v1) <= max THEN v0 + v1
  ELSE IF Abs(v0) >= max \/ v1 = v0 THEN Sign(v0) * max
  ELSE IF v0 = 0 THEN Sign(v1) * max
  ELSE LET m == Sign(v1) * v0
       IN  v0 + Sign(v1) * (max - m)  \* s = -m + sqrt(m^2 - v0^2 + max^2)

(* The P and I terms, and the velocity before the limit.                   *)
Stable(err, int) == err * GAIN_POS_P + int * GAIN_POS_I
Unconstrained(err, int, ff) == Stable(err, int) + ff

(* _vel_sp of a call.                                                      *)
VelSp(err, int, ff) == ConstrainXY(Unconstrained(err, int, ff), ff, LIM_VEL_HORIZONTAL)

(* Mutant: what the limit cut is added to the error.                       *)
NextIntegral_AddsCut(err, int, ff) ==
  LET cut == Unconstrained(err, int, ff) - VelSp(err, int, ff)
  IN  Constrain(int + err + cut * (2 \div GAIN_POS_P), -LIM_POS_INT, LIM_POS_INT)

(* _pos_int after a call: the integral of the error less what the limit    *)
(* has cut, clamped.                                                       *)
NextIntegral(err, int, ff) ==
  LET cut == Unconstrained(err, int, ff) - VelSp(err, int, ff)
  IN  Constrain(int + err - cut * (2 \div GAIN_POS_P), -LIM_POS_INT, LIM_POS_INT)

(* The integral after n calls at the setpoint without feed-forward.        *)
IntegralAtRest(int) ==
  LET after[n \in 0 .. 2 * LIM_POS_INT] ==
        IF n = 0 THEN int ELSE NextIntegral(0, after[n - 1], 0)
  IN  after

-----------------------------------------------------------------------------
(* The velocity setpoint stays within the horizontal limit, whatever the   *)
(* error, the integral and the feed-forward.                               *)
VelocityLimited ==
  \A err \in Errors, int \in Integrals, ff \in FeedForwards :
    Abs(VelSp(err, int, ff)) <= LIM_VEL_HORIZONTAL

(* Anti-windup: once the vehicle is at the setpoint and no feed-forward is *)
(* given, the integral by itself ends up asking for no more than the limit *)
(* allows and stays there, however far it was wound up.                    *)
Unwinds ==
  \A int \in Integrals :
    LET rest == IntegralAtRest(int)[2 * LIM_POS_INT]
    IN  Abs(Stable(0, rest)) <= LIM_VEL_HORIZONTAL /\ NextIntegral(0, rest, 0) = rest

(* The comment on the limit: it keeps the P and I terms and squeezes the   *)
(* feed-forward.  Then the setpoint is between the P and I terms and their *)
(* sum with the feed-forward.  But the call hands over the sum in the      *)
(* place of the P and I terms and the feed-forward a second time.          *)
FeedForwardSqueezed ==
  \A err \in Errors, int \in Integrals, ff \in FeedForwards :
    LET stable == Stable(err, int)
        sp == VelSp(err, int, ff)
    IN  Abs(stable) <= LIM_VEL_HORIZONTAL =>
          (stable <= sp /\ sp <= stable + ff) \/ (stable >= sp /\ sp >= stable + ff)
=============================================================================
