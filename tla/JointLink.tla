------------------------------ MODULE JointLink ------------------------------
(***************************************************************************)
(* What the two ends of the arm joint link share: the joints, the keys     *)
(* under which their values travel, the clock, and the named values that   *)
(* are on their way from ROS to PX4.                                       *)
(*                                                                         *)
(* A joint value is abstracted to the time of the joint state message it   *)
(* was taken from (its "sample"; 0 is the value before any message), which *)
(* is what freshness is about.                                             *)
(***************************************************************************)
EXTENDS Integers

CONSTANTS
  N,                    \* number of joints a message has room for (4 in the code)
  REQUIRED,             \* how many of them the arm has (REQUIRED_JOINTS, 3); the
                        \* values of the others are the constant 0.0
  PER_JOINT,            \* values sent per joint (2: position and velocity)
  JOINT_STATE_TIMEOUT,  \* age up to which ROS calls its snapshot fresh
  FIELD_TIMEOUT,        \* age up to which PX4 calls a received field fresh
  PUBLISH_INTERVAL,     \* period of arm_joint_states
  MAX_TRANSIT,          \* longest time a named value is on its way
  MaxTime               \* bound on the clock

ASSUME LinkAssumption ==
  /\ N \in Nat \ {0}
  /\ REQUIRED \in 1 .. N
  /\ PER_JOINT \in Nat \ {0}
  /\ JOINT_STATE_TIMEOUT \in Nat
  /\ FIELD_TIMEOUT \in Nat
  /\ PUBLISH_INTERVAL \in Nat
  /\ MAX_TRANSIT \in Nat
  /\ MaxTime \in Nat

VARIABLES
  now,  \* the time both sides read (ROS time is simulated time, as hrt is)
  net   \* named values sent and not yet received or lost

Joints == 0 .. N - 1
Time == Nat

(* _message_keys: AJQ0.., then AJD0.., then AJVAL; the key is its index.   *)
AJVAL == PER_JOINT * N
Keys == 0 .. AJVAL

(* A named value: its key, the sample its value was taken from (for AJVAL, *)
(* the sample reported fresh; 0 when it says 0.0), and the time the sender *)
(* read before it took the value (time_boot_ms).                           *)
NamedValue == [key : Keys, sample : Time, sent : Time]

(* The longest time from a joint state message to an arm_joint_states      *)
(* message that PX4 may still call valid because of it.                    *)
SourceBound == JOINT_STATE_TIMEOUT + MAX_TRANSIT + FIELD_TIMEOUT
=============================================================================
