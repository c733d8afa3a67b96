----------------------------- MODULE JointFeed -----------------------------
(***************************************************************************)
(* What the arm joint link promises to the controllers, whatever happens   *)
(* between the two bridges: an arm_joint_states message that says valid is *)
(* never published later than Bound after the newest joint state that the  *)
(* ROS side has accepted.                                                  *)
(***************************************************************************)
EXTENDS Integers

CONSTANTS
  Bound,   \* promised age of the source behind a valid message
  MaxTime  \* bound on the clock

ASSUME FeedAssumption == Bound \in Nat /\ MaxTime \in Nat

VARIABLES
  now,     \* the clock
  source,  \* stamp of the newest joint state accepted
  feed     \* the last arm_joint_states message: [timestamp, valid]

feedVars == <<now, source, feed>>

FeedTypeOK ==
  /\ now \in Nat
  /\ source \in Nat
  /\ feed \in [timestamp : Nat, valid : BOOLEAN]

FeedInit ==
  /\ now = 1
  /\ source = 0
  /\ feed = [timestamp |-> 0, valid |-> FALSE]

Tick ==
  /\ now < MaxTime
  /\ now' = now + 1
  /\ UNCHANGED <<source, feed>>

Accept ==
  /\ source' \in source .. now
  /\ UNCHANGED <<now, feed>>

Publish(valid) ==
  /\ valid => now - source <= Bound
  /\ feed' = [timestamp |-> now, valid |-> valid]
  /\ UNCHANGED <<now, source>>

FeedNext == Tick \/ Accept \/ \E valid \in BOOLEAN : Publish(valid)

FeedSpec == FeedInit /\ [][FeedNext]_feedVars
=============================================================================
