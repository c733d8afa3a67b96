------------------------------ MODULE TopicLog ------------------------------
(* What a uORB topic promises its subscribers: messages come in the order  *)
(* of publication, and none is skipped but those that more than depth      *)
(* others have followed.                                                   *)
EXTENDS Naturals

CONSTANT Subs  \* the subscriptions

VARIABLES
  count,  \* number of messages published; they are numbered from 1
  depth,  \* how many of them are kept
  pos     \* the message each subscription has read last

vars == <<count, depth, pos>>

Init ==
  /\ count = 0
  /\ depth = 1
  /\ pos = [s \in Subs |-> 0]

Deepen ==
  /\ count = 0
  /\ depth' \in Nat /\ depth' > depth
  /\ UNCHANGED <<count, pos>>

Publish == count' = count + 1 /\ UNCHANGED <<depth, pos>>

(* A new subscription may read the latest message.                         *)
Join(s) ==
  /\ pos' = [pos EXCEPT ![s] = IF count = 0 THEN 0 ELSE count - 1]
  /\ UNCHANGED <<count, depth>>

(* The next message, or the oldest there is.                               *)
Take(s) ==
  /\ pos[s] < count
  /\ pos' = [pos EXCEPT ![s] = IF count > pos[s] + depth THEN count - depth + 1 ELSE pos[s] + 1]
  /\ UNCHANGED <<count, depth>>

Next == Deepen \/ Publish \/ \E s \in Subs : Join(s) \/ Take(s)

Spec == Init /\ [][Next]_vars
=============================================================================
