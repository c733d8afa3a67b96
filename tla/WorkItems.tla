----------------------------- MODULE WorkItems ------------------------------
(* What a work queue promises: an item that was scheduled, once or more    *)
(* often, is run once by one thread, and no two items at the same time.    *)
CONSTANT Items, None  \* None stands for no item

VARIABLES
  pending,  \* the items that were scheduled and not yet run
  running   \* the item that is being run, or none

vars == <<pending, running>>

Init == pending = {} /\ running = None

Schedule(i) == pending' = pending \cup {i} /\ UNCHANGED running

Clear(i) == pending' = pending \ {i} /\ UNCHANGED running

Start(i) ==
  /\ running = None /\ i \in pending
  /\ running' = i
  /\ pending' = pending \ {i}

Finish ==
  /\ running # None
  /\ running' = None
  /\ UNCHANGED pending

Next == (\E i \in Items : Schedule(i) \/ Clear(i) \/ Start(i)) \/ Finish

(* An item that was scheduled is run, or taken back.                       *)
Turns == \A i \in Items : i \in pending ~> i \notin pending

Spec == Init /\ [][Next]_vars /\ WF_vars(Finish)
=============================================================================
