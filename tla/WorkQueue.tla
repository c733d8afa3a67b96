------------------------------ MODULE WorkQueue ------------------------------
(***************************************************************************)
(* px4::WorkQueue: threads schedule items, a worker thread runs them.  The *)
(* queue is locked while it is changed, so that every locked section is a  *)
(* step; the semaphore that wakes the worker is read and posted after the  *)
(* lock is released.  px4_sem_t is a counter with a condition variable,    *)
(* whose wait may return without having been signalled.                    *)
(***************************************************************************)
EXTENDS IntrusiveLists, FiniteSets

CONSTANTS
  Items,       \* the work items
  Threads,     \* the threads that schedule them
  Worker,      \* the thread of the queue, which may schedule items while it runs one
  None,        \* no item
  MaxSpurious  \* bound on the waits that return by themselves

ASSUME WorkQueueAssumption ==
  /\ IsFiniteSet(Items) /\ IsFiniteSet(Threads)
  /\ Worker \notin Threads
  /\ None \notin Items
  /\ MaxSpurious \in Nat

Callers == Threads \cup {Worker}

VARIABLES
  q,           \* _q
  sem,         \* the value of _process_lock
  worker,      \* [pc, item]: where the worker is in Run, and the item it runs
  pc,          \* where each caller is in Add
  registered,  \* _lockstep_component # -1
  spurious     \* waits that returned by themselves

vars == <<q, sem, worker, pc, registered, spurious>>

TypeOK ==
  /\ q \in Seq(Items) /\ IsInjective(q)
  /\ sem \in -(MaxSpurious + 1) .. Cardinality(Callers)
  /\ worker \in [pc : {"wait", "blocked", "loop", "run"}, item : Items \cup {None}]
  /\ pc \in [Callers -> {"idle", "signal", "post"}]
  /\ registered \in BOOLEAN
  /\ spurious \in 0 .. MaxSpurious

Init ==
  /\ q = <<>>
  /\ sem = 0
  /\ worker = [pc |-> "wait", item |-> None]
  /\ pc = [t \in Callers |-> "idle"]
  /\ registered = FALSE
  /\ spurious = 0

-----------------------------------------------------------------------------
(* A thread can call at any time, the worker while it runs an item.        *)
Calls(t) == pc[t] = "idle" /\ (t = Worker => worker.pc = "run")

(* WorkQueue::Add up to the unlock.                                        *)
Add(t, i) ==
  /\ Calls(t)
  /\ q' = Push(q, i)
  /\ registered' = TRUE
  /\ pc' = [pc EXCEPT ![t] = "signal"]
  /\ UNCHANGED <<sem, worker, spurious>>

(* WorkQueue::Remove, of ScheduleClear and Deinit.                         *)
RemoveItem(t, i) ==
  /\ Calls(t)
  /\ q' = Remove(q, i)
  /\ UNCHANGED <<sem, worker, pc, registered, spurious>>

(* SignalWorkerThread reads the semaphore, and posts it unless it is set.  *)
SignalWorkerThread(t) ==
  /\ pc[t] = "signal"
  /\ pc' = [pc EXCEPT ![t] = IF sem <= 0 THEN "post" ELSE "idle"]
  /\ UNCHANGED <<q, sem, worker, registered, spurious>>

(* px4_sem_post signals the condition if the count says that one waits.    *)
Post(t) ==
  /\ pc[t] = "post"
  /\ pc' = [pc EXCEPT ![t] = "idle"]
  /\ sem' = sem + 1
  /\ worker' = IF worker.pc = "blocked" /\ sem + 1 <= 0 THEN [worker EXCEPT !.pc = "loop"]
               ELSE worker
  /\ UNCHANGED <<q, registered, spurious>>

-----------------------------------------------------------------------------
(* px4_sem_wait counts down and blocks if the count is below zero.         *)
Wait ==
  /\ worker.pc = "wait"
  /\ sem' = sem - 1
  /\ worker' = [worker EXCEPT !.pc = IF sem - 1 < 0 THEN "blocked" ELSE "loop"]
  /\ UNCHANGED <<q, pc, registered, spurious>>

(* pthread_cond_wait returns without a signal, and px4_sem_wait with it.   *)
WakesBySelf ==
  /\ worker.pc = "blocked"
  /\ spurious < MaxSpurious
  /\ spurious' = spurious + 1
  /\ worker' = [worker EXCEPT !.pc = "loop"]
  /\ UNCHANGED <<q, sem, pc, registered>>

(* Mutant: the newest item is taken first.                                 *)
Pop_Newest ==
  /\ worker.pc = "loop" /\ q # <<>>
  /\ worker' = [pc |-> "run", item |-> q[Len(q)]]
  /\ q' = SubSeq(q, 1, Len(q) - 1)
  /\ UNCHANGED <<sem, pc, registered, spurious>>

(* Mutant: the last item unregisters the queue before it has run.          *)
Pop_Unregisters ==
  /\ worker.pc = "loop" /\ q # <<>>
  /\ worker' = [pc |-> "run", item |-> Head(q)]
  /\ q' = Tail(q)
  /\ registered' = (Tail(q) # <<>>)
  /\ UNCHANGED <<sem, pc, spurious>>

(* Mutant: the item stays on the queue while it runs.                      *)
Pop_Keeps ==
  /\ worker.pc = "loop" /\ q # <<>>
  /\ worker' = [pc |-> "run", item |-> Head(q)]
  /\ UNCHANGED <<q, sem, pc, registered, spurious>>

Pop ==
  /\ worker.pc = "loop" /\ q # <<>>
  /\ worker' = [pc |-> "run", item |-> Head(q)]
  /\ q' = Tail(q)
  /\ UNCHANGED <<sem, pc, registered, spurious>>

(* Run() of the item returns.                                              *)
Return ==
  /\ worker.pc = "run" /\ pc[Worker] = "idle"
  /\ worker' = [pc |-> "loop", item |-> None]
  /\ UNCHANGED <<q, sem, pc, registered, spurious>>

(* Mutant: a queue that was woken up for nothing stays registered.         *)
Drained_StaysRegistered ==
  /\ worker.pc = "loop" /\ q = <<>>
  /\ worker' = [worker EXCEPT !.pc = "wait"]
  /\ UNCHANGED <<q, sem, pc, registered, spurious>>

(* The queue is empty: simulated time need not wait for it any more.       *)
Drained ==
  /\ worker.pc = "loop" /\ q = <<>>
  /\ registered' = FALSE
  /\ worker' = [worker EXCEPT !.pc = "wait"]
  /\ UNCHANGED <<q, sem, pc, spurious>>

Signals(t) == SignalWorkerThread(t) \/ Post(t)
Runs == Wait \/ Pop \/ Return \/ Drained

Next ==
  \/ \E t \in Callers, i \in Items : Add(t, i) \/ RemoveItem(t, i)
  \/ \E t \in Callers : Signals(t)
  \/ Runs \/ WakesBySelf

(* A thread finishes a call it has begun, the worker runs, and Run() of an *)
(* item makes finitely many calls.                                         *)
Fairness == WF_vars(Runs) /\ SF_vars(Return) /\ \A t \in Callers : WF_vars(Signals(t))

Spec == Init /\ [][Next]_vars /\ Fairness

-----------------------------------------------------------------------------
Posting == {t \in Callers : pc[t] = "post"}

(* Inductive strengthening.  Each wait that returned by itself has left    *)
(* the count one too low, and a blocked worker takes one off as well; only *)
(* callers about to post can raise it, and none started to above zero.     *)
SemInv ==
  /\ sem >= -spurious - (IF worker.pc = "blocked" THEN 1 ELSE 0)
  /\ worker.pc = "blocked" => sem < 0
  /\ sem + Cardinality(Posting) <= Cardinality(Callers)

(* The worker has an item exactly while it runs one.                       *)
RunInv == worker.pc = "run" <=> worker.item # None

(* If no wait has returned by itself, a queued item has the worker at it,  *)
(* a count that keeps the worker from blocking, or a caller that has yet   *)
(* to signal: no order of push, unlock, read and post loses the wakeup.    *)
WakeupNotLost ==
  spurious = 0 /\ q # <<>> =>
    \/ worker.pc \in {"loop", "run"}
    \/ worker.pc = "wait" /\ sem > 0
    \/ \E t \in Callers : pc[t] \in {"signal", "post"}

-----------------------------------------------------------------------------
(* The queue keeps its promise: no item is run twice for one call or while *)
(* another runs, however the calls and the worker interleave and even when *)
(* a wait returns by itself.                                               *)
Promise == INSTANCE WorkItems WITH pending <- Range(q), running <- worker.item

PromiseKept == Promise!Spec

(* If no wait returns by itself, every scheduled item is run or taken back *)
(* in the end: none is lost between the push and the wakeup, and none is   *)
(* overtaken for ever.                                                     *)
ItemsServed == <>(spurious > 0) \/ Promise!Turns

(* Simulated time waits for scheduled work: while an item is queued or     *)
(* running the queue is registered with the lockstep scheduler.            *)
TimeWaits == q # <<>> \/ worker.pc = "run" => registered

(* And only for that: if no wait returns by itself, a queue with nothing   *)
(* to do does not hold time up for ever, not even when the item that       *)
(* registered it was removed again.                                        *)
TimeGoesOn == <>(spurious > 0) \/ []<>(registered => q # <<>> \/ worker.pc = "run")

(* The comment in Run(): the wait may be interrupted.  Then no scheduled   *)
(* item is left behind.  But a wait that returned by itself has taken one  *)
(* off the count, and the next post only makes up for it.                  *)
NoItemLeftBehind == Promise!Turns
=============================================================================
