-------------------------- MODULE WorkQueue_proofs --------------------------
(***************************************************************************)
(* Proofs about the work queue, for any items, any threads that schedule   *)
(* them and any number of waits that return by themselves, and about the   *)
(* manager that creates and destroys queues.                               *)
(***************************************************************************)
EXTENDS WorkQueue, WorkQueueManager, FiniteSetTheorems, TLAPS

(* Joining two sequences, as the provers need it.                          *)
LEMMA ConcatFacts ==
  ASSUME NEW S, NEW s \in Seq(S), NEW t \in Seq(S)
  PROVE  s \o t \in Seq(S) /\ Len(s \o t) = Len(s) + Len(t)
  OBVIOUS

(* Unlinking an item leaves the others on the queue, once each.            *)
LEMMA UnlinkFacts ==
  ASSUME NEW S, NEW s \in Seq(S), IsInjective(s), NEW k \in DOMAIN s
  PROVE  /\ Unlink(s, k) \in Seq(S)
         /\ IsInjective(Unlink(s, k))
         /\ Range(Unlink(s, k)) = Range(s) \ {s[k]}
<1>. DEFINE r == Unlink(s, k)
<1>1. k \in 1 .. Len(s) /\ Len(s) \in Nat /\ DOMAIN s = 1 .. Len(s)
  OBVIOUS
<1>2. r \in Seq(S) /\ Len(r) = Len(s) - 1
  <2>. DEFINE a == SubSeq(s, 1, k - 1)
              b == SubSeq(s, k + 1, Len(s))
  <2>1. a \in Seq(S) /\ Len(a) = k - 1
    BY <1>1
  <2>2. b \in Seq(S) /\ Len(b) = Len(s) - k
    BY <1>1
  <2>3. r = a \o b
    BY DEF Unlink
  <2>. HIDE DEF a, b, r
  <2>4. a \o b \in Seq(S) /\ Len(a \o b) = Len(a) + Len(b)
    BY <2>1, <2>2, ConcatFacts
  <2>. QED  BY ONLY <1>1, <2>1, <2>2, <2>3, <2>4
<1>3. \A j \in 1 .. Len(s) - 1 : r[j] = IF j < k THEN s[j] ELSE s[j + 1]
  <2>. DEFINE a == SubSeq(s, 1, k - 1)
              b == SubSeq(s, k + 1, Len(s))
  <2>1. /\ a \in Seq(S) /\ Len(a) = k - 1 /\ \A j \in 1 .. k - 1 : a[j] = s[j]
        /\ b \in Seq(S) /\ Len(b) = Len(s) - k /\ \A j \in 1 .. Len(s) - k : b[j] = s[k + j]
    <3>1. a \in Seq(S) /\ Len(a) = k - 1 /\ \A j \in 1 .. k - 1 : a[j] = s[j]
      BY <1>1
    <3>2. b \in Seq(S) /\ Len(b) = Len(s) - k
      BY <1>1
    <3>3. \A j \in 1 .. Len(s) - k : b[j] = s[k + j]
      BY <1>1
    <3>. QED  BY <3>1, <3>2, <3>3
  <2>2. r = a \o b
    BY DEF Unlink
  <2>. HIDE DEF a, b, r
  <2>. SUFFICES ASSUME NEW j \in 1 .. Len(s) - 1
                PROVE  r[j] = IF j < k THEN s[j] ELSE s[j + 1]
    OBVIOUS
  <2>3. CASE j < k
    <3>1. j \in 1 .. k - 1 /\ (a \o b)[j] = a[j]
      BY <1>1, <2>1, <2>3
    <3>. QED  BY <2>1, <2>2, <2>3, <3>1
  <2>4. CASE ~(j < k)
    <3>1. (a \o b)[j] = b[j - (k - 1)]
      BY <1>1, <2>1, <2>4
    <3>2. j - (k - 1) \in 1 .. Len(s) - k /\ k + (j - (k - 1)) = j + 1
      BY <1>1, <2>4
    <3>. QED  BY <2>1, <2>2, <2>4, <3>1, <3>2
  <2>. QED  BY <2>3, <2>4
<1>. HIDE DEF r
<1>4. DOMAIN r = 1 .. Len(s) - 1
  BY <1>2
<1>5. IsInjective(r)
  <2>. SUFFICES ASSUME NEW a \in 1 .. Len(s) - 1, NEW b \in 1 .. Len(s) - 1, r[a] = r[b]
                PROVE  a = b
    BY <1>4 DEF IsInjective
  <2>. DEFINE at(j) == IF j < k THEN j ELSE j + 1
  <2>1. at(a) \in DOMAIN s /\ at(b) \in DOMAIN s /\ r[a] = s[at(a)] /\ r[b] = s[at(b)]
    BY <1>1, <1>3
  <2>2. at(a) = at(b)
    BY <2>1 DEF IsInjective
  <2>. QED  BY <1>1, <2>2
<1>6. Range(r) \subseteq Range(s) \ {s[k]}
  BY <1>1, <1>3, <1>4 DEF IsInjective, Range
<1>7. Range(s) \ {s[k]} \subseteq Range(r)
  <2>. SUFFICES ASSUME NEW j \in 1 .. Len(s), j # k PROVE s[j] \in Range(r)
    BY <1>1 DEF Range
  <2>1. CASE j < k
    <3>1. j \in DOMAIN r /\ r[j] = s[j]
      BY <1>1, <1>3, <1>4, <2>1
    <3>. QED  BY <3>1 DEF Range
  <2>2. CASE j > k
    <3>1. j - 1 \in DOMAIN r /\ r[j - 1] = s[j]
      BY <1>1, <1>3, <1>4, <2>2
    <3>. QED  BY <3>1 DEF Range
  <2>. QED  BY <1>1, <2>1, <2>2
<1>. QED
  BY <1>2, <1>5, <1>6, <1>7 DEF r

(* A push appends an item that is not on the queue.                        *)
LEMMA PushedFacts ==
  ASSUME q \in Seq(Items), IsInjective(q), NEW i \in Items
  PROVE  Push(q, i) \in Seq(Items) /\ IsInjective(Push(q, i)) /\ Range(Push(q, i)) = Range(q) \cup {i}
<1>1. CASE i \in Range(q)
  BY <1>1 DEF Push
<1>2. CASE i \notin Range(q)
  <2>. DEFINE r == Append(q, i)
  <2>1. Push(q, i) = r
    BY <1>2 DEF Push
  <2>2. /\ r \in Seq(Items) /\ Len(q) \in Nat
        /\ DOMAIN q = 1 .. Len(q) /\ DOMAIN r = 1 .. Len(q) + 1
        /\ \A j \in 1 .. Len(q) : r[j] = q[j]
        /\ r[Len(q) + 1] = i
    OBVIOUS
  <2>. HIDE DEF r
  <2>3. \A j \in 1 .. Len(q) : q[j] # i
    BY <1>2, <2>2 DEF Range
  <2>4. IsInjective(r)
    BY <2>2, <2>3 DEF IsInjective
  <2>5. Range(r) = Range(q) \cup {i}
    <3>1. Range(q) \subseteq Range(r)
      BY <2>2 DEF Range
    <3>2. i \in Range(r)
      <4>1. Len(q) + 1 \in DOMAIN r
        BY <2>2
      <4>. QED  BY <2>2, <4>1 DEF Range
    <3>3. Range(r) \subseteq Range(q) \cup {i}
      BY <2>2 DEF Range
    <3>. QED  BY <3>1, <3>2, <3>3
  <2>. QED  BY <2>1, <2>2, <2>4, <2>5
<1>. QED
  BY <1>1, <1>2

(* IntrusiveQueue::remove takes out the item and no other.                 *)
LEMMA RemovedFacts ==
  ASSUME q \in Seq(Items), IsInjective(q), NEW i \in Items
  PROVE  Remove(q, i) \in Seq(Items) /\ IsInjective(Remove(q, i)) /\ Range(Remove(q, i)) = Range(q) \ {i}
<1>1. CASE i \in Range(q)
  <2>. DEFINE k == CHOOSE k \in DOMAIN q : q[k] = i
  <2>1. k \in DOMAIN q /\ q[k] = i
    BY <1>1 DEF Range
  <2>2. Remove(q, i) = Unlink(q, k)
    BY <1>1 DEF Remove
  <2>. HIDE DEF k
  <2>. QED  BY <2>1, <2>2, UnlinkFacts
<1>2. CASE i \notin Range(q)
  BY <1>2 DEF Remove
<1>. QED
  BY <1>1, <1>2

(* A pop takes the first item off.                                         *)
LEMMA TailFacts ==
  ASSUME q \in Seq(Items), IsInjective(q), q # <<>>
  PROVE  /\ Head(q) \in Items /\ Head(q) \in Range(q)
         /\ Tail(q) \in Seq(Items) /\ IsInjective(Tail(q))
         /\ Range(Tail(q)) = Range(q) \ {Head(q)}
<1>1. 1 \in DOMAIN q /\ q[1] = Head(q) /\ Unlink(q, 1) = Tail(q)
  BY DEF Unlink
<1>2. Head(q) \in Items /\ Head(q) \in Range(q)
  BY <1>1 DEF Range
<1>3. /\ Unlink(q, 1) \in Seq(Items) /\ IsInjective(Unlink(q, 1))
      /\ Range(Unlink(q, 1)) = Range(q) \ {q[1]}
  BY <1>1, UnlinkFacts
<1>. QED
  BY <1>1, <1>2, <1>3
-----------------------------------------------------------------------------
QueueInv == TypeOK /\ SemInv /\ RunInv /\ TimeWaits /\ WakeupNotLost

(* The callers about to post, when one more is and when one has.           *)
LEMMA PostingStep ==
  ASSUME TypeOK, NEW t \in Callers
  PROVE  /\ IsFiniteSet(Callers) /\ IsFiniteSet(Posting)
         /\ Cardinality(Callers) \in Nat /\ Cardinality(Posting) \in Nat
         /\ Cardinality(Posting) <= Cardinality(Callers)
         /\ Cardinality(Posting') \in Nat /\ Cardinality(Posting') <= Cardinality(Callers)
         /\ pc[t] = "post" /\ pc' = [pc EXCEPT ![t] = "idle"] =>
              Cardinality(Posting') = Cardinality(Posting) - 1
         /\ pc[t] # "post" /\ pc' \in {[pc EXCEPT ![t] = "idle"], [pc EXCEPT ![t] = "signal"]} =>
              Posting' = Posting
<1>1. IsFiniteSet(Callers)
  <2>1. IsFiniteSet(Threads)
    BY WorkQueueAssumption
  <2>. QED  BY <2>1, FS_AddElement DEF Callers
<1>2. ASSUME NEW P, P \subseteq Callers
      PROVE  IsFiniteSet(P) /\ Cardinality(P) \in Nat /\ Cardinality(P) <= Cardinality(Callers)
  BY <1>1, <1>2, FS_Subset, FS_CardinalityType
<1>3. Posting \subseteq Callers /\ Posting' \subseteq Callers
  BY DEF Posting
<1>4. pc[t] = "post" /\ pc' = [pc EXCEPT ![t] = "idle"] => t \in Posting /\ Posting' = Posting \ {t}
  BY DEF Posting, TypeOK
<1>5. t \in Posting => Cardinality(Posting \ {t}) = Cardinality(Posting) - 1
  BY <1>2, <1>3, FS_RemoveElement
<1>6. pc[t] # "post" /\ pc' \in {[pc EXCEPT ![t] = "idle"], [pc EXCEPT ![t] = "signal"]} =>
        Posting' = Posting
  BY DEF Posting, TypeOK
<1>7. Cardinality(Callers) \in Nat
  BY <1>1, FS_CardinalityType
<1>. QED
  BY <1>1, <1>2, <1>3, <1>4, <1>5, <1>6, <1>7

(* Steps of a caller.                                                      *)
LEMMA CallerStep ==
  ASSUME QueueInv, NEW t \in Callers,
         (\E i \in Items : Add(t, i) \/ RemoveItem(t, i)) \/ Signals(t)
  PROVE  QueueInv'
<1>. USE WorkQueueAssumption DEF QueueInv, TypeOK, SemInv, RunInv, TimeWaits, WakeupNotLost
<1>1. ASSUME NEW i \in Items, Add(t, i)  PROVE  QueueInv'
  <2>1. Push(q, i) \in Seq(Items) /\ IsInjective(Push(q, i))
    BY PushedFacts
  <2>2. Posting' = Posting
    BY <1>1, PostingStep DEF Add, Calls
  <2>3. TypeOK'
    BY <1>1, <2>1 DEF Add
  <2>4. pc'[t] = "signal"
    BY <1>1 DEF Add
  <2>. QED  BY <1>1, <2>2, <2>3, <2>4 DEF Add
<1>2. ASSUME NEW i \in Items, RemoveItem(t, i)  PROVE  QueueInv'
  <2>1. Remove(q, i) \in Seq(Items) /\ IsInjective(Remove(q, i))
    BY RemovedFacts
  <2>2. q = <<>> => Remove(q, i) = <<>>
    BY DEF Remove, Range
  <2>3. Posting' = Posting
    BY <1>2 DEF RemoveItem, Posting
  <2>. QED  BY <1>2, <2>1, <2>2, <2>3 DEF RemoveItem
<1>3. CASE SignalWorkerThread(t)
  <2>1. TypeOK'
    BY <1>3 DEF SignalWorkerThread
  <2>2. SemInv'
    <3>1. CASE sem <= 0
      <4>1. pc' = [pc EXCEPT ![t] = "post"]
        BY <1>3, <3>1 DEF SignalWorkerThread
      <4>2. Cardinality(Posting') \in Nat /\ Cardinality(Callers) \in Nat
            /\ Cardinality(Posting') <= Cardinality(Callers)
        BY <4>1, <2>1, PostingStep
      <4>. QED  BY <1>3, <3>1, <4>2 DEF SignalWorkerThread
    <3>2. CASE ~(sem <= 0)
      BY <1>3, <3>2, PostingStep DEF SignalWorkerThread
    <3>. QED  BY <3>1, <3>2
  <2>3. WakeupNotLost'
    <3>1. CASE sem <= 0
      <4>1. pc'[t] = "post"
        BY <1>3, <3>1 DEF SignalWorkerThread
      <4>. QED  BY <4>1
    <3>2. CASE ~(sem <= 0)
      BY <1>3, <3>2 DEF SignalWorkerThread
    <3>. QED  BY <3>1, <3>2
  <2>. QED  BY <1>3, <2>1, <2>2, <2>3 DEF SignalWorkerThread
<1>4. CASE Post(t)
  <2>1. Cardinality(Posting') = Cardinality(Posting) - 1
        /\ Cardinality(Posting') \in Nat
        /\ Cardinality(Posting) \in Nat /\ Cardinality(Callers) \in Nat
    BY <1>4, PostingStep DEF Post
  <2>4. /\ sem' \in -(MaxSpurious + 1) .. Cardinality(Callers)
        /\ pc' \in [Callers -> {"idle", "signal", "post"}]
        /\ UNCHANGED <<q, registered, spurious>>
    <3>1. sem + Cardinality(Posting) <= Cardinality(Callers) /\ sem' = sem + 1
      BY <1>4 DEF Post
    <3>2. sem' \in -(MaxSpurious + 1) .. Cardinality(Callers)
      BY <2>1, <3>1
    <3>. QED  BY <1>4, <3>2 DEF Post
  <2>2. CASE worker.pc = "blocked"
    <3>1. worker' = [worker EXCEPT !.pc = "loop"] /\ sem + 1 <= 0
      BY <1>4, <2>2 DEF Post
    <3>2. TypeOK'
      BY <2>4, <3>1
    <3>3. SemInv'
      <4>1. sem' = sem + 1 /\ spurious' = spurious /\ worker'.pc = "loop"
        BY <1>4, <3>1 DEF Post
      <4>2. /\ sem >= -spurious - 1 /\ sem + Cardinality(Posting) <= Cardinality(Callers)
            /\ sem \in Int /\ spurious \in Int
        BY <2>1, <2>2
      <4>. QED  BY ONLY <2>1, <4>1, <4>2 DEF SemInv
    <3>4. RunInv' /\ TimeWaits' /\ WakeupNotLost'
      BY <1>4, <2>2, <3>1 DEF Post
    <3>. QED  BY <3>2, <3>3, <3>4
  <2>3. CASE worker.pc # "blocked"
    <3>1. worker' = worker /\ sem' = sem + 1
      BY <1>4, <2>3 DEF Post
    <3>2. TypeOK'
      BY <2>4, <3>1
    <3>3. SemInv'
      <4>1. spurious' = spurious /\ worker'.pc # "blocked"
        BY <1>4, <2>3, <3>1 DEF Post
      <4>2. /\ sem >= -spurious /\ sem + Cardinality(Posting) <= Cardinality(Callers)
            /\ sem \in Int /\ spurious \in Int
        BY <2>1, <2>3
      <4>. QED  BY ONLY <2>1, <3>1, <4>1, <4>2 DEF SemInv
    <3>4. RunInv' /\ TimeWaits'
      BY <1>4, <2>3, <3>1 DEF Post
    <3>5. WakeupNotLost'
      <4>1. spurious = 0 /\ worker.pc = "wait" => sem >= 0
        BY DEF QueueInv
      <4>. QED  BY <1>4, <2>3, <3>1, <4>1 DEF Post
    <3>. QED  BY <3>2, <3>3, <3>4, <3>5
  <2>. QED  BY <2>2, <2>3
<1>. QED
  BY <1>1, <1>2, <1>3, <1>4 DEF Signals

(* Steps of the worker.                                                    *)
LEMMA WorkerStep ==
  ASSUME QueueInv, Runs \/ WakesBySelf
  PROVE  QueueInv'
<1>. USE WorkQueueAssumption DEF QueueInv, TypeOK, SemInv, RunInv, TimeWaits, WakeupNotLost
<1>1. pc' = pc /\ Posting' = Posting
  BY DEF Runs, WakesBySelf, Wait, Pop, Return, Drained, Posting
<1>2. Cardinality(Posting) \in Nat /\ Cardinality(Callers) \in Nat
  BY PostingStep DEF Callers
<1>3. CASE Wait
  <2>1. /\ UNCHANGED <<q, registered, spurious>> /\ sem' = sem - 1
        /\ worker.pc = "wait" /\ worker' = [worker EXCEPT !.pc = IF sem' < 0 THEN "blocked" ELSE "loop"]
    BY <1>3 DEF Wait
  <2>2. sem \in Int /\ spurious \in 0 .. MaxSpurious /\ sem >= -spurious
    BY <2>1
  <2>3. worker'.pc = (IF sem' < 0 THEN "blocked" ELSE "loop") /\ worker'.item = worker.item
    BY <2>1
  <2>4. SemInv'
    BY <1>1, <1>2, <2>1, <2>2, <2>3
  <2>7. RunInv' /\ TimeWaits'
    BY <1>1, <1>2, <2>1, <2>2, <2>3
  <2>5. TypeOK'
    <3>1. sem' \in -(MaxSpurious + 1) .. Cardinality(Callers)
      BY <1>2, <2>1, <2>2
    <3>. QED  BY <1>1, <2>1, <3>1
  <2>6. WakeupNotLost'
    BY <1>1, <2>1, <2>3
  <2>. QED  BY <2>4, <2>5, <2>6, <2>7
<1>4. CASE Pop
  BY <1>1, <1>2, <1>4, TailFacts DEF Pop
<1>5. CASE Return
  BY <1>1, <1>2, <1>5 DEF Return
<1>6. CASE Drained
  BY <1>1, <1>2, <1>6 DEF Drained
<1>7. CASE WakesBySelf
  <2>1. /\ worker.pc = "blocked" /\ worker' = [worker EXCEPT !.pc = "loop"]
        /\ spurious' = spurious + 1 /\ spurious' \in 0 .. MaxSpurious
        /\ UNCHANGED <<q, sem, pc, registered>>
    BY <1>7 DEF WakesBySelf
  <2>2. worker'.pc = "loop" /\ worker'.item = worker.item
    BY <2>1
  <2>3. TypeOK'
    BY <2>1
  <2>4. SemInv'
    BY <1>1, <1>2, <2>1, <2>2
  <2>5. RunInv' /\ TimeWaits' /\ WakeupNotLost'
    BY <2>1, <2>2
  <2>. QED  BY <2>3, <2>4, <2>5
<1>. QED
  BY <1>3, <1>4, <1>5, <1>6, <1>7 DEF Runs
(* QueueInv is inductive.                                                  *)
LEMMA QueueInvInductive ==
  /\ Init => QueueInv
  /\ QueueInv /\ [Next]_vars => QueueInv'
<1>1. Init => QueueInv
  <2>. SUFFICES ASSUME Init  PROVE  QueueInv
    OBVIOUS
  <2>1. Posting = {} /\ IsFiniteSet(Callers)
    BY WorkQueueAssumption, FS_AddElement DEF Init, Posting, Callers
  <2>2. Cardinality(Posting) = 0 /\ Cardinality(Callers) \in Nat
    BY <2>1, FS_EmptySet, FS_CardinalityType
  <2>3. TypeOK
    <3>1. q \in Seq(Items) /\ DOMAIN q = {}
      BY DEF Init
    <3>2. IsInjective(q)
      BY <3>1 DEF IsInjective
    <3>3. 0 \in -(MaxSpurious + 1) .. Cardinality(Callers) /\ 0 \in 0 .. MaxSpurious
      BY <2>2, WorkQueueAssumption
    <3>. QED  BY <3>1, <3>2, <3>3 DEF Init, TypeOK
  <2>. QED
    BY <2>2, <2>3 DEF Init, QueueInv, SemInv, RunInv, TimeWaits, WakeupNotLost
<1>2. QueueInv /\ [Next]_vars => QueueInv'
  <2>. SUFFICES ASSUME QueueInv, [Next]_vars  PROVE  QueueInv'
    OBVIOUS
  <2>1. CASE \E t \in Callers, i \in Items : Add(t, i) \/ RemoveItem(t, i)
    BY <2>1, CallerStep
  <2>2. CASE \E t \in Callers : Signals(t)
    BY <2>2, CallerStep
  <2>3. CASE Runs \/ WakesBySelf
    BY <2>3, WorkerStep
  <2>4. CASE UNCHANGED vars
    BY <2>4 DEF vars, QueueInv, TypeOK, SemInv, RunInv, TimeWaits, WakeupNotLost, Posting
  <2>. QED
    BY <2>1, <2>2, <2>3, <2>4 DEF Next
<1>. QED
  BY <1>1, <1>2

(* However many threads and items there are, simulated time waits for      *)
(* scheduled work: the lockstep registration that Add makes under the      *)
(* queue's lock outlives the item it was made for.                         *)
THEOREM TimeWaitsTheorem == Spec => []TimeWaits
<1>1. Init => QueueInv
  BY QueueInvInductive
<1>2. QueueInv /\ [Next]_vars => QueueInv'
  BY QueueInvInductive
<1>3. QueueInv => TimeWaits
  BY DEF QueueInv
<1>. QED
  BY <1>1, <1>2, <1>3, PTL DEF Spec

(* No order of push, unlock, read of the semaphore's value and post loses  *)
(* the wakeup of a queued item, as long as no wait returns by itself; and  *)
(* the semaphore's value stays within the number of callers.               *)
THEOREM WakeupTheorem == Spec => [](TypeOK /\ WakeupNotLost)
<1>1. Init => QueueInv
  BY QueueInvInductive
<1>2. QueueInv /\ [Next]_vars => QueueInv'
  BY QueueInvInductive
<1>3. QueueInv => TypeOK /\ WakeupNotLost
  BY DEF QueueInv
<1>. QED
  BY <1>1, <1>2, <1>3, PTL DEF Spec

-----------------------------------------------------------------------------
(* A step of the queue is a step of what it promises, or changes neither   *)
(* the items pending nor the one that runs.                                *)
LEMMA PromiseStep ==
  ASSUME QueueInv, [Next]_vars
  PROVE  [Promise!Next]_(Promise!vars)
<1>. USE DEF Promise!Next, Promise!vars
<1>1. ASSUME NEW t \in Callers, NEW i \in Items, Add(t, i)
      PROVE  Promise!Schedule(i)
  <2>1. Range(Push(q, i)) = Range(q) \cup {i}
    BY PushedFacts DEF QueueInv, TypeOK
  <2>. QED  BY <1>1, <2>1 DEF Add, Promise!Schedule, Range
<1>2. ASSUME NEW t \in Callers, NEW i \in Items, RemoveItem(t, i)
      PROVE  Promise!Clear(i)
  <2>1. Range(Remove(q, i)) = Range(q) \ {i}
    BY RemovedFacts DEF QueueInv, TypeOK
  <2>. QED  BY <1>2, <2>1 DEF RemoveItem, Promise!Clear, Range
<1>3. CASE Pop
  <2>1. Head(q) \in Items /\ Head(q) \in Range(q) /\ Range(Tail(q)) = Range(q) \ {Head(q)}
    BY <1>3, TailFacts DEF Pop, QueueInv, TypeOK
  <2>2. worker.item = None
    BY <1>3 DEF Pop, QueueInv, RunInv
  <2>3. Promise!Start(Head(q))
    BY <1>3, <2>1, <2>2 DEF Pop, Promise!Start, Range
  <2>. QED  BY <2>1, <2>3
<1>4. CASE Return
  BY <1>4 DEF Return, Promise!Finish, QueueInv, RunInv, Range
<1>5. ASSUME (\E t \in Callers : Signals(t)) \/ Wait \/ Drained \/ WakesBySelf \/ UNCHANGED vars
      PROVE  UNCHANGED Promise!vars
  <2>1. UNCHANGED q
    BY <1>5 DEF Signals, SignalWorkerThread, Post, Wait, Drained, WakesBySelf, vars
  <2>2. worker'.item = worker.item
    BY <1>5 DEF Signals, SignalWorkerThread, Post, Wait, Drained, WakesBySelf, vars, QueueInv, TypeOK
  <2>. QED  BY <2>1, <2>2 DEF Range
<1>. QED
  BY <1>1, <1>2, <1>3, <1>4, <1>5 DEF Next, Runs

(* The safety part of PromiseKept: whatever the threads and the worker do, *)
(* and even when a wait returns by itself, an item is run once for the     *)
(* calls that scheduled it, and no two items run at the same time.         *)
THEOREM PromiseTheorem == Spec => Promise!Init /\ [][Promise!Next]_(Promise!vars)
<1>1. Init => QueueInv
  BY QueueInvInductive
<1>2. QueueInv /\ [Next]_vars => QueueInv'
  BY QueueInvInductive
<1>3. Init => Promise!Init
  BY DEF Init, Promise!Init, Range
<1>4. QueueInv /\ [Next]_vars => [Promise!Next]_(Promise!vars)
  BY PromiseStep
<1>. QED
  BY <1>1, <1>2, <1>3, <1>4, PTL DEF Spec

-----------------------------------------------------------------------------
(* How work queues come and go, for every number of items and queues.      *)
Typed ==
  /\ queue \in [Queues ->
                  [phase : Phases, items : SUBSET ItemIds, exit_lock : BOOLEAN]]
  /\ item \in [ItemIds -> [pc : {"out", "create", "poll", "attach", "in", "detached", "lost"},
                           wq : Queues \cup {0}]]

ManagerInv == Typed /\ AttachInv /\ AttachedIsServed

(* The list keeps queues only.                                             *)
LEMMA ListFacts ==
  ASSUME list \in Seq(Queues), NEW k \in Queues
  PROVE  /\ Remove(list, k) \in Seq(Queues)
         /\ <<k>> \o list \in Seq(Queues)
         /\ list # <<>> => Head(list) \in Queues
<1>0. <<k>> \o list \in Seq(Queues) /\ (list # <<>> => Head(list) \in Queues)
  OBVIOUS
<1>1. CASE k \in Range(list)
  <2>. DEFINE n == CHOOSE n \in DOMAIN list : list[n] = k
  <2>1. n \in 1 .. Len(list)
    BY <1>1 DEF Range
  <2>2. Remove(list, k) = SubSeq(list, 1, n - 1) \o SubSeq(list, n + 1, Len(list))
    BY <1>1 DEF Remove, Unlink
  <2>. HIDE DEF n
  <2>3. /\ SubSeq(list, 1, n - 1) \in Seq(Queues)
        /\ SubSeq(list, n + 1, Len(list)) \in Seq(Queues)
    BY <2>1
  <2>4. SubSeq(list, 1, n - 1) \o SubSeq(list, n + 1, Len(list)) \in Seq(Queues)
    BY <2>3, ConcatFacts, Zenon
  <2>. QED  BY <1>0, <2>2, <2>4, Zenon
<1>2. CASE k \notin Range(list)
  BY <1>0, <1>2 DEF Remove
<1>. QED
  BY <1>1, <1>2

(* Steps that only move an item that is neither attached nor leaving.      *)
LEMMA ItemMoves ==
  ASSUME ManagerInv, NEW i \in ItemIds, NEW it, UNCHANGED <<queue, list>>,
         item' = [item EXCEPT ![i] = it],
         it \in [pc : {"out", "create", "poll", "attach", "lost"}, wq : Queues \cup {0}],
         it.pc = "attach" => it.wq \in Queues,
         item[i].pc \notin {"in", "detached"}
  PROVE  ManagerInv'
<1>. USE DEF ManagerInv, Typed
<1>1. Typed'
  OBVIOUS
<1>2. item'[i].pc \notin {"in", "detached"} /\ \A j \in ItemIds \ {i} : item'[j] = item[j]
  OBVIOUS
<1>3. AttachedIsServed'
  BY <1>2 DEF AttachedIsServed
<1>4. AttachInv'
  <2>1. \A k \in Queues : i \notin queue[k].items
    BY DEF AttachInv
  <2>. QED  BY <1>2, <2>1 DEF AttachInv
<1>. QED
  BY <1>1, <1>3, <1>4

(* An item that looks for its queue, starts or leaves.                     *)
LEMMA ItemStep ==
  ASSUME ManagerInv, NEW i \in ItemIds,
         Find(i) \/ Starts(i) \/ Detach(i) \/ DetachEnds(i)
  PROVE  ManagerInv'
<1>. USE DEF ManagerInv, Typed
<1>0. list # <<>> => Head(list) \in Queues
  BY ListFacts DEF AttachInv
<1>1. CASE Find(i)
  BY <1>0, <1>1, ItemMoves DEF Find
<1>2. CASE RequestQueue(i)
  <2>. DEFINE it == [item[i] EXCEPT !.pc = "poll"]
  <2>1. item' = [item EXCEPT ![i] = it] /\ it.pc = "poll"
        /\ it \in [pc : {"out", "create", "poll", "attach", "lost"}, wq : Queues \cup {0}]
    BY <1>2 DEF RequestQueue
  <2>. HIDE DEF it
  <2>. QED  BY <1>2, <2>1, ItemMoves DEF RequestQueue
<1>3. CASE Poll(i)
  BY <1>0, <1>3, ItemMoves DEF Poll
<1>4. CASE GiveUp(i)
  BY <1>4, ItemMoves DEF GiveUp
<1>5. CASE AttachDestroyed(i)
  BY <1>5, ItemMoves DEF AttachDestroyed
<1>6. CASE Attach(i)
  <2>. DEFINE k == item[i].wq
  <2>1. k \in Queues /\ item[i].pc = "attach"
    BY <1>6 DEF Attach, AttachInv
  <2>2. CASE queue[k].phase # "running"
    BY <1>6, <2>1, <2>2, ItemMoves DEF Attach
  <2>3. CASE queue[k].phase = "running"
    <3>1. /\ queue' = [queue EXCEPT ![k].items = @ \cup {i}]
          /\ item' = [item EXCEPT ![i].pc = "in"] /\ list' = list
      BY <1>6, <2>3 DEF Attach
    <3>2. /\ item'[i] = [pc |-> "in", wq |-> k]
          /\ \A j \in ItemIds \ {i} : item'[j] = item[j]
      BY <2>1, <3>1
    <3>3. /\ queue'[k].items = queue[k].items \cup {i}
          /\ \A l \in Queues : /\ queue'[l].phase = queue[l].phase
                               /\ queue'[l].exit_lock = queue[l].exit_lock
                               /\ l # k => queue'[l].items = queue[l].items
      BY <2>1, <3>1
    <3>. HIDE DEF k
    <3>4. Typed'
      BY <2>1, <3>1
    <3>5. AttachedIsServed'
      <4>. SUFFICES ASSUME NEW j \in ItemIds, item'[j].pc = "in"
                    PROVE  queue'[item'[j].wq].phase = "running" /\ j \in queue'[item'[j].wq].items
        BY DEF AttachedIsServed
      <4>1. CASE j = i
        BY <2>1, <2>3, <3>2, <3>3, <4>1 DEF k
      <4>2. CASE j # i
        <5>1. item'[j] = item[j] /\ item[j].pc = "in" /\ item[j].wq \in Queues
          BY <3>2, <4>2 DEF AttachInv
        <5>. QED  BY <3>3, <5>1 DEF AttachedIsServed
      <4>. QED  BY <4>1, <4>2
    <3>6. \A l \in Queues : i \notin queue[l].items
      BY <2>1 DEF AttachInv
    <3>7. \A l \in Queues : \A j \in queue'[l].items : item'[j].pc = "in" /\ item'[j].wq = l
      BY <2>1, <3>2, <3>3, <3>6 DEF AttachInv
    <3>8. list' \in Seq(Queues)
          /\ \A j \in ItemIds : item'[j].pc \in {"attach", "in", "detached"} =>
                               item'[j].wq \in Queues
      BY <2>1, <3>1, <3>2 DEF AttachInv
    <3>9. ASSUME NEW j \in ItemIds, item'[j].pc = "detached"
          PROVE  /\ queue'[item'[j].wq].phase \in {"stopping", "unlisted"}
                 /\ queue'[item'[j].wq].exit_lock
                 /\ \A o \in ItemIds \ {j} : item'[o].pc = "detached" => item'[o].wq # item'[j].wq
      <4>1. \A o \in ItemIds : item'[o].pc = "detached" => item'[o] = item[o]
        BY <3>2
      <4>2. item'[j] = item[j] /\ item[j].pc = "detached"
        BY <3>9, <4>1
      <4>3. /\ item[j].wq \in Queues
            /\ queue[item[j].wq].phase \in {"stopping", "unlisted"}
            /\ queue[item[j].wq].exit_lock
            /\ \A o \in ItemIds \ {j} : item[o].pc = "detached" => item[o].wq # item[j].wq
        BY <4>2 DEF AttachInv
      <4>4. \A o \in ItemIds \ {j} : item'[o].pc = "detached" => item'[o].wq # item'[j].wq
        BY ONLY <4>1, <4>2, <4>3
      <4>. QED  BY <3>3, <4>2, <4>3, <4>4
    <3>10. AttachInv'
      BY ONLY <3>7, <3>8, <3>9 DEF AttachInv
    <3>. QED  BY <3>4, <3>5, <3>10
  <2>. QED  BY <2>2, <2>3
<1>7. CASE Detach(i)
  <2>. DEFINE k == item[i].wq
              left == queue[k].items \ {i}
  <2>1. k \in Queues /\ item[i].pc = "in" /\ queue[k].phase = "running" /\ list' = list
    BY <1>7 DEF Detach, AttachInv, AttachedIsServed
  <2>2. /\ queue' = [queue EXCEPT ![k] = IF left = {} THEN [phase |-> "stopping", items |-> left,
                                                           exit_lock |-> TRUE]
                                        ELSE [queue[k] EXCEPT !.items = left]]
        /\ item' = [item EXCEPT ![i] = IF left = {} THEN [pc |-> "detached", wq |-> k]
                                       ELSE [pc |-> "out", wq |-> 0]]
    BY <1>7 DEF Detach
  <2>3. \A j \in ItemIds : item[j].pc = "in" /\ item[j].wq = k => j \in queue[k].items
    BY DEF AttachedIsServed
  <2>4. \A j \in ItemIds : item[j].pc = "detached" => item[j].wq # k
    BY <2>1 DEF AttachInv
  <2>5. /\ \A j \in ItemIds \ {i} : item'[j] = item[j]
        /\ \A l \in Queues \ {k} : queue'[l] = queue[l]
        /\ queue'[k].items = left
        /\ \A l \in Queues : i \notin queue'[l].items
    <3>1. \A l \in Queues \ {k} : i \notin queue[l].items
      BY DEF AttachInv
    <3>2. /\ \A j \in ItemIds \ {i} : item'[j] = item[j]
          /\ \A l \in Queues \ {k} : queue'[l] = queue[l]
      BY <2>1, <2>2
    <3>3. queue'[k].items = left
      BY <2>1, <2>2
    <3>4. i \notin left
      OBVIOUS
    <3>. HIDE DEF k, left
    <3>. QED  BY <3>1, <3>2, <3>3, <3>4
  <2>6. Typed'
    <3>1. left \subseteq ItemIds /\ queue[k] \in [phase : Phases, items : SUBSET ItemIds, exit_lock : BOOLEAN]
      BY <2>1
    <3>. HIDE DEF k, left
    <3>2. /\ [phase |-> "stopping", items |-> left, exit_lock |-> TRUE]
               \in [phase : Phases, items : SUBSET ItemIds, exit_lock : BOOLEAN]
          /\ [queue[k] EXCEPT !.items = left]
               \in [phase : Phases, items : SUBSET ItemIds, exit_lock : BOOLEAN]
      BY <3>1 DEF Phases
    <3>3. queue' \in [Queues -> [phase : Phases, items : SUBSET ItemIds, exit_lock : BOOLEAN]]
      BY <2>2, <3>2
    <3>4. item' \in [ItemIds -> [pc : {"out", "create", "poll", "attach", "in", "detached", "lost"},
                                wq : Queues \cup {0}]]
      BY <2>1, <2>2
    <3>. QED  BY <3>3, <3>4
  <2>7. CASE left = {}
    <3>1. queue'[k] = [phase |-> "stopping", items |-> {}, exit_lock |-> TRUE]
          /\ item'[i] = [pc |-> "detached", wq |-> k]
      BY <2>1, <2>2, <2>7
    <3>2. \A j \in ItemIds \ {i} : item[j].pc = "in" => item[j].wq \in Queues \ {k}
      BY <2>3, <2>7 DEF AttachInv
    <3>. HIDE DEF k, left
    <3>3. AttachedIsServed'
      BY <2>5, <3>1, <3>2 DEF AttachedIsServed
    <3>4. list' \in Seq(Queues)
          /\ \A j \in ItemIds : item'[j].pc \in {"attach", "in", "detached"} =>
                               item'[j].wq \in Queues
      <4>1. list \in Seq(Queues)
            /\ \A j \in ItemIds : item[j].pc \in {"attach", "in", "detached"} => item[j].wq \in Queues
        BY DEF AttachInv
      <4>2. item'[i].wq \in Queues
        BY ONLY <2>1, <3>1
      <4>. QED  BY ONLY <2>1, <2>5, <4>1, <4>2
    <3>5. \A l \in Queues : \A j \in queue'[l].items : item'[j].pc = "in" /\ item'[j].wq = l
      BY <2>5, <3>1 DEF AttachInv
    <3>6. ASSUME NEW j \in ItemIds, item'[j].pc = "detached"
          PROVE  /\ queue'[item'[j].wq].phase \in {"stopping", "unlisted"}
                 /\ queue'[item'[j].wq].exit_lock
                 /\ \A o \in ItemIds \ {j} : item'[o].pc = "detached" => item'[o].wq # item'[j].wq
      <4>1. CASE j = i
        BY <2>4, <2>5, <3>1, <4>1
      <4>2. CASE j # i
        <5>1. item'[j] = item[j] /\ item[j].pc = "detached" /\ item[j].wq \in Queues \ {k}
          BY <2>4, <2>5, <3>6, <4>2 DEF AttachInv
        <5>2. queue'[item'[j].wq] = queue[item[j].wq]
          BY <2>5, <5>1
        <5>3. ASSUME NEW o \in ItemIds \ {j}, item'[o].pc = "detached"
              PROVE  item'[o].wq # item'[j].wq
          <6>1. CASE o = i
            BY <3>1, <5>1, <6>1
          <6>2. CASE o # i
            <7>1. item'[o] = item[o] /\ item[o].pc = "detached"
              BY <2>5, <5>3, <6>2
            <7>2. item[o].wq # item[j].wq
              BY <5>1, <7>1 DEF AttachInv
            <7>. QED  BY <5>1, <7>1, <7>2
          <6>. QED  BY <6>1, <6>2
        <5>. QED  BY <5>1, <5>2, <5>3 DEF AttachInv
      <4>. QED  BY <4>1, <4>2
    <3>. QED  BY <2>6, <3>3, <3>4, <3>5, <3>6 DEF AttachInv
  <2>8. CASE left # {}
    <3>1. queue'[k].phase = "running" /\ item'[i] = [pc |-> "out", wq |-> 0]
      BY <2>1, <2>2, <2>8
    <3>2. \A j \in ItemIds \ {i} : item[j].pc = "in" /\ item[j].wq = k => j \in left
      BY <2>3
    <3>3. left \subseteq queue[k].items
      OBVIOUS
    <3>. HIDE DEF k, left
    <3>4. AttachedIsServed'
      <4>. SUFFICES ASSUME NEW j \in ItemIds, item'[j].pc = "in"
                    PROVE  queue'[item'[j].wq].phase = "running" /\ j \in queue'[item'[j].wq].items
        BY DEF AttachedIsServed
      <4>1. j # i /\ item'[j] = item[j] /\ item[j].pc = "in" /\ item[j].wq \in Queues
        BY <2>5, <3>1 DEF AttachInv
      <4>2. CASE item[j].wq = k
        BY <2>5, <3>1, <3>2, <4>1, <4>2
      <4>3. CASE item[j].wq # k
        <5>1. queue[item[j].wq].phase = "running" /\ j \in queue[item[j].wq].items
          BY <4>1 DEF AttachedIsServed
        <5>2. queue'[item[j].wq] = queue[item[j].wq]
          BY <2>5, <4>1, <4>3
        <5>. QED  BY <4>1, <5>1, <5>2
      <4>. QED  BY <4>2, <4>3
    <3>5. list' \in Seq(Queues)
          /\ \A j \in ItemIds : item'[j].pc \in {"attach", "in", "detached"} =>
                               item'[j].wq \in Queues
      <4>1. item'[i].pc \notin {"attach", "in", "detached"}
        BY ONLY <3>1
      <4>2. list \in Seq(Queues)
            /\ \A j \in ItemIds : item[j].pc \in {"attach", "in", "detached"} => item[j].wq \in Queues
        BY DEF AttachInv
      <4>. QED  BY ONLY <2>1, <2>5, <4>1, <4>2
    <3>6. \A l \in Queues : \A j \in queue'[l].items : item'[j].pc = "in" /\ item'[j].wq = l
      <4>. SUFFICES ASSUME NEW l \in Queues, NEW j \in queue'[l].items
                    PROVE  item'[j].pc = "in" /\ item'[j].wq = l
        OBVIOUS
      <4>1. j \in queue[l].items /\ j # i
        BY <2>5, <3>3
      <4>2. j \in ItemIds
        BY <4>1
      <4>3. item[j].pc = "in" /\ item[j].wq = l
        BY <4>1 DEF AttachInv
      <4>4. item'[j] = item[j]
        BY <2>5, <4>1, <4>2
      <4>. QED  BY <4>3, <4>4
    <3>7. ASSUME NEW j \in ItemIds, item'[j].pc = "detached"
          PROVE  /\ queue'[item'[j].wq].phase \in {"stopping", "unlisted"}
                 /\ queue'[item'[j].wq].exit_lock
                 /\ \A o \in ItemIds \ {j} : item'[o].pc = "detached" => item'[o].wq # item'[j].wq
      <4>1. j # i /\ \A o \in ItemIds : item'[o].pc = "detached" => o # i
        BY <3>1, <3>7
      <4>2. item'[j] = item[j] /\ item[j].pc = "detached" /\ item[j].wq \in Queues \ {k}
        BY <2>4, <2>5, <3>7, <4>1 DEF AttachInv
      <4>3. /\ queue[item[j].wq].phase \in {"stopping", "unlisted"} /\ queue[item[j].wq].exit_lock
            /\ \A o \in ItemIds \ {j} : item[o].pc = "detached" => item[o].wq # item[j].wq
        BY <4>2 DEF AttachInv
      <4>4. queue'[item'[j].wq] = queue[item[j].wq]
        BY <2>5, <4>2
      <4>5. \A o \in ItemIds \ {j} : item'[o].pc = "detached" => item'[o] = item[o]
        BY <2>5, <4>1
      <4>6. \A o \in ItemIds \ {j} : item'[o].pc = "detached" => item'[o].wq # item'[j].wq
        BY <4>2, <4>3, <4>5
      <4>. QED  BY <4>3, <4>4, <4>6
    <3>. QED  BY <2>6, <3>4, <3>5, <3>6, <3>7 DEF AttachInv
  <2>. QED  BY <2>7, <2>8
<1>8. CASE DetachEnds(i)
  <2>. DEFINE k == item[i].wq
  <2>1. k \in Queues /\ item[i].pc = "detached" /\ list' = list
    BY <1>8 DEF DetachEnds, AttachInv
  <2>2. /\ queue' = [queue EXCEPT ![k].exit_lock = FALSE]
        /\ item' = [item EXCEPT ![i] = [pc |-> "out", wq |-> 0]]
    BY <1>8 DEF DetachEnds
  <2>3. /\ item'[i].pc = "out" /\ \A j \in ItemIds \ {i} : item'[j] = item[j]
        /\ \A l \in Queues : /\ queue'[l].phase = queue[l].phase
                             /\ queue'[l].items = queue[l].items
                             /\ l # k => queue'[l].exit_lock = queue[l].exit_lock
    BY <2>1, <2>2
  <2>4. Typed'
    BY <2>1, <2>2
  <2>5. AttachedIsServed'
    <3>. SUFFICES ASSUME NEW j \in ItemIds, item'[j].pc = "in"
                  PROVE  queue'[item'[j].wq].phase = "running" /\ j \in queue'[item'[j].wq].items
      BY DEF AttachedIsServed
    <3>1. item'[j] = item[j] /\ item[j].pc = "in" /\ item[j].wq \in Queues
      BY <2>3 DEF AttachInv
    <3>2. queue[item[j].wq].phase = "running" /\ j \in queue[item[j].wq].items
      BY <3>1 DEF AttachedIsServed
    <3>. QED  BY ONLY <2>3, <3>1, <3>2
  <2>6. \A j \in ItemIds \ {i} : item[j].pc = "detached" => item[j].wq \in Queues \ {k}
    BY <2>1 DEF AttachInv
  <2>7. \A l \in Queues : i \notin queue[l].items
    BY <2>1 DEF AttachInv
  <2>8. list' \in Seq(Queues)
        /\ \A j \in ItemIds : item'[j].pc \in {"attach", "in", "detached"} =>
                               item'[j].wq \in Queues
    BY <2>1, <2>3 DEF AttachInv
  <2>9. \A l \in Queues : \A j \in queue'[l].items : item'[j].pc = "in" /\ item'[j].wq = l
    <3>1. \A l \in Queues : \A j \in queue[l].items : j \in ItemIds \ {i}
      BY <2>7
    <3>2. \A l \in Queues : \A j \in queue[l].items : item[j].pc = "in" /\ item[j].wq = l
      BY DEF AttachInv
    <3>. QED  BY ONLY <2>3, <3>1, <3>2
  <2>10. ASSUME NEW j \in ItemIds, item'[j].pc = "detached"
         PROVE  /\ queue'[item'[j].wq].phase \in {"stopping", "unlisted"}
                /\ queue'[item'[j].wq].exit_lock
                /\ \A o \in ItemIds \ {j} : item'[o].pc = "detached" => item'[o].wq # item'[j].wq
    <3>1. j # i /\ \A o \in ItemIds : item'[o].pc = "detached" => o # i
      BY <2>3, <2>10
    <3>2. item'[j] = item[j] /\ item[j].pc = "detached" /\ item[j].wq \in Queues \ {k}
      BY <2>3, <2>6, <2>10, <3>1
    <3>3. /\ queue[item[j].wq].phase \in {"stopping", "unlisted"} /\ queue[item[j].wq].exit_lock
          /\ \A o \in ItemIds \ {j} : item[o].pc = "detached" => item[o].wq # item[j].wq
      BY <3>2 DEF AttachInv
    <3>4. /\ queue'[item'[j].wq].phase = queue[item[j].wq].phase
          /\ queue'[item'[j].wq].exit_lock = queue[item[j].wq].exit_lock
      BY <2>3, <3>2
    <3>5. \A o \in ItemIds \ {j} : item'[o].pc = "detached" => item'[o] = item[o]
      BY <2>3, <3>1
    <3>6. \A o \in ItemIds \ {j} : item'[o].pc = "detached" => item'[o].wq # item'[j].wq
      BY <3>2, <3>3, <3>5
    <3>. QED  BY <3>3, <3>4, <3>6
  <2>. QED  BY <2>4, <2>5, <2>8, <2>9, <2>10 DEF AttachInv
<1>. QED
  BY <1>1, <1>2, <1>3, <1>4, <1>5, <1>6, <1>7, <1>8 DEF Starts

(* Steps that only change the phase of one queue, and the list.            *)
LEMMA PhaseChange ==
  ASSUME ManagerInv, NEW k \in Queues, NEW phase \in Phases, item' = item,
         list' \in Seq(Queues),
         queue' = [queue EXCEPT ![k].phase = phase], queue[k].phase # "running",
         (\E i \in ItemIds : item[i].pc = "detached" /\ item[i].wq = k) =>
           phase \in {"stopping", "unlisted"}
  PROVE  ManagerInv'
<1>. USE DEF ManagerInv, Typed
<1>1. Typed'
  OBVIOUS
<1>2. /\ \A l \in Queues : /\ queue'[l].items = queue[l].items
                           /\ queue'[l].exit_lock = queue[l].exit_lock
      /\ \A l \in Queues \ {k} : queue'[l] = queue[l]
      /\ queue'[k].phase = phase
  OBVIOUS
<1>3. AttachedIsServed'
  BY <1>2 DEF AttachedIsServed, AttachInv
<1>4. AttachInv'
  BY <1>2 DEF AttachInv
<1>. QED
  BY <1>1, <1>3, <1>4

(* ManagerInv is inductive.                                                *)
LEMMA ManagerInvInductive ==
  /\ ManagerInit => ManagerInv
  /\ ManagerInv /\ [ManagerNext]_managerVars => ManagerInv'
<1>1. ManagerInit => ManagerInv
  BY DEF ManagerInit, ManagerInv, Typed, AttachInv, AttachedIsServed,
         Phases
<1>2. ManagerInv /\ [ManagerNext]_managerVars => ManagerInv'
  <2>. SUFFICES ASSUME ManagerInv, [ManagerNext]_managerVars  PROVE  ManagerInv'
    OBVIOUS
  <2>1. CASE \E i \in ItemIds : \/ Find(i) \/ Starts(i)
                             \/ Detach(i) \/ DetachEnds(i)
    BY <2>1, ItemStep
  <2>2. list \in Seq(Queues)
    BY DEF ManagerInv, AttachInv
  <2>3. \A i \in ItemIds : item[i].pc = "detached" =>
           /\ queue[item[i].wq].phase \in {"stopping", "unlisted"} /\ queue[item[i].wq].exit_lock
    BY DEF ManagerInv, AttachInv
  <2>4. CASE Create
    BY <2>2, <2>3, <2>4, PhaseChange DEF Create, Phases
  <2>5. ASSUME NEW k \in Queues, Enlist(k)  PROVE  ManagerInv'
    BY <2>2, <2>3, <2>5, ListFacts, PhaseChange DEF Enlist, Phases
  <2>6. ASSUME NEW k \in Queues, Unlist(k)  PROVE  ManagerInv'
    BY <2>2, <2>6, ListFacts, PhaseChange DEF Unlist, Phases
  <2>7. ASSUME NEW k \in Queues, Destroy(k)  PROVE  ManagerInv'
    BY <2>2, <2>3, <2>7, PhaseChange DEF Destroy, Phases
  <2>8. CASE UNCHANGED managerVars
    BY <2>8 DEF managerVars, ManagerInv, Typed, AttachInv, AttachedIsServed
  <2>. QED
    BY <2>1, <2>4, <2>5, <2>6, <2>7, <2>8 DEF ManagerNext, Runner
<1>. QED
  BY <1>1, <1>2

(* For any number of items and queues: an item that WorkQueue::Attach has  *)
(* accepted is on a queue whose thread serves it, in whatever order items  *)
(* start and stop.                                                         *)
THEOREM AttachedTheorem == ManagerSpec => []AttachedIsServed
<1>1. ManagerInit => ManagerInv
  BY ManagerInvInductive
<1>2. ManagerInv /\ [ManagerNext]_managerVars => ManagerInv'
  BY ManagerInvInductive
<1>3. ManagerInv => AttachedIsServed
  BY DEF ManagerInv
<1>. QED
  BY <1>1, <1>2, <1>3, PTL DEF ManagerSpec

(* And the destructor, which waits for _exit_lock, never destroys a queue  *)
(* under a thread that is in Detach.                                       *)
THEOREM DetachTheorem == ManagerSpec => []DetachOnLiveQueue
<1>1. ManagerInit => ManagerInv
  BY ManagerInvInductive
<1>2. ManagerInv /\ [ManagerNext]_managerVars => ManagerInv'
  BY ManagerInvInductive
<1>3. ManagerInv => DetachOnLiveQueue
  BY DEF ManagerInv, AttachInv, AttachedIsServed, DetachOnLiveQueue
<1>. QED
  BY <1>1, <1>2, <1>3, PTL DEF ManagerSpec
=============================================================================
