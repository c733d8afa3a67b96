-------------------------- MODULE WorkQueueManager --------------------------
(***************************************************************************)
(* How the queues of one name come and go: WorkItem::Init finds a queue in *)
(* the manager's list or asks the manager to create one and polls for it,  *)
(* and attaches; Deinit detaches, and the last item to leave stops the     *)
(* queue, whose thread then leaves the list and destroys it.  Detach and   *)
(* the destructor take the queue's lock and the semaphore _exit_lock; a    *)
(* locked section is a step.                                               *)
(***************************************************************************)
EXTENDS IntrusiveLists, FiniteSets

CONSTANTS
  ItemIds,   \* the work items, each with the thread that starts and stops it
  MaxQueues  \* bound: the queues of the name that are ever created

ASSUME ManagerAssumption == IsFiniteSet(ItemIds) /\ MaxQueues \in Nat

Queues == 1 .. MaxQueues

VARIABLES
  queue,    \* for each queue [phase, items, exit_lock]
  list,     \* _wq_manager_wqs_list, the queues of the name
  create,   \* _wq_manager_create_queue, which holds one request
  item      \* for each item [pc, wq]

managerVars == <<queue, list, create, item>>

Phases == {"none", "starting", "running", "stopping", "unlisted", "destroyed"}

ManagerTypeOK ==
  /\ queue \in [Queues -> [phase : Phases, items : SUBSET ItemIds, exit_lock : BOOLEAN]]
  /\ list \in UNION {[1 .. n -> Queues] : n \in 0 .. MaxQueues}
  /\ create \in 0 .. 1
  /\ item \in [ItemIds -> [pc : {"out", "create", "poll", "attach", "in", "detached", "lost"},
                           wq : Queues \cup {0}]]

ManagerInit ==
  /\ queue = [k \in Queues |-> [phase |-> "none", items |-> {}, exit_lock |-> FALSE]]
  /\ list = <<>>
  /\ create = 0
  /\ item = [i \in ItemIds |-> [pc |-> "out", wq |-> 0]]

-----------------------------------------------------------------------------
(* WorkQueueFindOrCreate looks for the name: FindWorkQueueByName returns   *)
(* the first of the list.                                                  *)
Find(i) ==
  /\ item[i].pc = "out"
  /\ item' = [item EXCEPT ![i] = IF list # <<>> THEN [pc |-> "attach", wq |-> Head(list)]
                                 ELSE [pc |-> "create", wq |-> 0]]
  /\ UNCHANGED <<queue, list, create>>

(* The push blocks while an earlier request is in the queue.               *)
RequestQueue(i) ==
  /\ item[i].pc = "create"
  /\ create = 0
  /\ create' = 1
  /\ item' = [item EXCEPT ![i].pc = "poll"]
  /\ UNCHANGED <<queue, list>>

Poll(i) ==
  /\ item[i].pc = "poll" /\ list # <<>>
  /\ item' = [item EXCEPT ![i] = [pc |-> "attach", wq |-> Head(list)]]
  /\ UNCHANGED <<queue, list, create>>

(* Ten seconds without a queue: the start of the item fails.               *)
GiveUp(i) ==
  /\ item[i].pc = "poll" /\ list = <<>>
  /\ item' = [item EXCEPT ![i] = [pc |-> "out", wq |-> 0]]
  /\ UNCHANGED <<queue, list, create>>

(* Mutant: Attach does not look at _should_exit.                           *)
Attach_Stopping(i) ==
  /\ item[i].pc = "attach" /\ queue[item[i].wq].phase # "destroyed"
  /\ queue' = [queue EXCEPT ![item[i].wq].items = @ \cup {i}]
  /\ item' = [item EXCEPT ![i].pc = "in"]
  /\ UNCHANGED <<list, create>>

(* WorkQueue::Attach: a queue that is to exit takes no item, and the start *)
(* of the item fails.                                                      *)
Attach(i) ==
  /\ item[i].pc = "attach" /\ queue[item[i].wq].phase # "destroyed"
  /\ IF queue[item[i].wq].phase = "running"
     THEN /\ queue' = [queue EXCEPT ![item[i].wq].items = @ \cup {i}]
          /\ item' = [item EXCEPT ![i].pc = "in"]
     ELSE /\ item' = [item EXCEPT ![i] = [pc |-> "out", wq |-> 0]]
          /\ UNCHANGED queue
  /\ UNCHANGED <<list, create>>

(* Attach on a queue that was destroyed meanwhile is undefined: it may     *)
(* fail, or never return or seem to succeed; such an item is lost.         *)
AttachDestroyed(i) ==
  /\ item[i].pc = "attach" /\ queue[item[i].wq].phase = "destroyed"
  /\ \E pc \in {"out", "lost"} : item' = [item EXCEPT ![i] = [pc |-> pc, wq |-> 0]]
  /\ UNCHANGED <<queue, list, create>>

(* WorkQueue::Detach: the last item takes _exit_lock and stops the queue.  *)
Detach(i) ==
  LET k == item[i].wq
      left == queue[k].items \ {i}
  IN  /\ item[i].pc = "in"
      /\ queue' = [queue EXCEPT ![k] = IF left = {} THEN [phase |-> "stopping", items |-> left,
                                                          exit_lock |-> TRUE]
                                       ELSE [@ EXCEPT !.items = left]]
      /\ item' = [item EXCEPT ![i] = IF left = {} THEN [pc |-> "detached", wq |-> k]
                                     ELSE [pc |-> "out", wq |-> 0]]
      /\ UNCHANGED <<list, create>>

(* Mutant: Detach does not post _exit_lock.                                *)
DetachEnds_NoPost(i) ==
  /\ item[i].pc = "detached"
  /\ item' = [item EXCEPT ![i] = [pc |-> "out", wq |-> 0]]
  /\ UNCHANGED <<queue, list, create>>

(* And lets go of it last, after the queue's lock.                         *)
DetachEnds(i) ==
  /\ item[i].pc = "detached"
  /\ queue' = [queue EXCEPT ![item[i].wq].exit_lock = FALSE]
  /\ item' = [item EXCEPT ![i] = [pc |-> "out", wq |-> 0]]
  /\ UNCHANGED <<list, create>>

-----------------------------------------------------------------------------
(* WorkQueueManagerRun takes a request and starts the thread of a queue.   *)
Create ==
  /\ create = 1
  /\ create' = 0
  /\ \E k \in Queues :
       /\ queue[k].phase = "none" /\ \A j \in 1 .. k - 1 : queue[j].phase # "none"
       /\ queue' = [queue EXCEPT ![k].phase = "starting"]
  /\ UNCHANGED <<list, item>>

(* WorkQueueRunner puts its queue in the list: the list is sorted by       *)
(* priority and a queue goes before those of the same priority.            *)
Enlist(k) ==
  /\ queue[k].phase = "starting"
  /\ queue' = [queue EXCEPT ![k].phase = "running"]
  /\ list' = <<k>> \o list
  /\ UNCHANGED <<create, item>>

(* Run returns and the thread takes its queue off the list.                *)
Unlist(k) ==
  /\ queue[k].phase = "stopping"
  /\ queue' = [queue EXCEPT ![k].phase = "unlisted"]
  /\ list' = Remove(list, k)
  /\ UNCHANGED <<create, item>>

(* Mutant: the destructor does not wait for _exit_lock.                    *)
Destroy_AtOnce(k) ==
  /\ queue[k].phase = "unlisted"
  /\ queue' = [queue EXCEPT ![k].phase = "destroyed"]
  /\ UNCHANGED <<list, create, item>>

(* The destructor waits for _exit_lock.                                    *)
Destroy(k) ==
  /\ queue[k].phase = "unlisted" /\ ~queue[k].exit_lock
  /\ queue' = [queue EXCEPT ![k].phase = "destroyed"]
  /\ UNCHANGED <<list, create, item>>

Starts(i) == RequestQueue(i) \/ Poll(i) \/ GiveUp(i) \/ Attach(i) \/ AttachDestroyed(i)

Runner(k) == Enlist(k) \/ Unlist(k) \/ Destroy(k)

ManagerNext ==
  \/ \E i \in ItemIds : Find(i) \/ Starts(i) \/ Detach(i) \/ DetachEnds(i)
  \/ Create
  \/ \E k \in Queues : Runner(k)

(* The threads of the queues and of Detach go on.                          *)
ManagerFairness ==
  /\ \A i \in ItemIds : WF_managerVars(DetachEnds(i))
  /\ \A k \in Queues : WF_managerVars(Runner(k))

ManagerSpec == ManagerInit /\ [][ManagerNext]_managerVars /\ ManagerFairness

-----------------------------------------------------------------------------
(* Inductive strengthening.  An item is found at a queue; the items of a   *)
(* queue are the ones attached to it; and the item whose Detach has        *)
(* stopped a queue is the only one to do so and holds _exit_lock.          *)
AttachInv ==
  /\ list \in Seq(Queues)
  /\ \A i \in ItemIds : item[i].pc \in {"attach", "in", "detached"} => item[i].wq \in Queues
  /\ \A k \in Queues : \A i \in queue[k].items : item[i].pc = "in" /\ item[i].wq = k
  /\ \A i \in ItemIds : item[i].pc = "detached" =>
       /\ queue[item[i].wq].phase \in {"stopping", "unlisted"} /\ queue[item[i].wq].exit_lock
       /\ \A j \in ItemIds \ {i} : item[j].pc = "detached" => item[j].wq # item[i].wq

-----------------------------------------------------------------------------
(* An item that was attached is on a queue whose thread serves it: a stop  *)
(* never crosses with an Attach.                                           *)
AttachedIsServed ==
  \A i \in ItemIds : item[i].pc = "in" => queue[item[i].wq].phase = "running" /\ i \in queue[item[i].wq].items

(* The comment in Detach: _exit_lock prevents a premature deletion.  The   *)
(* queue that an item is leaving is there until it has left.               *)
DetachOnLiveQueue ==
  \A i \in ItemIds : item[i].pc \in {"in", "detached"} => queue[item[i].wq].phase # "destroyed"

(* A queue that its last item has left is destroyed: the runner waits for *)
(* the thread in Detach only, which waits for nobody.                      *)
StopsUnused ==
  \A k \in Queues : queue[k].phase = "stopping" ~> queue[k].phase = "destroyed"

(* The comment in WorkQueueFindOrCreate: a queue is created if it does not *)
(* exist already.                                                          *)
OneQueuePerName == Cardinality({k \in Queues : queue[k].phase = "running"}) <= 1
=============================================================================
