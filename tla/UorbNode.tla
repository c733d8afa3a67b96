------------------------------ MODULE UorbNode ------------------------------
(***************************************************************************)
(* A uORB topic: uORB::DeviceNode with its publishers, subscriptions and   *)
(* callbacks.  Every section between ATOMIC_ENTER and ATOMIC_LEAVE is a    *)
(* step, and so is what happens before and after it.  A message is its     *)
(* number, 0 in a slot nothing was written to; generations are unsigned    *)
(* and wrap.                                                               *)
(***************************************************************************)
EXTENDS Integers

CONSTANTS
  Publishers,
  Subs,        \* the subscriptions, with the work items their callbacks schedule
  REQUESTED,   \* the queue size each publisher asks for
  WORD,        \* the number of generations
  MaxMessages  \* bound on the number of messages

Powers == {1, 2, 4, 8, 16, 32, 64, 128}

(* A size is a byte.  WORD, 2^32 in the code, is a multiple of twice every *)
(* power of two that a size is rounded to.                                 *)
ASSUME UorbAssumption ==
  /\ REQUESTED \in [Publishers -> 0 .. 255]
  /\ WORD \in Nat \ {0} /\ WORD % 2 = 0
  /\ \A p \in Publishers, m \in Powers : m < 2 * REQUESTED[p] => WORD % (2 * m) = 0
  /\ MaxMessages \in Nat

VARIABLES
  node,  \* the members of DeviceNode; exists once the node was created
  pub,   \* where each Publication is in advertise and publish
  sub,   \* each subscription: valid (_node is set), gen (_last_generation), the step of
         \* its call, and whether its work item is scheduled and running
  hist   \* [count, pos, due]: messages published; the one each subscription has read
         \* last; and the one its callback was last called for

vars == <<node, pub, sub, hist>>

Slots == 0 .. WORD \div 2 - 1

TypeOK ==
  /\ node \in [exists : BOOLEAN, advertised : BOOLEAN, size : 1 .. WORD \div 2,
               data : [Slots -> 0 .. MaxMessages], allocated : BOOLEAN, data_valid : BOOLEAN,
               generation : 0 .. WORD - 1, callbacks : SUBSET Subs]
  /\ pub \in [Publishers -> {"none", "opened", "ready", "writing", "leaving"}]
  /\ sub \in [Subs -> [valid : BOOLEAN, gen : 0 .. WORD - 1, step : {"idle", "copying", "registering"},
                       scheduled : BOOLEAN, running : BOOLEAN]]
  /\ hist \in [count : 0 .. MaxMessages, pos : [Subs -> 0 .. MaxMessages],
               due : [Subs -> 0 .. MaxMessages]]

Init ==
  /\ node = [exists |-> FALSE, advertised |-> FALSE, size |-> 1, data |-> [i \in Slots |-> 0],
             allocated |-> FALSE, data_valid |-> FALSE, generation |-> 0, callbacks |-> {}]
  /\ pub = [p \in Publishers |-> "none"]
  /\ sub = [s \in Subs |-> [valid |-> FALSE, gen |-> 0, step |-> "idle",
                            scheduled |-> FALSE, running |-> FALSE]]
  /\ hist = [count |-> 0, pos |-> [s \in Subs |-> 0], due |-> [s \in Subs |-> 0]]

-----------------------------------------------------------------------------
(* Publishers.                                                             *)

(* node_open: the node is created if need be, and marked.                  *)
Advertise(p) ==
  /\ pub[p] = "none"
  /\ pub' = [pub EXCEPT ![p] = "opened"]
  /\ node' = [node EXCEPT !.exists = TRUE, !.advertised = TRUE]
  /\ UNCHANGED <<sub, hist>>

(* Mutant: the size is taken as it is.                                     *)
RoundPowOfTwo_Not(n) == n

(* The smallest power of two that is not smaller, if it fits a byte.       *)
RoundPowOfTwo(n) ==
  IF n > 128 THEN 128 ELSE CHOOSE m \in Powers : m >= n /\ (m < 2 * n \/ m = 1)

(* update_queue_size, before the first publication only and only upwards.  *)
UpdateQueueSize(p) ==
  /\ pub[p] = "opened"
  /\ pub' = [pub EXCEPT ![p] = "ready"]
  /\ node' = IF node.allocated \/ node.size >= REQUESTED[p] THEN node
             ELSE [node EXCEPT !.size = RoundPowOfTwo(REQUESTED[p])]
  /\ UNCHANGED <<sub, hist>>

(* write up to the atomic copy: the first one allocates the slots.         *)
Allocate(p) ==
  /\ pub[p] = "ready" /\ hist.count < MaxMessages
  /\ pub' = [pub EXCEPT ![p] = "writing"]
  /\ node' = [node EXCEPT !.allocated = TRUE]
  /\ UNCHANGED <<sub, hist>>

(* Mutant: the callbacks are called before the generation is counted up.   *)
Called_Early(s, generation) ==
  s \in node.callbacks /\ node.advertised /\ node.generation # sub[s].gen

(* SubscriptionCallbackWorkItem::call schedules if there is an update.     *)
Called(s, generation) ==
  s \in node.callbacks /\ node.advertised /\ generation # sub[s].gen

(* No subscription is ever a whole round of generations behind: 49 days at *)
(* 1 kHz.                                                                  *)
LagBound == \A s \in Subs : sub[s].valid => hist.count - hist.pos[s] < WORD - 1

(* The atomic part of write.                                               *)
Write(p) ==
  LET n == hist.count + 1
      generation == (node.generation + 1) % WORD
  IN  /\ pub[p] = "writing" /\ n <= MaxMessages /\ LagBound
      /\ pub' = [pub EXCEPT ![p] = "ready"]
      /\ node' = [node EXCEPT !.data[node.generation % node.size] = n,
                              !.generation = generation, !.data_valid = TRUE]
      /\ sub' = [s \in Subs |-> [sub[s] EXCEPT !.scheduled = @ \/ Called(s, generation)]]
      /\ hist' = [hist EXCEPT !.count = n,
                              !.due = [s \in Subs |-> IF s \in node.callbacks /\ node.advertised
                                                      THEN n ELSE @[s]]]

(* ~PublicationBase leaves a topic with a queue advertised ...             *)
Destroy(p) ==
  /\ pub[p] = "ready"
  /\ pub' = [pub EXCEPT ![p] = IF node.size = 1 THEN "leaving" ELSE "none"]
  /\ UNCHANGED <<node, sub, hist>>

(* ... and unadvertises any other, whoever else publishes it.              *)
Unadvertise(p) ==
  /\ pub[p] = "leaving"
  /\ pub' = [pub EXCEPT ![p] = "none"]
  /\ node' = [node EXCEPT !.advertised = FALSE]
  /\ hist' = [hist EXCEPT !.due = [s \in Subs |-> 0]]
  /\ UNCHANGED sub

-----------------------------------------------------------------------------
(* Subscriptions.                                                          *)

(* Subscription::subscribe, which every call tries first, and              *)
(* get_initial_generation: the latest message can be read.                 *)
Subscribed(s) ==
  IF sub[s].valid \/ ~node.exists THEN sub[s]
  ELSE [sub[s] EXCEPT !.valid = TRUE,
          !.gen = (node.generation - (IF node.data_valid THEN 1 ELSE 0)) % WORD]

Joined(s) ==
  IF sub[s].valid \/ ~node.exists THEN hist.pos
  ELSE [hist.pos EXCEPT ![s] = hist.count - (IF node.data_valid THEN 1 ELSE 0)]

(* orb_data_copy up to copy(); it goes on if something is to be copied.    *)
Begun(me, only_if_updated) ==
  IF me.valid /\ node.advertised /\ (only_if_updated => node.generation # me.gen)
  THEN [me EXCEPT !.step = "copying"] ELSE me

(* The subscription's thread is not in a call, nor in Run.                 *)
Idle(s) == sub[s].step = "idle" /\ ~sub[s].running

(* A call of update() or copy() outside the work item's Run.               *)
Poll(s) ==
  /\ Idle(s)
  /\ \E only_if_updated \in BOOLEAN :
       sub' = [sub EXCEPT ![s] = Begun(Subscribed(s), only_if_updated)]
  /\ hist' = [hist EXCEPT !.pos = Joined(s)]
  /\ UNCHANGED <<node, pub>>

(* The work item runs: it calls update() until there is nothing left.      *)
RunItem(s) ==
  /\ sub[s].step = "idle"
  /\ sub[s].scheduled \/ sub[s].running
  /\ LET me == Begun(Subscribed(s), TRUE)
     IN  sub' = [sub EXCEPT ![s] = [me EXCEPT !.scheduled = @ /\ sub[s].running,
                                              !.running = me.step = "copying"]]
  /\ hist' = [hist EXCEPT !.pos = Joined(s)]
  /\ UNCHANGED <<node, pub>>

(* Mutant: the range is not expected to wrap.                              *)
IsInRange_NoWrap(left, value, right) == left <= value /\ value <= right

IsInRange(left, value, right) ==
  IF right > left THEN left <= value /\ value <= right ELSE left <= value \/ value <= right

(* The generation that is copied: what was read last if there is nothing   *)
(* new, the oldest one kept if the reader is too far behind.               *)
Chosen(gen) ==
  LET now == node.generation
      next == IF gen = now THEN (gen - 1) % WORD ELSE gen
      oldest == (now - node.size) % WORD
  IN  IF IsInRange(oldest, next, (now - 1) % WORD) THEN next ELSE oldest

(* DeviceNode::copy; without slots nothing is copied.                      *)
Copy(s) ==
  LET slot == IF node.size = 1 THEN 0 ELSE Chosen(sub[s].gen) % node.size
      gen == IF node.size = 1 THEN node.generation ELSE (Chosen(sub[s].gen) + 1) % WORD
  IN  /\ sub[s].step = "copying"
      /\ sub' = [sub EXCEPT ![s].step = "idle",
                            ![s].gen = IF node.allocated THEN gen ELSE @]
      /\ hist' = IF node.allocated THEN [hist EXCEPT !.pos[s] = node.data[slot]] ELSE hist
      /\ UNCHANGED <<node, pub>>

(* registerCallback without a node creates it and subscribes first.        *)
ForceTopic(s) ==
  /\ Idle(s) /\ ~sub[s].valid
  /\ node' = [node EXCEPT !.exists = TRUE]
  /\ sub' = [sub EXCEPT ![s] = [Subscribed(s) EXCEPT !.valid = TRUE, !.step = "registering"]]
  /\ hist' = [hist EXCEPT !.pos = Joined(s)]
  /\ UNCHANGED pub

RegisterCallback(s) ==
  /\ sub[s].step = "registering" \/ (Idle(s) /\ sub[s].valid)
  /\ node' = [node EXCEPT !.callbacks = @ \cup {s}]
  /\ sub' = [sub EXCEPT ![s].step = "idle"]
  /\ UNCHANGED <<pub, hist>>

(* unregisterCallback, and unsubscribe as ChangeInstance calls it after.   *)
UnregisterCallback(s) ==
  /\ Idle(s)
  /\ node' = [node EXCEPT !.callbacks = @ \ {s}]
  /\ sub' \in {sub, [sub EXCEPT ![s].valid = FALSE, ![s].gen = 0]}
  /\ hist' = [hist EXCEPT !.due[s] = 0]
  /\ UNCHANGED pub

Publishes(p) ==
  \/ Advertise(p) \/ UpdateQueueSize(p) \/ Allocate(p) \/ Write(p)
  \/ Destroy(p) \/ Unadvertise(p)

Subscribes(s) ==
  \/ Poll(s) \/ RunItem(s) \/ Copy(s)
  \/ ForceTopic(s) \/ RegisterCallback(s) \/ UnregisterCallback(s)

Next == (\E p \in Publishers : Publishes(p)) \/ \E s \in Subs : Subscribes(s)

(* The work queue runs a scheduled item, and a call ends.                  *)
Fairness == \A s \in Subs : WF_vars(RunItem(s)) /\ WF_vars(Copy(s))

Spec == Init /\ [][Next]_vars /\ Fairness

-----------------------------------------------------------------------------
(* Inductive strengthening.  The generation is the number of messages but  *)
(* for the wrap, which no slot notices since the size divides it; a size   *)
(* changes before the first message only; a subscription's generation is   *)
(* the message it has read last but for the wrap, and not so far behind    *)
(* that the wrap could deceive it.                                         *)
NodeInv ==
  /\ node.size \in Powers /\ WORD % (2 * node.size) = 0
  /\ node.generation = hist.count % WORD
  /\ \A n \in 1 .. hist.count : n > hist.count - node.size => node.data[(n - 1) % node.size] = n
  /\ hist.count = 0 => node.data = [i \in Slots |-> 0]
  /\ node.data_valid <=> hist.count > 0
  /\ hist.count > 0 => node.allocated
  /\ \A p \in Publishers : /\ pub[p] # "none" => node.exists
                           /\ pub[p] = "writing" => node.allocated

SubInv ==
  /\ ~node.exists => hist.count = 0 /\ \A s \in Subs : ~sub[s].valid /\ sub[s].gen = 0
  /\ \A s \in Subs :
       /\ hist.pos[s] <= hist.count
       /\ sub[s].valid => sub[s].gen = hist.pos[s] % WORD /\ hist.count - hist.pos[s] < WORD
       /\ sub[s].step = "copying" => sub[s].valid

-----------------------------------------------------------------------------
(* The topic keeps its promise although DeviceNode::copy knows only two  *)
(* generations that wrap, and publishers and callbacks come and go:        *)
(* messages in order, and none skipped that was still kept.                *)
Log == INSTANCE TopicLog WITH count <- hist.count, depth <- node.size, pos <- hist.pos

TopicImplemented == Log!Spec

(* The slots hold the last messages, each where its generation says: no    *)
(* wrap of the generation moves one.                                       *)
SlotsHoldLatest ==
  \A k \in 1 .. node.size :
    k <= hist.count => node.data[(node.generation - k) % node.size] = hist.count - k + 1

(* A message published while a callback is registered is read by its work  *)
(* item, unless the callback is unregistered or the topic unadvertised     *)
(* first: no publication falls between the end of Run and the callback.    *)
NewsIsRead == \A s \in Subs : hist.due[s] > hist.pos[s] ~> hist.due[s] <= hist.pos[s]
=============================================================================
