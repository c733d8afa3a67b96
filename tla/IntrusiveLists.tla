--------------------------- MODULE IntrusiveLists ---------------------------
(***************************************************************************)
(* The intrusive containers of the work queues. The links are in the nodes *)
(* themselves, so a node is in a list at most once; a list is the sequence *)
(* of its nodes.                                                           *)
(***************************************************************************)
EXTENDS Integers, Sequences, Functions

(* IntrusiveQueue::push: a node that is queued stays where it is.          *)
Push(s, x) == IF x \in Range(s) THEN s ELSE Append(s, x)

(* The k-th node is unlinked.                                              *)
Unlink(s, k) == SubSeq(s, 1, k - 1) \o SubSeq(s, k + 1, Len(s))

(* IntrusiveQueue::remove and IntrusiveSortedList::remove: a node that is  *)
(* in the list is unlinked.                                                *)
Remove(s, x) == IF x \in Range(s) THEN Unlink(s, CHOOSE k \in DOMAIN s : s[k] = x) ELSE s
=============================================================================
