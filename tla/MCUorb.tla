------------------------------- MODULE MCUorb -------------------------------
(* A topic with a publisher that asks for a queue and one that does not.   *)
EXTENDS UorbNode

MCPublishers == {"queued", "plain"}
MCRequested == [p \in MCPublishers |-> IF p = "queued" THEN 3 ELSE 1]
=============================================================================
