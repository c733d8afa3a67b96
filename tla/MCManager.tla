----------------------------- MODULE MCManager ------------------------------
(* WorkQueueManager with a few items and queues of the same name.          *)
EXTENDS WorkQueueManager
=============================================================================
