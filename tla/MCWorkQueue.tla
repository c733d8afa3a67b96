---------------------------- MODULE MCWorkQueue -----------------------------
(* WorkQueue with three items, two threads and the worker.                 *)
EXTENDS WorkQueue
=============================================================================
