----------------------------- MODULE MCHandoff -----------------------------
(* The handoff from the attitude to the rate loop on a small instance.     *)
EXTENDS AuxHandoff
=============================================================================
