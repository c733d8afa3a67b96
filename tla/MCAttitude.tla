----------------------------- MODULE MCAttitude -----------------------------
(* AttitudeLoop with a few heading resets.                                 *)
EXTENDS AttitudeLoop
=============================================================================
