---------------------------- MODULE MCExperiment ----------------------------
(* ExperimentNode with a square of a few corners and ages of a few ticks.  *)
EXTENDS ExperimentNode
=============================================================================
