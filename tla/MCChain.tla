------------------------------ MODULE MCChain ------------------------------
(* The arm joint link on a small instance.                                 *)
EXTENDS ArmJointChain, FiniteSets

CONSTANT MaxInFlight  \* named values on their way at once

ASSUME MaxInFlight \in Nat

InFlightBound == Cardinality(net) <= MaxInFlight
=============================================================================
