------------------------------ MODULE MCModel ------------------------------
(* The controllers' choice of a model on a small instance.                 *)
EXTENDS DynamicModel
=============================================================================
