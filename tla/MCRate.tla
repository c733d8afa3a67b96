------------------------------- MODULE MCRate -------------------------------
(* RateLoop with a normalised range and integral limit of a few units.     *)
EXTENDS RateLoop
=============================================================================
