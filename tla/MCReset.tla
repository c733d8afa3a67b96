------------------------------- MODULE MCReset ------------------------------
(* EkfReset with a few resets, one while another is remembered.            *)
EXTENDS EkfReset
=============================================================================
