-------------------------- MODULE MCCapacityDemand --------------------------
(* One computer's capacity attempts, for TLC.                              *)
EXTENDS CapacityDemand
=============================================================================
