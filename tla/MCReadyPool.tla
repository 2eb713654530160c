----------------------------- MODULE MCReadyPool -----------------------------
(* Instances of ReadyPool for TLC. *)
EXTENDS ReadyPool
CONSTANTS c1, c2
OneComputer == {c1}
TwoComputers == {c1, c2}
=============================================================================
