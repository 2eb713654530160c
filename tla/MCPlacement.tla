---------------------------- MODULE MCPlacement ----------------------------
(* Placement on small instances: the concurrent invocations as model       *)
(* values.  Two requests of the owner are interchangeable.                 *)
EXTENDS Placement, TLC

CONSTANTS u1, u2, c1, h1

OneUser == {u1}
TwoUsers == {u1, u2}
OneCron == {c1}
OneHost == {h1}
UserSymmetry == Permutations(TwoUsers)
=============================================================================
