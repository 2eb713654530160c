---------------------------- MODULE MCAdmission ----------------------------
(* Admission for three computers of two users, two sizes and two regions. *)
(* The small size fits the first region and the large one only the        *)
(* second, whose budget is also the fleet's: a small computer cannot grow *)
(* where it is, a large one wakes or is replaced small, and a small and a *)
(* large one each fit their region but together exceed the fleet.         *)
(* c1 has either size, wakes and is deleted; c2, of the same user, and c3 *)
(* are opened once.  vCPU are counted in machines of the small size.      *)
EXTENDS Admission

CONSTANTS c1, c2, c3, u1, u2

MCOwner == [c \in {c1, c2, c3} |-> IF c = c3 THEN u2 ELSE u1]
Small == "m6i.large"
Large == "m6i.xlarge"
TwoSizes == {Small, Large}
MCVcpu == [t \in Types |-> IF t = Small THEN 1 ELSE 2]
MCOffered == [c \in Computers |-> CASE c = c1 -> Types [] c = c2 -> {Small} [] c = c3 -> {Large}]
TwoRegions == <<"north", "south">>
MCRegionCap == [r \in Regions |-> IF r = "north" THEN 1 ELSE 2]
OneWake == [c \in Computers |-> IF c = c1 THEN 2 ELSE 1]
MCDeletable == {c1}
=============================================================================
