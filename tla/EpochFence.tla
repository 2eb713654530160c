----------------------------- MODULE EpochFence -----------------------------
(***************************************************************************)
(* What a computer's tunnel registry promises its callers: at most one     *)
(* lease epoch is served; a fence only rises and cuts off every epoch up   *)
(* to it for good; what is served next lies above the fence.               *)
(***************************************************************************)
EXTENDS Integers

CONSTANT Epochs  \* lease epochs, positive naturals

VARIABLES
    served,  \* the epoch whose host is reachable, or 0
    cut      \* the highest epoch cut off

Init == served = 0 /\ cut = 0

\* Every epoch through e is cut off.
Cut(e) ==
    /\ e > cut
    /\ cut' = e
    /\ served' = IF served > e THEN served ELSE 0

\* Epoch e becomes reachable; nothing else is, and e was never cut off.
Serve(e) ==
    /\ e > cut /\ served = 0
    /\ served' = e
    /\ UNCHANGED cut

Next == \E e \in Epochs : Cut(e) \/ Serve(e)

Spec == Init /\ [][Next]_<<served, cut>>
=============================================================================
