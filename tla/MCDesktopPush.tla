--------------------------- MODULE MCDesktopPush ---------------------------
(* DesktopPush, and with it TunnelRegistry, for the first lease epochs of  *)
(* a computer and two asks.                                                *)
EXTENDS DesktopPush

CONSTANTS MaxEpoch, a1, a2
MCEpochs == 1..MaxEpoch
MCAsks == {a1, a2}
=============================================================================
