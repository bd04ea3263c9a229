--------------------------- MODULE MCBridgeMonitor ---------------------------
(***************************************************************************)
(* BridgeMonitor on small instances.                                       *)
(***************************************************************************)
EXTENDS BridgeMonitor, TLC
CONSTANTS BRIDGE, srxToken, eid

BridgeOnly == <<BRIDGE>>
BridgeToken == BRIDGE :> {srxToken}
=============================================================================
