--------------------------- MODULE MCBridgeService ---------------------------
(* Small instances of BridgeService for TLC: requests are model values.    *)
EXTENDS BridgeService

CONSTANTS r1, r2, r3
===============================================================================
