--------------------------- MODULE MCNativeTransfer ---------------------------
EXTENDS NativeTransfer

\* a power of one turn and a spell of another: between them they are refused in
\* both ways, carried out at once and carried out at the end of an animation
MCActions == {"kill", "spell"}
MCKind == [kill |-> "advanced", spell |-> "spell"]
MCTurns == {"t1", "t2"}
MCTurnOf == [kill |-> "t1", spell |-> "t2"]
================================================================================
