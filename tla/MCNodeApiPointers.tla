------------------------- MODULE MCNodeApiPointers -------------------------
(* NodeApiPointers for TLC. *)
EXTENDS NodeApiPointers
=============================================================================
