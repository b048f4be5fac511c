------------------------- MODULE MCInspectorServer -------------------------
(* Model of InspectorServer for TLC: the bounds are in the cfg.             *)
EXTENDS InspectorServer
=============================================================================
