-------------------------- MODULE MCInspectorAgent --------------------------
(* InspectorAgent for model checking.                                      *)
EXTENDS InspectorAgent
=============================================================================
