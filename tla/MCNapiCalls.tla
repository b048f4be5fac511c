---------------------------- MODULE MCNapiCalls ----------------------------
(* NapiCalls for TLC: the exceptions are interchangeable.                  *)
EXTENDS NapiCalls, TLC

Symmetry == Permutations(Exception)
=============================================================================
