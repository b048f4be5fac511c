----------------------------- MODULE MCNapiEnv -----------------------------
(* NapiEnv for model checking.                                             *)
EXTENDS NapiEnv
=============================================================================
