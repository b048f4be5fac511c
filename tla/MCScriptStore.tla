---- MODULE MCScriptStore ----
\* Scripts and the store, on a few texts, buffers and strings.
EXTENDS ScriptStore

Symmetry == Permutations(Str) \cup Permutations(Buffer)
====
