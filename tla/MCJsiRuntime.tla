---- MODULE MCJsiRuntime ----
\* The runtimes of a thread, on small sets of runtimes, proxies and promises.
EXTENDS JsiRuntime, TLC
Symmetric == Permutations(Runtime) \cup Permutations(Proxy)
====
