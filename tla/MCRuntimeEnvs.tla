---- MODULE MCRuntimeEnvs ----
\* The environments of the C API, on small sets of runtimes and environments.
EXTENDS RuntimeEnvs
====
