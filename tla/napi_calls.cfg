SPECIFICATION Spec
CONSTANTS
    Exception = {e1, e2}
    NoException = NoException
    Deferred = {d1}
    Experimental = TRUE
    MaxDepth = 4
    MaxScopes = 2
SYMMETRY Symmetry
CHECK_DEADLOCK FALSE
INVARIANTS PendingExceptionIsSound StatusTells ScopeCheckHolds
PROPERTIES OkMeansNoException
