CONSTANTS
    Runtime = {"r1", "r2"}
    Env = {"e1", "e2", "e3"}
    Promise = {"q1"}
    None = "none"
    MaxFinalizer = 2
    MaxScope = 3
SPECIFICATION FairSpec
CHECK_DEADLOCK FALSE
INVARIANTS EnvsAreAccountedFor LastRejectionIsUnhandled
PROPERTIES DeletedRuntimeGoes
