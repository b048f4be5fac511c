CONSTANTS
    Object = {o1}
    Primitive = {p1}
    MaxTracker = 3
    MaxRefcount = 2
    Experimental = TRUE
SPECIFICATION Spec
CHECK_DEADLOCK FALSE
INVARIANTS WeakCallbackTargetsLive
PROPERTIES KeepsFinalizerContract
