CONSTANTS
    Object = {o1}
    Primitive = {}
    MaxTracker = 3
    MaxRefcount = 2
    Experimental = FALSE
SPECIFICATION FairSpec
CHECK_DEADLOCK FALSE
INVARIANTS NoDanglingTracker NoReferenceFault ReferencesHold QueueHasImmediate
PROPERTIES KeepsFinalizerContract QueuedFinalizerServed ReleasedEnvDeleted
