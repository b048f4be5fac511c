CONSTANTS
    Session = {"s1", "s2"}
    MaxAttached = 1
    MaxPosted = 3
    Pauses = TRUE
    BreakOnStart = TRUE
SPECIFICATION FairSpec
CHECK_DEADLOCK FALSE
INVARIANTS QueuedMessageHasTask SessionIsReal
PROPERTIES DeliversInOrder PostedIsDispatched
