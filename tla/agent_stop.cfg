CONSTANTS
    Session = {"s1", "s2"}
    MaxAttached = 1
    MaxPosted = 2
    Pauses = FALSE
    BreakOnStart = FALSE
SPECIFICATION FairSpec
CHECK_DEADLOCK FALSE
PROPERTY StopReturns
