CONSTANTS
    Session = {"s1", "s2"}
    MaxAttached = 1
    MaxPosted = 3
    Pauses = TRUE
    BreakOnStart = TRUE
SPECIFICATION Spec
CHECK_DEADLOCK FALSE
INVARIANT ConnectChecked
