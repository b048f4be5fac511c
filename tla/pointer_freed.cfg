SPECIFICATION Spec
CONSTANTS
    Pointer = {p1, p2}
    Worker = {w1}
    JS = js
    NoPointer = none
    MaxCount = 2
    MaxScopes = 3
CHECK_DEADLOCK FALSE
INVARIANT OwnerLeavesDeleted
