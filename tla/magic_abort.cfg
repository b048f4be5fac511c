CONSTANT MaxQueued = 5
SPECIFICATION FairSpec
CHECK_DEADLOCK FALSE
INVARIANT MagicKeepsProcess
