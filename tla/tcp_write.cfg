CONSTANT MaxQueued = 5
SPECIFICATION FairSpec
CHECK_DEADLOCK FALSE
INVARIANTS BufferHasOneSend NoStrandedMessage
PROPERTIES WritesInOrder QueuedIsSent
