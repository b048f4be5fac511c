CONSTANTS
    MaxAgent = 3
    MaxServer = 3
    MaxSession = 1
    MaxSent = 1
SPECIFICATION Spec
CHECK_DEADLOCK FALSE
INVARIANTS ServersAreShared
PROPERTIES StoppedThreadEnds
