CONSTANTS
    MaxAgent = 2
    MaxServer = 2
    MaxSession = 2
    MaxSent = 2
SPECIFICATION Spec
CHECK_DEADLOCK FALSE
INVARIANTS SessionsAreTold
