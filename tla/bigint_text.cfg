SPECIFICATION Spec
CONSTANTS
    Exception = {e1, e2}
    NoException = none
    URL = {u1, u2}
    NoURL = nourl
    MaxDepth = 7
    HalfWord = 16
    IndexWidth = 256
INVARIANT BigIntTextHolds
