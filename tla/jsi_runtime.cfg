CONSTANTS
    Runtime = {r1, r2}
    Proxy = {p1, p2}
    App = App
    None = None
    MaxDepth = 3
    MaxMicro = 1
SPECIFICATION JsiSpec
SYMMETRY Symmetric
CHECK_DEADLOCK FALSE
INVARIANTS HostsReleasedOnce IsolateOutlivesItsUsers
PROPERTIES ExceptionCrosses
