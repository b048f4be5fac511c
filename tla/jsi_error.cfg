CONSTANTS
    Runtime = {r1}
    Proxy = {p1}
    App = App
    None = None
    MaxDepth = 3
    MaxMicro = 1
SPECIFICATION JsiSpec
CHECK_DEADLOCK FALSE
PROPERTY JSErrorIsThrown
