CONSTANTS
    Source = {"a", "b", "bad"}
    Ascii = {"a", "bad"}
    Bad = {"bad"}
    Version = {"v1", "v2"}
    Buffer = {f1}
    Str = {s1, s2}
    Prepared = {p1}
    None = None
    MaxDepth = 2
    MaxRestart = 1
SYMMETRY Symmetry
SPECIFICATION Spec
CHECK_DEADLOCK FALSE
INVARIANTS CodeIsOfItsSource BuffersOutliveUse
