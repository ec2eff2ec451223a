SPECIFICATION Spec
CONSTANTS
    Keys = {k1}
    Clients = {c1, c2}
    Commands = {"len", "push"}
    SmallMax = 1
    MaxCalls = 6
    None = None
SYMMETRY Symmetry
INVARIANTS
    PushesKept
CHECK_DEADLOCK FALSE
