SPECIFICATION Spec
CONSTANTS
    Keys = {k1}
    Clients = {c1, c2, c3}
    Commands = {"push", "pop", "trim", "del", "exec"}
    SmallMax = 1
    MaxCalls = 7
    None = None
INVARIANTS
    TypeOK
PROPERTIES
    ImplementsLists
CHECK_DEADLOCK FALSE
