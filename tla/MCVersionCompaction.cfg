SPECIFICATION Spec
CONSTANTS
    Keys = {k1, k2}
    Fields = {f1}
    Clients = {c1}
    BatchLimit = 1
    TickVersions = 3
    MaxNow = 1
    MaxVersion = 3
    MaxCrashes = 1
    MaxErrors = 1
SYMMETRY Symmetry
INVARIANTS
    TypeOK
    GarbageIsFound
PROPERTIES
    LiveDataKept
    FreshVersions
CHECK_DEADLOCK FALSE
