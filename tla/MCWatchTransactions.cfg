SPECIFICATION Spec
CONSTANTS
    Keys = {k1}
    Clients = {c1, c2}
    Kinds = {"main"}
    Ttls = {"none", "live"}
    MaxStamp = 3
    MaxFailures = 1
SYMMETRY Symmetry
INVARIANTS
    TypeOK
    AcknowledgedChangeAborts
    WatchersCounted
PROPERTIES
    NullMeansTouched
    ResultsMeanApplied
CHECK_DEADLOCK FALSE
