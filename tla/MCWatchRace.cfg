SPECIFICATION Spec
CONSTANTS
    Keys = {k1, k2}
    Clients = {c1, c2}
    Kinds = {"main"}
    Ttls = {"none"}
    MaxStamp = 3
    MaxFailures = 0
SYMMETRY Symmetry
PROPERTIES
    WatchedUnchangedAtCommit
CHECK_DEADLOCK FALSE
