SPECIFICATION Spec
CONSTANTS
    Keys = {k1}
    Clients = {c1}
    Kinds = {"main", "nested"}
    Ttls = {"none"}
    MaxStamp = 3
    MaxFailures = 0
SYMMETRY Symmetry
PROPERTIES
    ResultsMeanApplied
CHECK_DEADLOCK FALSE
