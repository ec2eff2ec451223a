SPECIFICATION Spec
CONSTANTS
    Clients = {c1, c2}
    Commands <- MCCommandsIncrby
    MinInt <- MCMinInt
    MaxInt = 5
    None = none
    MaxCalls = 3
    MaxFailures = 0
SYMMETRY Symmetry
INVARIANTS
    CoherentAtRest
CHECK_DEADLOCK FALSE
