SPECIFICATION FairSpec
CONSTANTS
    Clients = {c1, c2}
    Commands <- MCCommandsLocked
    MinInt <- MCMinInt
    MaxInt = 2
    None = none
    MaxCalls = 4
    MaxFailures = 1
INVARIANTS
    TypeOK
    CacheCoherent
    CommittedMeansMerged
    MergesKeepTheirPlace
    MergeNeverOnDeadline
PROPERTIES
    IncrementsAnswered
CHECK_DEADLOCK FALSE
