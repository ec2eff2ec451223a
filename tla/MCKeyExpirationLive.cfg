SPECIFICATION FairSpec
CONSTANTS
    k1 = k1
    k2 = k2
    c1 = c1
    c2 = c2
    Keys = {k1, k2}
    Clients = {c1, c2}
    Sweeper = sweeper
    NoOwner = none
    NumDbs = 2
    DbOf <- MCDbOfTwo
    Commands <- MCCommandsSweep
    BatchSize = 1
    MaxNow = 2
    MaxCrashes = 1
    FailingKeys = {k1}
PROPERTIES
    DueKeysReclaimed
