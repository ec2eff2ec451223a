SPECIFICATION FairSpec
CONSTANTS
    k1 = k1
    k2 = k2
    Keys = {k1, k2}
    Clients = {c1, c2}
    Writers = {w1}
    Commands <- MCCommands
    MaxWrites = 2
    MaxCalls = 2
INVARIANTS
    TypeOK
    NoLostWakeup
    ElementsConserved
    WaitersExact
PROPERTIES
    AvailableIsTaken
    UnblockEnds
CHECK_DEADLOCK FALSE
