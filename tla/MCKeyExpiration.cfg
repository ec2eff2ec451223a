SPECIFICATION Spec
CONSTANTS
    k1 = k1
    k2 = k2
    c1 = c1
    c2 = c2
    Keys = {k1, k2}
    Clients = {c1, c2}
    Sweeper = sweeper
    NoOwner = none
    NumDbs = 1
    DbOf <- MCDbOfOne
    Commands <- MCCommands
    BatchSize = 1
    MaxNow = 2
    MaxCrashes = 0
    FailingKeys = {}
SYMMETRY Symmetry
INVARIANTS
    TypeOK
    IndexCoversDeadlines
    IndexHasNoLeaks
PROPERTIES
    ExpiryNeverEarly
    ImplementsKeyspace
