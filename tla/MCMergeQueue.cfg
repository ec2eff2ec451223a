SPECIFICATION FairSpec
CONSTANTS
    Clients = {c1, c2}
    Queues = {q1, q2, q3, q4}
    Workers = {w1, w2, w3, w4}
    BatchMax = 1
    Pipeline = 2
    MaxRequests = 3
    None = None
INVARIANTS
    TypeOK
    NoStrandedRequest
    OneWorker
    AppliedInOrder
    AwaitedInFlight
PROPERTIES
    RequestsAnswered
CHECK_DEADLOCK FALSE
