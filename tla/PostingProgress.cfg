SPECIFICATION FairSpec
CONSTANTS
    p1 = p1
    p2 = p2
    p3 = p3
    d1 = d1
    w1 = w1
    w2 = w2
    NoWorker = NoWorker
    Payments <- OnePayment
    Docs <- OneDoc
    Covers <- CoversOne
    ZeroAmount <- Nothing
    Workers = {w1}
    MaxGen = 1
    Feed <- Replacing
    MaxAttempts = 2
    BatchLimit = 3
    MaxRows = 3
    MaxRetries = 0
    MaxCrashes = 1
PROPERTIES
    EventuallySettled
CHECK_DEADLOCK FALSE
