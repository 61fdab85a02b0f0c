SPECIFICATION FairSpec
CONSTANTS
    p1 = p1
    p2 = p2
    p3 = p3
    d1 = d1
    w1 = w1
    w2 = w2
    NoWorker = NoWorker
    Payments <- ThreePayments
    Docs <- OneDoc
    Covers <- CoversTwo
    ZeroAmount <- Nothing
    Workers = {w1}
    MaxGen = 1
    Feed <- Chain
    MaxAttempts = 1
    BatchLimit = 1
    MaxRows = 4
    MaxRetries = 0
    MaxCrashes = 0
PROPERTIES
    EventuallySettled
CHECK_DEADLOCK FALSE
