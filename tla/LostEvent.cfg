SPECIFICATION LedgerSpec
CONSTANTS
    p1 = p1
    d1 = d1
    w1 = w1
    NoWorker = NoWorker
    Payments <- OnePayment
    Docs <- Nothing
    Covers <- CoversNone
    LateDocs <- Nothing
    ZeroAmount <- Nothing
    Workers = {w1}
    MaxGen = 2
    Feed <- Nothing
    MaxAttempts = 1
    BatchLimit = 1
    MaxRows = 3
    MaxRetries = 0
    MaxCrashes = 0
    MaxInFlight = 2
    MaxLosses = 1
INVARIANTS
    SweepFillsTheGap
CHECK_DEADLOCK FALSE
