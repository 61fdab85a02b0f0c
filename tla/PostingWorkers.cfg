SPECIFICATION Spec
CONSTANTS
    p1 = p1
    p2 = p2
    p3 = p3
    d1 = d1
    w1 = w1
    w2 = w2
    NoWorker = NoWorker
    Payments <- OnePayment
    Docs <- OneDoc
    Covers <- CoversOne
    ZeroAmount <- Nothing
    Workers = {w1, w2}
    MaxGen = 1
    Feed <- Settling
    MaxAttempts = 2
    BatchLimit = 2
    MaxRows = 3
    MaxRetries = 1
    MaxCrashes = 1
SYMMETRY WorkerSymmetry
INVARIANTS
    OneBatchAtATime
    PostedOnce
    WaitsForEarlier
    SkippedReversalIsFinal
PROPERTIES
    NothingIsRewritten
CHECK_DEADLOCK FALSE
