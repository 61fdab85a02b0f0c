SPECIFICATION Spec
CONSTANTS
    p1 = p1
    p2 = p2
    p3 = p3
    d1 = d1
    w1 = w1
    w2 = w2
    NoWorker = NoWorker
    Payments <- OnePayment
    Docs <- OneDoc
    Covers <- CoversOne
    ZeroAmount <- Nothing
    Workers = {w1}
    MaxGen = 2
    Feed <- Charging
    MaxAttempts = 1
    BatchLimit = 1
    MaxRows = 4
    MaxRetries = 0
    MaxCrashes = 0
INVARIANTS
    TypeOK
    ReversalPairing
    MarkersAgree
    EntriesAreMarked
    BilledOnce
    
    

    
CHECK_DEADLOCK FALSE
