SPECIFICATION InvoicingSpec
CONSTANTS
    Dues <- TwoDues
    Issuers = {i1, i2}
    Desks = {b1}
    MaxPapers = 2
    MaxMoves = 2
INVARIANTS
    InvoicingTypeOK
    InvoicedOnce
    
PROPERTIES
    DueIsAnswered
CHECK_DEADLOCK FALSE
