SPECIFICATION LocksSpec
CONSTANTS
    c1 = c1
    c2 = c2
    n1 = n1
    n2 = n2
    p1 = p1
    p2 = p2
    d1 = d1
    a1 = a1
    a2 = a2
    k1 = k1
    k2 = k2
    x1 = x1
    o1 = o1
    Clients <- TwoClients
    Invoices <- TwoNumbers
    Production = FALSE
    MaxSigned = 2
    MaxLost = 1
    Tills <- TwoClients
    Installments <- TwoInstallments
    Docs <- OneDoc
    Covers <- CoversBoth
    Due = 2
    Notes <- OneNote
    None = None
    Servers <- TwoClients
    Accounts <- TwoAccounts
    Contracts <- TwoContracts
    Unknown <- OneUnknown
    Party <- PartyOf
    Pinned <- OnePinned
    Limit = 2
    Quota <- QuotaOf
    Pool = 3
    WrongCap = 1
    SecondCall = "contracts"
    Payers <- TwoClients
    Landlords <- OneLandlord
    Nobody = Nobody
    Sums <- OneOrTwo
    MaxRecords = 3
    MaxFailed = 1
SYMMETRY LockSymmetry
INVARIANTS
    NextIcvIsFree
    
    
    
    OthersContractsAreWithheld
    TrustIsCovered
PROPERTIES
    IsOneChain
    PaysWhatIsThere
CHECK_DEADLOCK FALSE
