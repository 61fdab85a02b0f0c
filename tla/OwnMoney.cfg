SPECIFICATION TrustSpec
CONSTANTS
    Payers = {s1, s2}
    Landlords = {o1}
    Nobody = Nobody
    Sums = {1, 2}
    MaxRecords = 3
    MaxFailed = 1
INVARIANTS
    PaidFromHisOwn
CHECK_DEADLOCK FALSE
