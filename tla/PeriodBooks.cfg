SPECIFICATION Spec
CONSTANTS
    s1 = s1
    s2 = s2
    s3 = s3
    Sessions <- ThreeSessions
    LastMonth = 3
    YearEnd = 2
    ReturnFrom = 1
    ReturnTo = 1
    MaxEntries = 3
SYMMETRY SessionSymmetry
INVARIANTS
    TypeOK
    EntryNumbersRun
    NothingClosedTwice
PROPERTIES
    RefreshCarriesTheYear
    CloseSeesAllEntries
CHECK_DEADLOCK FALSE
