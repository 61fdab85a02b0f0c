SPECIFICATION Spec
CONSTANTS
    s1 = s1
    s2 = s2
    s3 = s3
    Sessions <- TwoSessions
    LastMonth = 3
    YearEnd = 2
    ReturnFrom = 1
    ReturnTo = 1
    MaxEntries = 2
INVARIANTS
    FiledVatIsSettled
