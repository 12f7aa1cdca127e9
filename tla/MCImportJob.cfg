SPECIFICATION Spec
CONSTANTS
    j1 = j1
    j2 = j2
    i1 = i1
    i2 = i2
    none = none
    Jobs <- MCJobs
    ISBNs <- MCISBNs
    NoISBN = none
    Csv <- MCCsv
    Elsewhere <- MCElsewhere
    Options <- MCOptions
    MaxStops = 0
    MaxFaults = 0
CHECK_DEADLOCK FALSE
INVARIANTS
    TypeOK
    CopiesMatchRows
    ReportMatchesRows
