SPECIFICATION FairSpec
CONSTANTS
    j1 = j1
    j2 = j2
    i1 = i1
    i2 = i2
    none = none
    Jobs <- OneJob
    ISBNs <- MCISBNs
    NoISBN = none
    Csv <- OneCsv
    Elsewhere <- MCElsewhere
    Options <- OneOptions
    MaxStops = 2
    MaxFaults = 1
CHECK_DEADLOCK FALSE
INVARIANTS
    CatalogueIsbnPerImport
    SettledRowsRest
    CancelStopsImport
PROPERTIES
    EveryRowSettled
    WorkListsHold
