SPECIFICATION FairSpec
CONSTANTS
    b1 = b1
    b2 = b2
    b3 = b3
    Books <- MCBooks
    BookIDs <- MCBookIDs
    MaxCrashes = 1
    MaxShutdowns = 1
    MaxFaults = 1
    MaxDeleted = 1
CHECK_DEADLOCK FALSE
INVARIANTS
    TypeOK
    CountersMatchItems
    FinishedMeansAttempted
    CancelStopsWorker
    UmbrellaCancelHonest
PROPERTIES
    EveryBookAttempted
    WorkListHolds
