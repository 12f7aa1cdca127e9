SPECIFICATION FairSpec
CONSTANTS
    t1 = t1
    t2 = t2
    Tasks <- MCTasks
    Trigger <- MCAdminTrigger
    Limit = 1
    BackfillMax = 2
    MaxAdmin = 2
    MaxFailures = 1
CHECK_DEADLOCK FALSE
INVARIANTS
    TypeOK
    OneRunPerJob
    CancelStopsRun
    HistoryAgrees
PROPERTIES
    VerdictSticks
    RunEnds
