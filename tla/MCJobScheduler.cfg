SPECIFICATION FairSpec
CONSTANTS
    p1 = p1
    Kinds <- MCKinds
    DefaultOn <- MCDefaultOn
    DefaultCron <- MCDefaultCron
    Crons <- MCCrons
    StaleRun = 2
    Presses <- MCPresses
    MaxTime = 2
    MaxJobs = 4
    MaxEdits = 1
    MaxFaults = 1
    MaxCrashes = 1
CHECK_DEADLOCK FALSE
INVARIANTS
    TypeOK
    DueServedOnce
    RunningRowsOwned
    DisabledStaysQuiet
PROPERTIES
    DueIsServed
