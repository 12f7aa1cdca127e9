SPECIFICATION FairSpec
CONSTANTS
    b1 = b1
    b2 = b2
    b3 = b3
    Books <- MCBooks
    BookIDs <- MCTwoBookIDs
    MaxCrashes = 1
    MaxShutdowns = 0
    MaxFaults = 0
    MaxDeleted = 0
CHECK_DEADLOCK FALSE
PROPERTY
    AttemptedBatchIsFinished
