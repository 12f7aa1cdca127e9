SPECIFICATION FairSpec
CONSTANTS
    nightly = nightly
    reader = reader
    own = own
    x = x
    y = y
    Runners <- MCRunners
    Nightly <- MCNightly
    Books <- MCBooks
    Owned <- MCOwned
    MaxPosition = 2
    Listed <- MCListed
    Descriptions <- MCDescriptions
    Totals <- MCTotals
    PoolSize = 2
    MaxEdits = 0
    MaxFaults = 0
CHECK_DEADLOCK FALSE
PROPERTY
    WaiterGetsItsTurn
