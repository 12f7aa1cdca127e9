SPECIFICATION FairSpec
CONSTANTS
    nightly = nightly
    reader = reader
    own = own
    x = x
    y = y
    Runners <- MCRunners
    Nightly <- MCNightly
    Books <- MCBooks
    Owned <- MCOwned
    MaxPosition = 2
    Listed <- MCListed
    Descriptions <- MCDescriptions
    Totals <- MCTotals
    PoolSize = 3
    MaxEdits = 1
    MaxFaults = 1
CHECK_DEADLOCK FALSE
INVARIANTS
    TypeOK
    PlaceholdersLinked
    DeletionTakesPlaceholders
PROPERTIES
    PassEnds
