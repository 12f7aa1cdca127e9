SPECIFICATION Spec
CONSTANTS
    b1 = b1
    b2 = b2
    e1 = e1
    e2 = e2
    p1 = p1
    p2 = p2
    r1 = r1
    r2 = r2
    r3 = r3
    Books <- MCBooks
    Editions <- MCEditions
    BookOf <- MCBookOf
    NoBook = nobook
    NoEdition = none
    Places <- MCPlaces
    NoPlace = nowhere
    Requests <- MCRequests
    MaxDepth = 2
    MaxCount = 2
SYMMETRY MCSymmetry
CHECK_DEADLOCK FALSE
INVARIANTS
    TypeOK
    CopiesAsAdded
    SetCountExact
    LoopsNeedTwoMoves
