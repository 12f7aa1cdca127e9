SPECIFICATION Spec
CONSTANTS
    montgomery = montgomery
    ramontgomery = ramontgomery
    initials = initials
    cave = cave
    alice = alice
    bob = bob
    emma = emma
    People <- MCPeople
    Books <- MCBooks
    Nobody = nobody
    Admins <- MCAdmins
    Editors <- MCEditors
    MaxMerges = 2
    MaxEdits = 1
SYMMETRY MCSymmetry
CHECK_DEADLOCK FALSE
INVARIANTS
    TypeOK
    CreditedStays
    EarlierMergesFollow
