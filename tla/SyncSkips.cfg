SPECIFICATION Spec
CONSTANTS
    phone = phone
    tablet = tablet
    emma = emma
    persuasion = persuasion
    five = five
    null = null
    Devices <- MCDevices
    Books <- TwoBooks
    Ratings <- MCRatings
    NoRating = null
    Limit = 1
    MaxEdits = 3
    MaxTime = 9
    MaxSessions = 2
    MaxLosses = 1
CHECK_DEADLOCK FALSE
INVARIANT
    ChangesReachDevices
