\* A fault and a move, under fairness, with idle wake-ups at any time.
SPECIFICATION FairSpec
CONSTANTS
    MaxFaults = 1
    MaxReconnects = 0
    MaxMoves = 1
    MaxLogins = 1
    Overlaps = FALSE
    Heartbeat = TRUE
    Nudges = TRUE
    Stalls = FALSE
PROPERTY
    Recovers
CHECK_DEADLOCK FALSE
