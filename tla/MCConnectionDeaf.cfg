\* The user changes the server while an attempt is under way.
SPECIFICATION Spec
CONSTANTS
    MaxFaults = 1
    MaxReconnects = 1
    MaxMoves = 0
    MaxLogins = 1
    Overlaps = TRUE
    Heartbeat = FALSE
    Nudges = FALSE
    Stalls = FALSE
INVARIANT
    NoLostWake
CHECK_DEADLOCK FALSE
