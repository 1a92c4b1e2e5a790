\* Two users, a fault and a change of server; the app may stay offline for good.
SPECIFICATION Spec
CONSTANTS
    MaxFaults = 1
    MaxReconnects = 1
    MaxMoves = 0
    MaxLogins = 2
    Overlaps = FALSE
    Heartbeat = TRUE
    Nudges = FALSE
    Stalls = FALSE
INVARIANTS
    TypeOK
    NoLostWake
    Listens
    StatusSettles
    ConfirmedByGateway
CHECK_DEADLOCK FALSE
