\* A direct message, whose events were lost once: open it, jump.
SPECIFICATION Spec
CONSTANTS
    MaxSends = 0
    Text <- Same
    History = 3
    MaxLog = 6
    Page = 2
    Cap = 3
    MaxMoves = 2
    MaxFaults = 1
    Clan = FALSE
    InOrder = TRUE
PROPERTY
    LiveJoinsShown
CHECK_DEADLOCK FALSE
