\* A channel of the open clan: pages, jumps, a send and its echo, a lost
\* connection or lost events.
SPECIFICATION Spec
CONSTANTS
    MaxSends = 1
    Text <- Same
    History = 3
    MaxLog = 5
    Page = 2
    Cap = 3
    MaxMoves = 3
    MaxFaults = 1
    Clan = TRUE
    InOrder = TRUE
INVARIANTS
    TypeOK
    NoTwins
    RestsCurrent
    NoGhosts
    NothingHangs
PROPERTY
    LiveJoins
CHECK_DEADLOCK FALSE
