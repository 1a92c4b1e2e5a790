SPECIFICATION Spec
CONSTANTS
    m = m
    n = n
    A = A
    B = B
    Ids = {m, n}
    Keys <- Files
    Layouts <- OneOrTwo
    Script <- Logins
    SentIn <- LoginOf
    Batch = 1
    MaxSyncFailures = 2
    MaxSaves = 2
    MaxEvents = 2
INVARIANTS TypeOK DiskNewest RunningIsLive NeverForgotten NoSpinnerLeft ClosesWhenTold NothingStuck
PROPERTIES Cumulative
CHECK_DEADLOCK FALSE
