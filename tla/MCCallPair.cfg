\* Two calls: a redial, a call back (or both at once), a third party that calls.
SPECIFICATION Spec
CONSTANTS
    da = da
    db = db
    dc = dc
    A = A
    B = B
    C = C
    Devices = {da, db, dc}
    UserOf <- UserOfDevice
    Scripts <- TwoCalls
    IceOf <- CandidatesOf
    MaxFaults = 1
    MaxPendingIce = 1
    MaxKnown = 2
INVARIANTS TypeOK CandidatesKept LogOfThisCall TimerArmed NoZombie
PROPERTIES RingsOnce
CHECK_DEADLOCK FALSE
