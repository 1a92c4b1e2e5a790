\* The session is logged out while two sends wait for the lock.
CONSTANTS
    s1 = s1
    s2 = s2
    r1 = r1
    r2 = r2
    Sends = {s1, s2}
    Rotations = {}
    MaxMints = 2
    MaxLogins = 1
    MaxQuits = 0
    Pushes = {}
    Gateway = FALSE
    Logouts = TRUE
    Suspends = FALSE
    NoSession = NoSession
SPECIFICATION Spec
INVARIANTS NeverSpentTwice
