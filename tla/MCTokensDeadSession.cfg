\* A save is under way when the user logs out.
CONSTANTS
    s1 = s1
    s2 = s2
    r1 = r1
    r2 = r2
    Sends = {}
    Rotations = {}
    MaxMints = 2
    MaxLogins = 1
    MaxQuits = 0
    Pushes = {"jwt"}
    Gateway = FALSE
    Logouts = TRUE
    Suspends = FALSE
    NoSession = NoSession
SPECIFICATION Spec
INVARIANTS LogoutClearsDisk
