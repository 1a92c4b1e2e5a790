\* One login whose credentials only the client's own minters replace: two
\* sends and a rotation by the manager race for the lock, the rotation may time
\* out at any point, and the app may be quit once.
CONSTANTS
    s1 = s1
    s2 = s2
    r1 = r1
    r2 = r2
    Sends = {s1, s2}
    Rotations = {r1}
    MaxMints = 4
    MaxLogins = 1
    MaxQuits = 1
    Pushes = {}
    Gateway = FALSE
    Logouts = FALSE
    Suspends = FALSE
    NoSession = NoSession
SPECIFICATION FairSpec
INVARIANTS NeverSpentTwice
PROPERTIES MintReachesDisk
