\* Two users, one after the other, with a quit in between: logout, login, a
\* rotation, the server's pushes and the gateway's answers in every order.
CONSTANTS
    s1 = s1
    s2 = s2
    r1 = r1
    r2 = r2
    Sends = {}
    Rotations = {r1}
    MaxMints = 3
    MaxLogins = 2
    MaxQuits = 1
    Pushes = {"jwt", "pair"}
    Gateway = TRUE
    Logouts = TRUE
    Suspends = FALSE
    NoSession = NoSession
SPECIFICATION Spec
INVARIANTS TypeOK OneLogin DiskFollows
PROPERTIES StaysLoggedOut
