\* Two calls that share one cid over two connections, under fairness: late,
\* chunked and oversized answers, a full write queue, a cid counter that wraps,
\* and closes from outside the connect.
CONSTANTS
    a = a
    b = b
    c = c
    mgr = mgr
    hb = hb
    Requests = {a, b}
    Pings = {b}
    HttpCapable = {a}
    Drivers = {mgr}
    Manager = mgr
    CidMod = 2
    MaxConns = 2
    QueueCap = 2
    NoRequest = NoRequest
    Handshake = Handshake
SPECIFICATION FairSpec
INVARIANTS TypeOK NoMisdelivery PendingOwned HandshakeFirst AtMostOnce
PROPERTIES KeepsContract
