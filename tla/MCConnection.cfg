\* Duplicates, loss or a stray datagram, a failed bind, a second run of the server;
\* the sids wrap.
SPECIFICATION ConnFairSpec
CONSTANTS
    u1 = u1
    u2 = u2
    a1 = a1
    a2 = a2
    a3 = a3
    Uid = {u1, u2}
    other = other
    Address = {a1, a2, a3, other}
    Clients = {a1, a2, a3}
    UserOf <- MCUserOf
    NoAddress = NoAddress
    NoSession = NoSession
    NoSid = NoSid
    SidSpace = 4
    GenMax = 5
    Binds = {TRUE, FALSE}
    Networks <- MCNetworks
    BootMax = 2
    Reported = TRUE
INVARIANTS SidIsOwn SidsDistinct UserServed PeersAreUsers NoOrphan ConnTypeOK
PROPERTY RequestAnswered
CHECK_DEADLOCK FALSE
