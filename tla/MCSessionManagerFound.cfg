\* The identifier wraps around and meets a session that is still alive.
SPECIFICATION Spec
CONSTANTS
    Uid = {u1, u2, u3}
    Address = {a1}
    NoAddress = NoAddress
    NoSession = NoSession
    NoSid = NoSid
    SidSpace = 4
    GenMax = 9
INVARIANT FoundIsOwn
