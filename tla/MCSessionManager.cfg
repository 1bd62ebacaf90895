\* Every identifier is used once: GenMax < SidSpace.
SPECIFICATION Spec
CONSTANTS
    Uid = {u1, u2, u3}
    Address = {a1}
    NoAddress = NoAddress
    NoSession = NoSession
    NoSid = NoSid
    SidSpace = 6
    GenMax = 5
INVARIANTS SessionsIndexed EntriesExact
PROPERTY ImplementsRegistry
