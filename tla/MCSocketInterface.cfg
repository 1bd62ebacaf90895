\* A socket that works and every way its constructor may fail; full queues
\* and failures on both sides.
SPECIFICATION Spec
CONSTANTS
    Packet = {p1, p2, p3, p4}
    SendQueueSize = 2
    ReceiveQueueSize = 2
    Opened = {"ok", "create", "sockopt", "bindIPv4", "bindIPv6", "nonBlocking"}
    WriteMayFail = TRUE
    SendMax = 4
    ArriveMax = 4
SYMMETRY PacketSymmetry
INVARIANTS OneOwner LeaksAreWriteFailures CountersBalance NeverSentOnError
CHECK_DEADLOCK FALSE
