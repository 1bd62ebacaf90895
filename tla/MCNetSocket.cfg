\* Datagrams and errors arrive while both threads use the socket.
SPECIFICATION FairSpec
CONSTANTS
    Uses <- MCUses
    Reported = TRUE
    ArriveMax = 4
INVARIANTS SocketOpenWhenUsed NoException SilentAfterClose HandedOver
PROPERTIES CloseReturns ReceiveEnds
CHECK_DEADLOCK FALSE
