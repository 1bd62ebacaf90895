\* Datagrams of one or the other protocol, raw and checksummed, programs that differ.
SPECIFICATION Spec
CONSTANTS
    IntBits = 16
    ByteBits = 8
    BufferSize = 5
    Packets <- MCPackets
    Headers <- MCHeaders
    TypeCounts = {104, 106}
    PrefixBytes = 1
    Own = Own
    Foreign = Foreign
    WriteMax = 2
    HeapMax = 1
INVARIANTS TypeOK AcceptedIsSound IntactIsRead NoLeak
PROPERTY DeliversOnlySent
CHECK_DEADLOCK FALSE
