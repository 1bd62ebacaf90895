\* Every packet of up to three calls, in all four pairs of languages.
SPECIFICATION Spec
CONSTANTS
    ByteBits = 4
    IntBits = 8
    Ints <- MCInts
    Words <- MCWords
    Longs <- MCLongs
    ByteArrays <- MCByteArrays
    Strings <- MCStrings
    BufferSize = 5
    CallMax = 3
INVARIANTS AsWritten ErrorMeansShort MeasureBounds CountsAgree
CHECK_DEADLOCK FALSE
