\* Bytes of three bits, words of four bytes, three words; the server and the client.
SPECIFICATION Spec
CONSTANTS
    ByteBits = 3
    NumWords = 3
    Lang = {"cpp", "cs"}
    PadMax = 1
INVARIANTS TypeOK WriterBalanced AssertsHold ReadBack
CHECK_DEADLOCK FALSE
