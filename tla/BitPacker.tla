------------------------------ MODULE BitPacker -----------------------------
(* BitWriter.h and BitReader.h of the server, BitWriter.cs and BitReader.cs  *)
(* of the client: bits are packed through a scratch register of two words    *)
(* into a buffer of words, and unpacked by a reader of the bytes written.    *)
(*                                                                           *)
(* Every bit written is told from every other: its value is the position it  *)
(* was written at.  Registers and buffer are functions from bit positions,   *)
(* the lowest bit of the lowest byte first, which is the order host_to_      *)
(* network() and the client's arrays give them on every platform.            *)
EXTENDS Integers, Sequences, FiniteSets

CONSTANTS ByteBits,    \* 8 in the code
          NumWords,    \* m_numWords of the buffer
          Lang,        \* who writes: a subset of {"cpp", "cs"}
          PadMax       \* bound on the bits WriteAlign has added when it is called

WordBits == 4 * ByteBits

ASSUME PackerAssumption == /\ ByteBits \in Nat \ {0} /\ NumWords \in Nat \ {0}
                           /\ Lang \subseteq {"cpp", "cs"} /\ PadMax \in Nat

Zero  == -1            \* a bit that is 0 for certain
Stale == -2            \* a bit of an earlier packet, or of no packet
Mixed == -3            \* two bits or-ed over each other

VARIABLES lang, phase, writer, pads, reader

packerVars == <<lang, phase, writer, pads, reader>>

Buffer   == 0..(NumWords * WordBits - 1)
Register == 0..(2 * WordBits - 1)
Bit      == Buffer \cup {Zero, Stale, Mixed}

TypeOK == /\ lang \in Lang /\ phase \in {"write", "read"}
          /\ writer.data \in [Buffer -> Bit] /\ writer.scratch \in [Register -> Bit]
          /\ writer.scratchBits \in Int
          /\ writer.wordIndex \in 0..NumWords /\ writer.bitsWritten \in 0..(NumWords * WordBits)
          /\ pads \subseteq Buffer
          /\ reader.scratch \in [Register -> Bit] /\ reader.scratchBits \in Register
          /\ reader.bitsRead \in 0..(NumWords * WordBits)
          /\ reader.wordIndex \in 0..NumWords
          /\ reader.output \in Seq(Bit)

OrBit(a, b) == IF a = Zero THEN b ELSE IF b = Zero THEN a ELSE Mixed

\* scratch |= value << at, for a value of n bits
OrInto(scratch, value, n, at) ==
    [i \in Register |-> IF i \in at..(at + n - 1) THEN OrBit(scratch[i], value[i - at])
                                                  ELSE scratch[i]]
ShiftRight(scratch, n) ==
    [i \in Register |-> IF i + n \in Register THEN scratch[i + n] ELSE Zero]

Empty == [i \in Register |-> Zero]

-----------------------------------------------------------------------------
\* The writer.  asserts: whether every assertion on the way has held.

NewWriter == [data |-> [p \in Buffer |-> Stale], scratch |-> Empty, scratchBits |-> 0,
              wordIndex |-> 0, bitsWritten |-> 0, asserts |-> TRUE]

StoreWord(w) ==
    [w EXCEPT !.asserts = @ /\ w.wordIndex < NumWords,
              !.data = [p \in Buffer |-> IF p \div WordBits = w.wordIndex
                                         THEN w.scratch[p % WordBits] ELSE @[p]],
              !.scratch = ShiftRight(@, WordBits),
              !.scratchBits = @ - WordBits,
              !.wordIndex = @ + 1]

\* Faults
StoreWhenOver(w, value, n) ==    \* > for >=
    LET filled == [w EXCEPT !.scratch = OrInto(@, value, n, w.scratchBits),
                            !.scratchBits = @ + n,
                            !.bitsWritten = @ + n]
    IN IF filled.scratchBits > WordBits THEN StoreWord(filled) ELSE filled
StoreWithoutShift(w, value, n) == \* no m_scratch >>= 32
    LET filled == [w EXCEPT !.scratch = OrInto(@, value, n, w.scratchBits),
                            !.scratchBits = @ + n,
                            !.bitsWritten = @ + n]
    IN IF filled.scratchBits >= WordBits THEN [StoreWord(filled) EXCEPT !.scratch = filled.scratch]
                                         ELSE filled
FlushAlways(w, l) == IF l = "cs" THEN [StoreWord(w) EXCEPT !.scratchBits = 0] ELSE StoreWord(w)

PutBits(w, value, n) ==
    LET filled == [w EXCEPT !.scratch = OrInto(@, value, n, w.scratchBits),
                            !.scratchBits = @ + n,
                            !.bitsWritten = @ + n]
    IN IF filled.scratchBits >= WordBits THEN StoreWord(filled) ELSE filled

\* The server subtracts a word from m_scratchBits, which leaves it negative.
FlushBits(w, l) ==
    IF w.scratchBits = 0 THEN w
    ELSE IF l = "cs" THEN [StoreWord(w) EXCEPT !.scratchBits = 0]
    ELSE StoreWord(w)

\* The next n bits of the caller, as a value.
Fresh(w, n) == [i \in 0..(n - 1) |-> w.bitsWritten + i]
ZeroBits(n) == [i \in 0..(n - 1) |-> Zero]

\* The loops over the bytes before the first and after the last whole word.
PutByte(w) == PutBits(w, Fresh(w, ByteBits), ByteBits)
PutBytes(w, n) == CASE n = 0 -> w
                    [] n = 1 -> PutByte(w)
                    [] n = 2 -> PutByte(PutByte(w))
                    [] n = 3 -> PutByte(PutByte(PutByte(w)))

AlignBits(bits) == (ByteBits - (bits % ByteBits)) % ByteBits
HeadBytes(bits, n) == LET toWord == (4 - (bits % WordBits) \div ByteBits) % 4
                      IN IF toWord > n THEN n ELSE toWord

\* memcpy() of whole words
CopyWords(w, words) ==
    IF words = 0 THEN w
    ELSE [w EXCEPT !.asserts = @ /\ w.bitsWritten % WordBits = 0,
                   !.data = [p \in Buffer |->
                                LET at == p - w.wordIndex * WordBits
                                IN IF at \in 0..(words * WordBits - 1)
                                   THEN w.bitsWritten + at ELSE @[p]],
                   !.bitsWritten = @ + words * WordBits,
                   !.wordIndex = @ + words,
                   !.scratch = Empty]

PutArray(w, l, n) ==
    LET head  == HeadBytes(w.bitsWritten, n)
        words == (n - head) \div 4
    IN IF head = n THEN PutBytes(w, n)
       ELSE PutBytes(CopyWords(FlushBits(PutBytes(w, head), l), words), n - head - 4 * words)

WriteBits(n) == /\ phase = "write" /\ writer.bitsWritten + n <= NumWords * WordBits
                /\ writer' = PutBits(writer, Fresh(writer, n), n)
                /\ UNCHANGED <<lang, phase, pads, reader>>

WriteAlign == LET n == AlignBits(writer.bitsWritten) IN
              /\ phase = "write" /\ n # 0 /\ Cardinality(pads) <= PadMax
              /\ writer' = PutBits(writer, ZeroBits(n), n)
              /\ pads' = pads \cup {writer.bitsWritten + i : i \in 0..(n - 1)}
              /\ UNCHANGED <<lang, phase, reader>>

WriteBytes(n) == /\ phase = "write" /\ AlignBits(writer.bitsWritten) = 0
                 /\ writer.bitsWritten + n * ByteBits <= NumWords * WordBits
                 /\ writer' = PutArray(writer, lang, n)
                 /\ UNCHANGED <<lang, phase, pads, reader>>

-----------------------------------------------------------------------------
\* The reader of the GetBytesWritten() bytes; numWords is that of the client
\* and of the server's debug build.

NumBytes  == (writer.bitsWritten + ByteBits - 1) \div ByteBits
ReadWords == (NumBytes + 3) \div 4

NewReader == [scratch |-> Empty, scratchBits |-> 0, wordIndex |-> 0, bitsRead |-> 0,
              asserts |-> TRUE, output |-> << >>]

Word(i) == [b \in 0..(WordBits - 1) |-> IF i * WordBits + b \in Buffer
                                        THEN writer.data[i * WordBits + b] ELSE Stale]

Fetch(r) == [r EXCEPT !.asserts = @ /\ r.wordIndex < ReadWords,
                      !.scratch = OrInto(@, Word(r.wordIndex), WordBits, r.scratchBits),
                      !.scratchBits = @ + WordBits,
                      !.wordIndex = @ + 1]

\* Faults
Take(r, n) == [r EXCEPT !.asserts = @ /\ r.scratchBits >= n,
                        !.scratch = ShiftRight(@, n), !.scratchBits = @ - n, !.bitsRead = @ + n,
                        !.output = @ \o [i \in 1..n |-> r.scratch[i - 1]]]
FetchEarly(r, n) == Take(IF r.scratchBits <= n THEN Fetch(r) ELSE r, n)

GetBits(r, n) == Take(IF r.scratchBits < n THEN Fetch(r) ELSE r, n)

GetByte(r) == GetBits(r, ByteBits)
GetBytes(r, n) == CASE n = 0 -> r
                    [] n = 1 -> GetByte(r)
                    [] n = 2 -> GetByte(GetByte(r))
                    [] n = 3 -> GetByte(GetByte(GetByte(r)))

FetchWords(r, words) ==
    IF words = 0 THEN r
    ELSE [r EXCEPT !.asserts = @ /\ r.bitsRead % WordBits = 0,
                   !.output = @ \o [i \in 1..(words * WordBits) |->
                                       Word(r.wordIndex + (i - 1) \div WordBits)[(i - 1) % WordBits]],
                   !.bitsRead = @ + words * WordBits,
                   !.wordIndex = @ + words,
                   !.scratchBits = 0]

GetArray(r, n) ==
    LET head  == HeadBytes(r.bitsRead, n)
        words == (n - head) \div 4
    IN IF head = n THEN GetBytes(r, n)
       ELSE GetBytes(FetchWords(GetBytes(r, head), words), n - head - 4 * words)

\* The last call to the writer, after which the packet is sent and read.
Flush == /\ phase = "write" /\ phase' = "read"
         /\ writer' = FlushBits(writer, lang)
         /\ UNCHANGED <<lang, pads, reader>>

ReadBits(n) == /\ phase = "read" /\ reader.bitsRead + n <= NumBytes * ByteBits
               /\ reader' = GetBits(reader, n)
               /\ UNCHANGED <<lang, phase, writer, pads>>

ReadAlign == LET n == AlignBits(reader.bitsRead) IN
             /\ phase = "read" /\ n # 0
             /\ reader' = GetBits(reader, n)
             /\ UNCHANGED <<lang, phase, writer, pads>>

ReadBytes(n) == /\ phase = "read" /\ AlignBits(reader.bitsRead) = 0
                /\ reader.bitsRead + n * ByteBits <= NumBytes * ByteBits
                /\ reader' = GetArray(reader, n)
                /\ UNCHANGED <<lang, phase, writer, pads>>

-----------------------------------------------------------------------------
Init == /\ lang \in Lang /\ phase = "write"
        /\ writer = NewWriter /\ pads = {} /\ reader = NewReader

Next == \/ \E n \in 1..WordBits : WriteBits(n) \/ ReadBits(n)
        \/ \E n \in 1..(4 * NumWords) : WriteBytes(n) \/ ReadBytes(n)
        \/ WriteAlign \/ ReadAlign \/ Flush

Spec == Init /\ [][Next]_packerVars

-----------------------------------------------------------------------------
\* Properties.

\* What was written at position p; past the end, the zeros of the flush.
Written(p) == IF p \in pads \/ p >= writer.bitsWritten THEN Zero ELSE p

(* The word index, the scratch bits and the bit count are kept apart in all  *)
(* three write operations, and agree: while the packet is written, a shift   *)
(* is by less than a word and WriteBytes has nothing to flush before it      *)
(* copies words (where the server's FlushBits would leave it negative).      *)
WriterBalanced ==
    phase = "write" => /\ writer.scratchBits \in 0..(WordBits - 1)
                       /\ writer.wordIndex * WordBits + writer.scratchBits = writer.bitsWritten

(* No assertion of the writer or reader fails when its caller keeps inside   *)
(* the buffer, to the last bit of the last word: none stores or fetches a    *)
(* word that is not there, though the reader takes a word at a time.         *)
AssertsHold == writer.asserts /\ reader.asserts

(* The reader gives back the bits in the order they were written, in         *)
(* whatever portions either side works, the zeros of WriteAlign in their     *)
(* place, and zeros behind the last bit: nothing of an earlier packet.       *)
ReadBack == \A i \in DOMAIN reader.output : reader.output[i] = Written(i - 1)
=============================================================================
