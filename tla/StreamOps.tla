------------------------------ MODULE StreamOps -------------------------------
(* What the calls of the streams of Serialization.h and of the client do: on  *)
(* a writer's buffer, on a measure, on a reader.  Streams exercises them one  *)
(* packet at a time, PacketCodec builds its packets with them.                *)
(*                                                                            *)
(* The streams sit on the bit packer, which BitPacker shows to give back the  *)
(* bits it was given: here a buffer is the sequence of its bits.  A bool is   *)
(* one bit, a float or uint32 IntBits bits, a double a uint64.                *)
EXTENDS NetworkUtil, Sequences

CONSTANTS ByteBits,      \* 8 in the code
          BufferSize     \* buffer_size of serialize_string

Byte   == 0..(2^ByteBits - 1)
Uint   == 0..(2^IntBits - 1)
IntMax == 2^(IntBits - 1) - 1
IntMin == -(2^(IntBits - 1))

ASSUME StreamOpsAssumption ==
    /\ ByteBits \in Nat \ {0}
    /\ BufferSize \in Nat \ {0, 1} /\ (BufferSize - 1) * ByteBits <= IntMax

\* What the provers do not know of ^, for the widths of an int and of a byte.
ASSUME PowersAssumption == \A n \in 0..(IntBits + ByteBits) : 2^(n + 1) = 2 * 2^n

Bit  == {0, 1}
Lang == {"cpp", "cs"}

\* A call a program may make: what it writes is of its type and in its range.
Legal(c, lang) ==
    \/ /\ c.op \in {"int", "enum"} /\ c.min \in IntMin..IntMax /\ c.max \in IntMin..IntMax
       /\ c.min < c.max /\ c.value[1] \in c.min..c.max /\ c.value = <<c.value[1]>>
    \/ /\ c.op = "bits" /\ c.size \in 1..IntBits /\ c.value[1] \in 0..(2^c.size - 1)
       /\ c.value = <<c.value[1]>>
    \/ c.op = "uint64" /\ c.value[1] \in Uint /\ c.value[2] \in Uint /\ c.value = <<c.value[1], c.value[2]>>
    \/ c.op = "align" /\ c.value = << >>
    \/ c.op = "bytes" /\ c.value \in Seq(Byte) /\ Len(c.value) * ByteBits <= IntMax
    \/ /\ c.op = "string" /\ c.value \in Seq(Byte) /\ Len(c.value) * ByteBits <= IntMax
       /\ c.chars \in 0..Len(c.value)
       /\ lang = "cpp" => Len(c.value) <= BufferSize - 1

-----------------------------------------------------------------------------
\* Integers of IntBits bits.

Signed(n) == LET u == n % 2^IntBits IN IF u > IntMax THEN u - 2^IntBits ELSE u

BitOf(v, i)  == (v \div 2^i) % 2
ToBits(v, n) == [i \in 1..n |-> BitOf(v, i - 1)]
FromBits(s) ==
    LET value[n \in 0..Len(s)] == IF n = 0 THEN 0 ELSE value[n - 1] + s[n] * 2^(n - 1)
    IN value[Len(s)]

AlignBits(n) == (ByteBits - (n % ByteBits)) % ByteBits

WordBits  == 4 * ByteBits
ToWord(n) == (WordBits - (n % WordBits)) % WordBits

-----------------------------------------------------------------------------
\* WriteStream: what a call leaves in the buffer s.

\* Fault: min is not subtracted
WriteUnshifted(s, v, min, max) == s \o ToBits(v % 2^IntBits, BitsRequired(min, max))

WriteBits(s, v, n) == s \o ToBits(v, n)
WriteInteger(s, v, min, max) == WriteBits(s, (v - min) % 2^IntBits, BitsRequired(min, max))
WriteAlign(s) == s \o [i \in 1..AlignBits(Len(s)) |-> 0]
WriteBytes(s, bytes) ==
    WriteAlign(s) \o [k \in 1..(Len(bytes) * ByteBits) |->
                         BitOf(bytes[(k - 1) \div ByteBits + 1], (k - 1) % ByteBits)]

\* The server sends strlen() bytes, the client as many bytes as there are characters.
StringMax(lang)  == IF lang = "cpp" THEN BufferSize - 1 ELSE IntMax
SentBytes(c, lang) == IF lang = "cpp" THEN c.value ELSE SubSeq(c.value, 1, c.chars)

Encode(s, c, lang) ==
    CASE c.op \in {"int", "enum"} -> WriteInteger(s, c.value[1], c.min, c.max)
      [] c.op = "bits"   -> WriteBits(s, c.value[1], c.size)
      [] c.op = "uint64" -> WriteBits(WriteBits(s, c.value[1], IntBits), c.value[2], IntBits)
      [] c.op = "align"  -> WriteAlign(s)
      [] c.op = "bytes"  -> WriteBytes(s, c.value)
      [] c.op = "string" -> LET sent == SentBytes(c, lang)
                            IN WriteBytes(WriteInteger(s, Len(sent), 0, StringMax(lang)), sent)

-----------------------------------------------------------------------------
\* MeasureStream: how many bits a call adds; there is one for the server only.

\* Fault: bytes are taken to be aligned already
MeasureAligned(n) == n * ByteBits

MeasureAlign == ByteBits - 1
MeasureBytes(n) == MeasureAlign + n * ByteBits

Measure(c) ==
    CASE c.op \in {"int", "enum"} -> BitsRequired(c.min, c.max)
      [] c.op = "bits"   -> c.size
      [] c.op = "uint64" -> 2 * IntBits
      [] c.op = "align"  -> MeasureAlign
      [] c.op = "bytes"  -> MeasureBytes(Len(c.value))
      [] c.op = "string" -> BitsRequired(0, BufferSize - 1) + MeasureBytes(Len(c.value))

-----------------------------------------------------------------------------
\* ReadStream: the stream r after a call.  r.ok is what the call returns,
\* r.value what it stores through its reference when it returns true.

NewReader(d) == [data |-> d, pos |-> 0, bitsRead |-> 0, error |-> FALSE, ok |-> TRUE,
                 value |-> << >>, threw |-> FALSE]

\* Faults: an overflow is not noted; the stream does not count
OverflowSilently(r) == [r EXCEPT !.ok = FALSE]
AdvanceReaderOnly(r, n) == [r EXCEPT !.pos = @ + n, !.ok = TRUE]

WouldOverflow(r, n) == r.pos + n > Len(r.data)
Overflow(r) == [r EXCEPT !.error = TRUE, !.ok = FALSE]
Advance(r, n) == [r EXCEPT !.pos = @ + n, !.bitsRead = @ + n, !.ok = TRUE]
Ahead(r, n) == SubSeq(r.data, r.pos + 1, r.pos + n)

SerializeBits(r, n) ==
    IF WouldOverflow(r, n) THEN Overflow(r)
    ELSE [Advance(r, n) EXCEPT !.value = <<FromBits(Ahead(r, n))>>]

SerializeInteger(r, min, max) ==
    LET n == BitsRequired(min, max)
    IN IF WouldOverflow(r, n) THEN Overflow(r)
       ELSE [Advance(r, n) EXCEPT !.value = <<Signed(FromBits(Ahead(r, n)) + min)>>]

\* Padding that is not zero has been read, but is not counted.
SerializeAlign(r) ==
    LET n == AlignBits(r.pos)
    IN IF WouldOverflow(r, n) THEN Overflow(r)
       ELSE IF \E i \in 1..n : Ahead(r, n)[i] # 0 THEN [r EXCEPT !.pos = @ + n, !.ok = FALSE]
       ELSE [Advance(r, n) EXCEPT !.value = << >>]

(* bytes * 8, and its sum with the bits read, are ints.  When one wraps, the  *)
(* bit reader is sent on: it reads and counts bytes up to the next word, asks *)
(* for more words than its array has, and throws.  The client's array of that *)
(* many bytes is taken to have been allocated.                                *)
SerializeBytes(r, n) ==
    LET a == SerializeAlign(r)
    IN IF ~a.ok THEN a
       ELSE IF Signed(a.pos + n * ByteBits) > Len(a.data) THEN Overflow(a)
       ELSE IF WouldOverflow(a, n * ByteBits)
            THEN [a EXCEPT !.pos = @ + ToWord(@), !.ok = FALSE, !.threw = TRUE]
       ELSE [Advance(a, n * ByteBits) EXCEPT
                !.value = [i \in 1..n |-> FromBits(SubSeq(Ahead(a, n * ByteBits),
                                                          (i - 1) * ByteBits + 1, i * ByteBits))]]

-----------------------------------------------------------------------------
\* One call of the server's Serialize( ReadStream & ): the macros return false
\* when the stream does, and when an integer is out of its range.

\* Fault: only the lower bound is checked
InRangeBelow(r, min, max) == [r EXCEPT !.ok = @ /\ r.value[1] >= min]

InRange(r, min, max) == [r EXCEPT !.ok = @ /\ r.value[1] \in min..max]

ReadInt(r, min, max) == InRange(SerializeInteger(r, min, max), min, max)

\* value = (type) value: the field keeps what it held.
ReadEnum(r, c) == [ReadInt(r, c.min, c.max) EXCEPT !.value = << >>]

ReadUint64(r) ==
    LET lo == SerializeBits(r, IntBits)
        hi == SerializeBits(lo, IntBits)
    IN IF lo.ok THEN [hi EXCEPT !.value = lo.value \o @] ELSE lo

ReadString(r) ==
    LET length == ReadInt(r, 0, BufferSize - 1)
    IN IF length.ok THEN SerializeBytes(length, length.value[1]) ELSE length

DecodeCpp(r, c) ==
    CASE c.op = "int"    -> ReadInt(r, c.min, c.max)
      [] c.op = "enum"   -> ReadEnum(r, c)
      [] c.op = "bits"   -> SerializeBits(r, c.size)
      [] c.op = "uint64" -> ReadUint64(r)
      [] c.op = "align"  -> SerializeAlign(r)
      [] c.op = "bytes"  -> SerializeBytes(r, Len(c.value))
      [] c.op = "string" -> ReadString(r)

\* One Deserialize* of the client: what the stream returns is not looked at, and
\* what it has not stored is zero.
OrZero(r, n) == IF r.ok THEN r ELSE [r EXCEPT !.value = [i \in 1..n |-> 0]]

DeserializeInt(r, min, max) == OrZero(SerializeInteger(r, min, max), 1)
DeserializeBits(r, n)       == OrZero(SerializeBits(r, n), 1)
DeserializeBytes(r, n)      == OrZero(SerializeBytes(r, n), n)

DeserializeUInt64(r) == LET low  == DeserializeBits(r, IntBits)
                            high == DeserializeBits(low, IntBits)
                        IN [high EXCEPT !.ok = low.ok /\ @, !.value = low.value \o @]

DeserializeString(r) == LET length == DeserializeInt(r, 0, IntMax)
                            val    == DeserializeBytes(length, length.value[1])
                        IN [val EXCEPT !.ok = length.ok /\ @]

DecodeCs(r, c) ==
    CASE c.op \in {"int", "enum"} -> DeserializeInt(r, c.min, c.max)
      [] c.op = "bits"   -> DeserializeBits(r, c.size)
      [] c.op = "uint64" -> DeserializeUInt64(r)
      [] c.op = "align"  -> OrZero(SerializeAlign(r), 0)
      [] c.op = "bytes"  -> DeserializeBytes(r, Len(c.value))
      [] c.op = "string" -> DeserializeString(r)
=============================================================================
