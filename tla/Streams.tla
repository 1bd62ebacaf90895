------------------------------- MODULE Streams ------------------------------
(* The write, read and measure streams of Serialization.h with their          *)
(* serialize_* macros, and the client's streams with their extension methods. *)
(* A packet is a sequence of calls made on a WriteStream; its bytes travel    *)
(* whole, short or altered, and a ReadStream makes the same calls on them.    *)
EXTENDS StreamOps, FiniteSets

CONSTANTS Ints,          \* the integers to serialise: <<value, min, max>>
          Words,         \* what is serialised bit by bit: <<value, bits>>
          Longs,         \* uint64s: <<low half, high half>>
          ByteArrays,    \* sequences of bytes
          Strings,       \* strings: their bytes, and how many characters these are
          CallMax        \* bound on the calls of a packet

ASSUME StreamsAssumption ==
    /\ CallMax \in Nat \ {0}
    /\ \A i \in Ints : /\ {i[2], i[3]} \subseteq IntMin..IntMax /\ i[2] < i[3]
                       /\ i[1] \in i[2]..i[3]
    /\ \A w \in Words : w[2] \in 1..IntBits /\ w[1] \in 0..(2^w[2] - 1)
    /\ Longs \subseteq Uint \X Uint
    /\ \A b \in ByteArrays : b \in Seq(Byte) /\ Len(b) * ByteBits <= IntMax
    /\ \A s \in Strings : /\ s.bytes \in Seq(Byte) /\ Len(s.bytes) * ByteBits <= IntMax
                          /\ s.chars \in 0..Len(s.bytes)

VARIABLES calls,      \* the calls made on the writer, with what they wrote
          bits,       \* the bits in the writer's buffer
          measured,   \* m_bitsWritten of the MeasureStream
          phase, writerLang, readerLang,
          received,   \* how the reader's datagram came about
          reader,     \* the ReadStream, with the answer of its last call
          results,    \* what each call on the reader delivered
          outcome     \* "reading", "refused": Serialize() returned false, "threw"

streamVars == <<calls, bits, measured, phase, writerLang, readerLang, received, reader,
                results, outcome>>

-----------------------------------------------------------------------------
Init == /\ calls = << >> /\ bits = << >> /\ measured = 0 /\ phase = "write"
        /\ writerLang \in Lang /\ readerLang \in Lang
        /\ received = "whole" /\ reader = NewReader(<< >>)
        /\ results = << >> /\ outcome = "reading"

\* A writer's buffer has no more bits than an int can count.
Write(c) == /\ phase = "write" /\ Len(calls) < CallMax
            /\ Len(Encode(bits, c, writerLang)) <= IntMax
            /\ calls' = Append(calls, c)
            /\ bits' = Encode(bits, c, writerLang)
            /\ measured' = measured + Measure(c)
            /\ UNCHANGED <<phase, writerLang, readerLang, received, reader, results, outcome>>

WriteInt    == \E i \in Ints, op \in {"int", "enum"} :
                  /\ op = "enum" => i[2] = 0
                  /\ Write([op |-> op, value |-> <<i[1]>>, min |-> i[2], max |-> i[3]])
WriteWord   == \E w \in Words : Write([op |-> "bits", value |-> <<w[1]>>, size |-> w[2]])
WriteLong   == \E l \in Longs : Write([op |-> "uint64", value |-> l])
AlignWriter == Write([op |-> "align", value |-> << >>])
WriteArray  == \E b \in ByteArrays : Write([op |-> "bytes", value |-> b])

\* The two languages have different formats of a string, and no packet with one in common.
WriteString == /\ writerLang = readerLang
               /\ \E s \in Strings :
                     /\ writerLang = "cpp" => Len(s.bytes) < BufferSize - 1
                     /\ Write([op |-> "string", value |-> s.bytes, chars |-> s.chars])

\* Flush(), and GetBytesProcessed() bytes of the buffer: zeros fill the last byte.
Sent == bits \o [i \in 1..AlignBits(Len(bits)) |-> 0]

Deliver(d, how) == /\ phase = "write" /\ calls # << >>
                   /\ phase' = "read" /\ reader' = NewReader(d) /\ received' = how
                   /\ UNCHANGED <<calls, bits, measured, writerLang, readerLang, results, outcome>>

DeliverWhole   == Deliver(Sent, "whole")
DeliverShort   == \E n \in 0..(Len(Sent) \div ByteBits - 1) :
                     Deliver(SubSeq(Sent, 1, n * ByteBits), "short")
DeliverAltered == \E i \in DOMAIN Sent : Deliver([Sent EXCEPT ![i] = 1 - @], "altered")

CanRead == phase = "read" /\ outcome = "reading" /\ Len(results) < Len(calls)

\* The object that is refused is destroyed with what it holds.
ReadCpp ==
    LET r == DecodeCpp(reader, calls[Len(results) + 1]) IN
    /\ CanRead /\ readerLang = "cpp"
    /\ reader' = r
    /\ results' = IF r.ok THEN Append(results, [got |-> TRUE, value |-> r.value]) ELSE results
    /\ outcome' = IF r.ok THEN "reading" ELSE "refused"
    /\ UNCHANGED <<calls, bits, measured, phase, writerLang, readerLang, received>>

ReadCs ==
    LET r == DecodeCs(reader, calls[Len(results) + 1]) IN
    /\ CanRead /\ readerLang = "cs"
    /\ reader' = r
    /\ results' = IF r.threw THEN results ELSE Append(results, [got |-> r.ok, value |-> r.value])
    /\ outcome' = IF r.threw THEN "threw" ELSE "reading"
    /\ UNCHANGED <<calls, bits, measured, phase, writerLang, readerLang, received>>

Next == \/ WriteInt \/ WriteWord \/ WriteLong \/ AlignWriter \/ WriteArray \/ WriteString
        \/ DeliverWhole \/ DeliverShort \/ DeliverAltered
        \/ ReadCpp \/ ReadCs

Spec == Init /\ [][Next]_streamVars

-----------------------------------------------------------------------------
\* Properties.

Done == phase = "read" /\ (outcome # "reading" \/ Len(results) = Len(calls))

\* What a reader may expect of a call.
Expected(c) == IF c.op = "string" THEN SentBytes(c, writerLang) ELSE c.value

(* As long as a stream has noted no error, every call has delivered what the  *)
(* same call wrote, in either language, and nothing was refused: also from    *)
(* a datagram that is cut short.  Left out: the enumerator on the server,     *)
(* which serialize_enum never stores.                                         *)
AsWritten ==
    (received # "altered" /\ ~reader.error) =>
        /\ outcome = "reading"
        /\ \A i \in DOMAIN results :
              \/ calls[i].op = "enum" /\ readerLang = "cpp"
              \/ results[i] = [got |-> TRUE, value |-> Expected(calls[i])]

(* A reader that is through has GetError() set exactly if bytes were missing, *)
(* which is all a client has to go by; the server has refused the packet too. *)
ErrorMeansShort ==
    (Done /\ received # "altered") =>
        /\ reader.error <=> received = "short"
        /\ readerLang = "cpp" => (outcome = "refused" <=> received = "short")

(* The measure is never less than what is written, so that a buffer of that   *)
(* size has room, and exceeds it by no more than the padding not needed.      *)
MeasureBounds ==
    writerLang = "cpp" =>
        Len(bits) \in (measured - MeasureAlign * Cardinality({i \in DOMAIN calls :
                                        calls[i].op \in {"align", "bytes", "string"}}))..measured

(* The stream and the bit reader below it count the bits read separately, the *)
(* stream never more nor past the end.  Whatever arrives, altered or cut, they*)
(* are equal as long as every call has returned true: they part when a padding*)
(* that is not zero was read and not counted, and when the bit reader throws, *)
(* which alone takes its own count past the end, and not out of the last word.*)
CountsAgree ==
    LET end == Len(reader.data) IN
    /\ reader.bitsRead <= reader.pos /\ reader.bitsRead <= end
    /\ reader.pos <= end \/ (reader.threw /\ reader.pos <= end + ToWord(end))
    /\ (outcome = "reading" /\ \A i \in DOMAIN results : results[i].got)
           => reader.bitsRead = reader.pos
=============================================================================
