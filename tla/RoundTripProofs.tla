--------------------------- MODULE RoundTripProofs ---------------------------
(* What is written is read: by the streams, for packets of any calls in any   *)
(* ranges, in either language, over any datagram; and by Parse of what        *)
(* ToString prints, for any address.                                          *)
EXTENDS Streams, Address, StreamOpsProofs, FiniteSetTheorems

Result == [got : BOOLEAN, value : Seq(Int)]

(* The calls a writer can have made. *)
IntCalls(op) == {[op |-> op, value |-> <<i[1]>>, min |-> i[2], max |-> i[3]] : i \in Ints}
WordCalls   == {[op |-> "bits", value |-> <<w[1]>>, size |-> w[2]] : w \in Words}
LongCalls   == {[op |-> "uint64", value |-> l] : l \in Longs}
AlignCalls  == {[op |-> "align", value |-> << >>]}
ByteCalls   == {[op |-> "bytes", value |-> b] : b \in ByteArrays}
StringCalls == {[op |-> "string", value |-> s.bytes, chars |-> s.chars] : s \in Strings}
Calls == UNION {IntCalls("int"), IntCalls("enum"), WordCalls, LongCalls, AlignCalls, ByteCalls, StringCalls}

Allowed(c) == Legal(c, writerLang) /\ (c.op = "string" => writerLang = readerLang)

Succeeded == outcome = "reading" /\ \A i \in 1..Len(results) : results[i].got

StreamsType ==
    /\ calls \in Seq(Calls) /\ bits \in Seq(Bit) /\ results \in Seq(Result)
    /\ Len(bits) <= IntMax
    /\ writerLang \in Lang /\ readerLang \in Lang
    /\ received \in {"whole", "short", "altered"}
    /\ outcome \in {"reading", "refused", "threw"} /\ phase \in {"write", "read"}
    /\ InData(reader) /\ Len(results) <= Len(calls)
    /\ \A i \in 1..Len(calls) : Allowed(calls[i])
    /\ Succeeded => reader.bitsRead = reader.pos
    /\ phase = "write" => /\ received = "whole" /\ reader = NewReader(<< >>)
                          /\ results = << >> /\ outcome = "reading"

(* Where each call ended: what it wrote begins where the one before it stopped. *)
Marked(marks, cs, s, lang) ==
    /\ marks \in [0..Len(cs) -> Nat] /\ marks[0] = 0 /\ marks[Len(cs)] = Len(s)
    /\ \A i \in 1..Len(cs) : /\ marks[i] <= Len(s)
                             /\ Carries(s, marks[i - 1], cs[i], lang, marks[i])

(* The datagram is what was sent, or less of it than the calls have written. *)
Received == /\ BeginsLike(reader, Sent)
            /\ phase = "read" /\ received = "whole" => Len(reader.data) = Len(Sent)
            /\ received = "short" => Len(reader.data) < Len(bits)

Delivered(i) == \/ calls[i].op = "enum" /\ readerLang = "cpp"
                \/ results[i] = [got |-> TRUE, value |-> Expected(calls[i])]

(* A reader without an error is at the end of the calls it has answered, and  *)
(* has answered each with what was written; one with an error is short.       *)
InStep(marks) ==
    IF reader.error THEN received = "short" /\ (readerLang = "cpp" => outcome = "refused")
    ELSE /\ outcome = "reading" /\ ~reader.threw
         /\ reader.pos = marks[Len(results)] /\ reader.bitsRead = reader.pos
         /\ \A i \in 1..Len(results) : Delivered(i)

StreamsInv ==
    /\ StreamsType
    /\ \E marks : /\ Marked(marks, calls, bits, writerLang)
                  /\ received # "altered" => Received /\ InStep(marks)

Padded(cs) == {i \in DOMAIN cs : cs[i].op \in {"align", "bytes", "string"}}

Measured == writerLang = "cpp" =>
    /\ measured \in Int /\ Len(bits) <= measured
    /\ measured - MeasureAlign * Cardinality(Padded(calls)) <= Len(bits)

-----------------------------------------------------------------------------
\* Writing.

LEMMA AppendOK ==
    ASSUME NEW S, NEW s \in Seq(S), NEW e \in S
    PROVE  LET t == Append(s, e)
           IN /\ t \in Seq(S) /\ Len(t) = Len(s) + 1 /\ t[Len(s) + 1] = e
              /\ \A i \in 1..Len(s) : t[i] = s[i]
OBVIOUS

LEMMA CallsAreLegal ==
    ASSUME NEW c \in Calls, NEW lang \in Lang,
           c.op = "string" => (lang = "cpp" => Len(c.value) < BufferSize - 1)
    PROVE  Legal(c, lang)
<1>1. CASE \E op \in {"int", "enum"} : c \in IntCalls(op)
  <2>1. PICK i \in Ints, op \in {"int", "enum"} :
              c = [op |-> op, value |-> <<i[1]>>, min |-> i[2], max |-> i[3]]
    BY <1>1 DEF IntCalls
  <2>2. i[2] \in IntMin..IntMax /\ i[3] \in IntMin..IntMax /\ i[2] < i[3] /\ i[1] \in i[2]..i[3]
    BY StreamsAssumption
  <2>3. c.op \in {"int", "enum"} /\ c.value = <<i[1]>> /\ c.min = i[2] /\ c.max = i[3]
    BY <2>1
  <2>4. c.value[1] = i[1]
    BY <2>3
  <2> QED
    BY <2>2, <2>3, <2>4 DEF Legal
<1>2. CASE c \in WordCalls
  <2>1. PICK w \in Words : c = [op |-> "bits", value |-> <<w[1]>>, size |-> w[2]]
    BY <1>2 DEF WordCalls
  <2>2. w[2] \in 1..IntBits /\ w[1] \in 0..(2^w[2] - 1)
    BY StreamsAssumption
  <2>3. c.op = "bits" /\ c.value = <<w[1]>> /\ c.size = w[2]
    BY <2>1
  <2>4. c.value[1] = w[1]
    BY <2>3
  <2> QED
    BY <2>2, <2>3, <2>4 DEF Legal
<1>3. CASE c \in LongCalls
  <2>1. PICK l \in Longs : c = [op |-> "uint64", value |-> l]
    BY <1>3 DEF LongCalls
  <2>2. l \in Uint \X Uint
    BY StreamsAssumption
  <2>3. c.op = "uint64" /\ c.value = l
    BY <2>1
  <2>4. l[1] \in Uint /\ l[2] \in Uint /\ l = <<l[1], l[2]>>
    BY <2>2
  <2> QED
    BY <2>3, <2>4 DEF Legal
<1>4. CASE c \in AlignCalls
  BY <1>4 DEF AlignCalls, Legal
<1>5. CASE c \in ByteCalls
  BY <1>5, StreamsAssumption DEF ByteCalls, Legal
<1>6. CASE c \in StringCalls
  <2>1. PICK s \in Strings : c = [op |-> "string", value |-> s.bytes, chars |-> s.chars]
    BY <1>6 DEF StringCalls
  <2>2. /\ s.bytes \in Seq(Byte) /\ Len(s.bytes) * ByteBits <= IntMax /\ s.chars \in 0..Len(s.bytes)
    BY StreamsAssumption
  <2>3. c.op = "string" /\ c.value = s.bytes /\ c.chars = s.chars
    BY <2>1
  <2>4. lang = "cpp" => Len(c.value) <= BufferSize - 1
    BY <2>2, <2>3, Constants
  <2> QED
    BY <2>2, <2>3, <2>4 DEF Legal
<1> QED
  BY <1>1, <1>2, <1>3, <1>4, <1>5, <1>6 DEF Calls

Writes(c) == c \in Calls /\ Allowed(c) /\ Write(c)

LEMMA WritersWrite ==
    ASSUME StreamsType, WriteInt \/ WriteWord \/ WriteLong \/ AlignWriter \/ WriteArray \/ WriteString
    PROVE  \E c : Writes(c)
<1>0. writerLang \in Lang
  BY DEF StreamsType
<1>1. CASE WriteInt
  <2>1. PICK i \in Ints, op \in {"int", "enum"} :
           Write([op |-> op, value |-> <<i[1]>>, min |-> i[2], max |-> i[3]])
    BY <1>1 DEF WriteInt
  <2> DEFINE c == [op |-> op, value |-> <<i[1]>>, min |-> i[2], max |-> i[3]]
  <2>a. c.op # "string"
    <3>1. c.op = op
      OBVIOUS
    <3> HIDE DEF c
    <3> QED
      BY <3>1
  <2>2. c \in IntCalls(op)
    BY DEF IntCalls
  <2>3. Write(c)
    BY <2>1
  <2> HIDE DEF c
  <2>4. c \in Calls
    BY <2>2 DEF Calls
  <2> QED
    BY <1>0, <2>a, <2>2, <2>3, <2>4, CallsAreLegal DEF Writes, Allowed
<1>2. CASE WriteWord
  <2>1. PICK w \in Words : Write([op |-> "bits", value |-> <<w[1]>>, size |-> w[2]])
    BY <1>2 DEF WriteWord
  <2> DEFINE c == [op |-> "bits", value |-> <<w[1]>>, size |-> w[2]]
  <2>2. c \in WordCalls /\ c.op # "string"
    BY DEF WordCalls
  <2>3. Write(c)
    BY <2>1
  <2> HIDE DEF c
  <2>4. c \in Calls
    BY <2>2 DEF Calls
  <2> QED
    BY <1>0, <2>2, <2>3, <2>4, CallsAreLegal DEF Writes, Allowed
<1>3. CASE WriteLong
  <2>1. PICK l \in Longs : Write([op |-> "uint64", value |-> l])
    BY <1>3 DEF WriteLong
  <2> DEFINE c == [op |-> "uint64", value |-> l]
  <2>2. c \in LongCalls /\ c.op # "string"
    BY DEF LongCalls
  <2>3. Write(c)
    BY <2>1
  <2> HIDE DEF c
  <2>4. c \in Calls
    BY <2>2 DEF Calls
  <2> QED
    BY <1>0, <2>2, <2>3, <2>4, CallsAreLegal DEF Writes, Allowed
<1>4. CASE AlignWriter
  <2> DEFINE c == [op |-> "align", value |-> << >>]
  <2>2. c \in AlignCalls /\ c.op # "string"
    BY DEF AlignCalls
  <2>3. Write(c)
    BY <1>4 DEF AlignWriter
  <2> HIDE DEF c
  <2>4. c \in Calls
    BY <2>2 DEF Calls
  <2> QED
    BY <1>0, <2>2, <2>3, <2>4, CallsAreLegal DEF Writes, Allowed
<1>5. CASE WriteArray
  <2>1. PICK b \in ByteArrays : Write([op |-> "bytes", value |-> b])
    BY <1>5 DEF WriteArray
  <2> DEFINE c == [op |-> "bytes", value |-> b]
  <2>2. c \in ByteCalls /\ c.op # "string"
    BY DEF ByteCalls
  <2>3. Write(c)
    BY <2>1
  <2> HIDE DEF c
  <2>4. c \in Calls
    BY <2>2 DEF Calls
  <2> QED
    BY <1>0, <2>2, <2>3, <2>4, CallsAreLegal DEF Writes, Allowed
<1>6. CASE WriteString
  <2>1. PICK s \in Strings :
           /\ writerLang = readerLang
           /\ writerLang = "cpp" => Len(s.bytes) < BufferSize - 1
           /\ Write([op |-> "string", value |-> s.bytes, chars |-> s.chars])
    BY <1>6 DEF WriteString
  <2> DEFINE c == [op |-> "string", value |-> s.bytes, chars |-> s.chars]
  <2>2. c \in StringCalls /\ c.value = s.bytes
    BY DEF StringCalls
  <2>3. /\ writerLang = readerLang /\ Write(c)
        /\ writerLang = "cpp" => Len(c.value) < BufferSize - 1
    BY <2>1, <2>2
  <2> HIDE DEF c
  <2>4. c \in Calls
    BY <2>2 DEF Calls
  <2> QED
    BY <1>0, <2>2, <2>3, <2>4, CallsAreLegal DEF Writes, Allowed
<1> QED
  BY <1>1, <1>2, <1>3, <1>4, <1>5, <1>6

LEMMA MarkedAppend ==
    ASSUME NEW cs \in Seq(Calls), NEW c \in Calls, NEW s \in Seq(Bit), NEW lang \in Lang,
           \A i \in 1..Len(cs) : Legal(cs[i], lang), Legal(c, lang),
           NEW marks, Marked(marks, cs, s, lang)
    PROVE  LET t == Encode(s, c, lang)
           IN /\ Extended(t, s) /\ Carries(t, Len(s), c, lang, Len(t))
              /\ \E m : Marked(m, Append(cs, c), t, lang)
<1> DEFINE t  == Encode(s, c, lang)
           ds == Append(cs, c)
           n  == Len(cs)
           m  == [i \in 0..Len(ds) |-> IF i <= n THEN marks[i] ELSE Len(t)]
<1>1. Extended(t, s) /\ Carries(t, Len(s), c, lang, Len(t))
  BY EncodeOK
<1> HIDE DEF t
<1>2. t \in Seq(Bit) /\ Len(s) <= Len(t) /\ Len(s) \in Nat /\ Len(t) \in Nat
  BY <1>1 DEF Extended
<1>3. n \in Nat /\ Len(ds) = n + 1 /\ ds[n + 1] = c /\ \A i \in 1..n : ds[i] = cs[i]
  BY AppendOK
<1> HIDE DEF n, ds
<1>4. /\ marks \in [0..n -> Nat] /\ marks[0] = 0 /\ marks[n] = Len(s)
      /\ \A i \in 1..n : marks[i] <= Len(s) /\ Carries(s, marks[i - 1], cs[i], lang, marks[i])
  BY DEF Marked, n
<1>5. m \in [0..Len(ds) -> Nat]
  BY <1>2, <1>3, <1>4
<1>6. (\A i \in 0..n : m[i] = marks[i]) /\ m[n + 1] = Len(t)
  BY <1>3
<1> HIDE DEF m
<1>7. m[0] = 0 /\ m[Len(ds)] = Len(t) /\ m[n] = Len(s)
  BY <1>3, <1>4, <1>6
<1>8. ASSUME NEW i \in 1..Len(ds)
      PROVE  m[i] <= Len(t) /\ Carries(t, m[i - 1], ds[i], lang, m[i])
  <2>1. CASE i \in 1..n
    <3>1. i \in 0..n /\ i - 1 \in 0..n
      BY <1>3, <2>1
    <3>2. m[i] = marks[i] /\ m[i - 1] = marks[i - 1] /\ ds[i] = cs[i]
      BY <1>3, <1>6, <2>1, <3>1
    <3>3. marks[i] \in Nat /\ marks[i - 1] \in Nat
      BY <1>4, <3>1
    <3>4. marks[i] <= Len(s) /\ Carries(s, marks[i - 1], cs[i], lang, marks[i])
      BY <1>4, <2>1
    <3>5. Legal(cs[i], lang)
      BY <2>1 DEF n
    <3>6. Carries(t, marks[i - 1], cs[i], lang, marks[i])
      BY <1>1, <3>3, <3>4, <3>5, CarriesStays, ExtendedAlike
    <3> QED
      BY <1>2, <3>2, <3>3, <3>4, <3>6
  <2>2. CASE i = n + 1
    <3>1. i - 1 = n
      BY <1>3, <2>2
    <3> QED
      BY <1>1, <1>2, <1>3, <1>6, <1>7, <2>2, <3>1
  <2> QED
    BY <1>3, <2>1, <2>2
<1>9. Marked(m, ds, t, lang)
  BY <1>5, <1>7, <1>8 DEF Marked
<1> QED
  BY <1>1, <1>9 DEF t, ds

LEMMA PaddedAppend ==
    ASSUME NEW cs \in Seq(Calls), NEW c \in Calls
    PROVE  /\ Cardinality(Padded(cs)) \in Nat
           /\ Cardinality(Padded(Append(cs, c))) = Cardinality(Padded(cs))
                  + (IF c.op \in {"align", "bytes", "string"} THEN 1 ELSE 0)
<1> DEFINE ds == Append(cs, c)
           n  == Len(cs)
           P  == Padded(cs)
<1>1. n \in Nat /\ Len(ds) = n + 1 /\ ds[n + 1] = c /\ (\A i \in 1..n : ds[i] = cs[i])
      /\ DOMAIN cs = 1..n /\ DOMAIN ds = 1..Len(ds)
  BY AppendOK
<1>2. P \subseteq 1..n
  BY <1>1 DEF Padded
<1>3. IsFiniteSet(1..n)
  BY <1>1, FS_Interval
<1>4. IsFiniteSet(P) /\ Cardinality(P) \in Nat
  BY <1>2, <1>3, FS_Subset, FS_CardinalityType
<1>5. n + 1 \notin P
  BY <1>1, <1>2
<1> HIDE DEF ds, n
<1>6. Padded(ds) = IF c.op \in {"align", "bytes", "string"} THEN P \cup {n + 1} ELSE P
  BY <1>1 DEF Padded
<1> HIDE DEF P
<1>7. Cardinality(P \cup {n + 1}) = Cardinality(P) + 1
  BY <1>4, <1>5, FS_AddElement
<1> QED
  BY <1>4, <1>6, <1>7 DEF P, ds

(* Writing keeps the invariant, and the measure with what is written. *)
LEMMA WritingKeeps ==
    ASSUME StreamsInv, NEW c, Writes(c)
    PROVE  StreamsInv' /\ (Measured => Measured')
<1> DEFINE t == Encode(bits, c, writerLang)
           n == Len(calls)
<1>1. /\ calls \in Seq(Calls) /\ bits \in Seq(Bit) /\ results \in Seq(Result) /\ writerLang \in Lang
      /\ readerLang \in Lang /\ phase = "write" /\ received = "whole" /\ reader = NewReader(<< >>)
      /\ results = << >> /\ outcome = "reading" /\ InData(reader) /\ Len(results) <= n
      /\ \A i \in 1..n : Allowed(calls[i])
  BY DEF StreamsInv, StreamsType, Writes, Write
<1>2. /\ c \in Calls /\ Allowed(c) /\ Legal(c, writerLang) /\ calls' = Append(calls, c) /\ bits' = t
      /\ measured' = measured + Measure(c) /\ phase' = phase /\ writerLang' = writerLang
      /\ readerLang' = readerLang /\ received' = received /\ reader' = reader
      /\ results' = results /\ outcome' = outcome /\ Len(bits') <= IntMax
  BY DEF Writes, Write, Allowed
<1>3. PICK marks : Marked(marks, calls, bits, writerLang)
  BY DEF StreamsInv
<1>4. \A i \in 1..n : Legal(calls[i], writerLang)
  BY <1>1 DEF Allowed
<1>5. /\ Extended(t, bits) /\ Carries(t, Len(bits), c, writerLang, Len(t))
      /\ \E m : Marked(m, Append(calls, c), t, writerLang)
  BY <1>1, <1>2, <1>3, <1>4, MarkedAppend
<1> HIDE DEF t
<1>6. PICK m : Marked(m, calls', bits', writerLang')
  BY <1>2, <1>5
<1>7. bits' \in Seq(Bit) /\ Len(bits) \in Nat /\ Len(t) \in Nat /\ Len(bits) <= Len(t)
  BY <1>1, <1>2, <1>5 DEF Extended
<1>8. calls' \in Seq(Calls) /\ Len(calls') = n + 1 /\ n \in Nat /\ calls'[n + 1] = c
      /\ \A i \in 1..n : calls'[i] = calls[i]
  BY <1>1, <1>2, AppendOK
<1>9. StreamsType'
  <2>1. ASSUME NEW i \in 1..Len(calls')
        PROVE  /\ Legal(calls'[i], writerLang')
               /\ calls'[i].op = "string" => writerLang' = readerLang'
    <3>1. Allowed(calls'[i])
      BY <1>1, <1>2, <1>8
    <3> QED
      BY <1>2, <3>1 DEF Allowed
  <2>2. Len(results') <= Len(calls')
    BY <1>1, <1>2, <1>8
  <2>3. Succeeded' => reader'.bitsRead = reader'.pos
    <3>1. Succeeded => reader.bitsRead = reader.pos
      BY DEF StreamsInv, StreamsType
    <3> QED
      BY <1>2, <3>1 DEF Succeeded
  <2> QED
    BY <1>1, <1>2, <1>7, <1>8, <2>1, <2>2, <2>3 DEF StreamsType, Allowed
<1>10. Received' /\ InStep(m)'
  <2>1. /\ reader'.data = << >> /\ reader'.pos = 0 /\ reader'.bitsRead = 0
        /\ ~reader'.error /\ ~reader'.threw
    <3>1. << >> \in Seq(Bit)
      OBVIOUS
    <3>2. LET r == NewReader(<< >>)
          IN r.data = << >> /\ r.pos = 0 /\ r.bitsRead = 0 /\ ~r.error /\ ~r.threw
      BY <3>1, NewReaderOK
    <3> QED
      BY <1>1, <1>2, <3>2
  <2>2. Len(reader'.data) = 0 /\ Len(results') = 0
    BY <1>1, <1>2, <2>1
  <2>3. Sent' = WriteAlign(t)
    BY <1>2 DEF Sent, WriteAlign
  <2>4. Sent' \in Seq(Bit) /\ Len(Sent') \in Nat
    BY <1>2, <1>7, <2>3, WriteAlignOK DEF Extended
  <2>5. Received'
    BY <1>1, <1>2, <2>2, <2>4 DEF Received, BeginsLike
  <2>6. m[0] = 0
    BY <1>6 DEF Marked
  <2> QED
    BY <1>1, <1>2, <2>1, <2>2, <2>5, <2>6 DEF InStep
<1>11. StreamsInv'
  BY <1>6, <1>9, <1>10 DEF StreamsInv
<1>12. ASSUME Measured PROVE Measured'
  <2> SUFFICES ASSUME writerLang = "cpp"
               PROVE  /\ measured' \in Int /\ Len(bits') <= measured'
                      /\ measured' - MeasureAlign * Cardinality(Padded(calls')) <= Len(bits')
    BY <1>2 DEF Measured
  <2> DEFINE k  == Cardinality(Padded(calls))
             k1 == Cardinality(Padded(calls'))
             a  == MeasureAlign
             from == Len(bits)
             to == Len(t)
             size == Measure(c)
  <2>1. measured \in Int /\ from <= measured /\ measured - a * k <= from
    BY <1>12 DEF Measured
  <2>2. /\ size \in Nat /\ to - from <= size
        /\ c.op \in {"align", "bytes", "string"} => size - a <= to - from
        /\ c.op \notin {"align", "bytes", "string"} => size = to - from
    <3> DEFINE lang == writerLang
    <3>1. /\ t \in Seq(Bit) /\ from \in Nat /\ lang \in Lang /\ Legal(c, lang)
          /\ Carries(t, from, c, lang, to) /\ lang = "cpp"
      BY <1>1, <1>2, <1>5, <1>7
    <3>2. Alike(t, t, 0)
      BY <3>1 DEF Alike
    <3> HIDE DEF from, to, lang
    <3>3. lang = "cpp" => Measures(c, from, to)
      <4>1. 0 \in Nat /\ 0 <= from
        BY <3>1
      <4> QED
        BY <3>1, <3>2, <4>1, CarriesStays
    <3> QED
      BY <3>1, <3>3 DEF size, Measures
  <2>3. /\ k \in Nat
        /\ k1 = k + (IF c.op \in {"align", "bytes", "string"} THEN 1 ELSE 0)
    BY <1>1, <1>2, PaddedAppend
  <2>4. a \in Nat
    BY Constants DEF MeasureAlign
  <2>5. measured' = measured + size /\ Len(bits') = to
    BY <1>2
  <2>6. from \in Nat /\ to \in Nat
    BY <1>7
  <2> HIDE DEF k, k1, a, from, to, size
  <2>7. a * k \in Nat /\ a * (k + 1) = a * k + a
    BY <2>3, <2>4
  <2> DEFINE p == a * k
             p1 == a * k1
  <2>8. p \in Nat /\ p1 = IF c.op \in {"align", "bytes", "string"} THEN p + a ELSE p
    BY <2>3, <2>7
  <2>9. measured - p <= from
    BY <2>1
  <2> HIDE DEF p, p1
  <2>10. measured' \in Int /\ to <= measured' /\ measured' - p1 <= to
    BY <2>1, <2>2, <2>4, <2>5, <2>6, <2>8, <2>9
  <2> QED
    BY <2>5, <2>10 DEF p1, a, k1
<1> QED
  BY <1>11, <1>12

-----------------------------------------------------------------------------
\* The datagram.

LEMMA SentOK ==
    ASSUME bits \in Seq(Bit)
    PROVE  /\ Sent \in Seq(Bit) /\ Extended(Sent, bits) /\ Len(bits) \in Nat /\ Len(Sent) \in Nat
           /\ Len(Sent) = Len(bits) + AlignBits(Len(bits))
<1>1. Sent = WriteAlign(bits)
  BY DEF Sent, WriteAlign
<1>2. Extended(Sent, bits) /\ Len(Sent) = Len(bits) + AlignBits(Len(bits))
  BY <1>1, WriteAlignOK
<1>3. Sent \in Seq(Bit)
  BY <1>2 DEF Extended
<1> QED
  BY <1>2, <1>3

LEMMA DeliveryKeeps ==
    ASSUME StreamsInv, NEW d \in Seq(Bit), NEW how \in {"whole", "short", "altered"}, Deliver(d, how),
           how # "altered" => /\ Len(d) <= Len(Sent) /\ \A i \in 1..Len(d) : d[i] = Sent[i]
                              /\ how = "whole" => Len(d) = Len(Sent)
                              /\ how = "short" => Len(d) < Len(bits)
    PROVE  StreamsInv' /\ (Measured => Measured')
<1>1. /\ calls \in Seq(Calls) /\ bits \in Seq(Bit) /\ results \in Seq(Result) /\ writerLang \in Lang
      /\ readerLang \in Lang /\ results = << >> /\ outcome = "reading" /\ Len(bits) <= IntMax
      /\ \A i \in 1..Len(calls) : Allowed(calls[i])
  BY DEF StreamsInv, StreamsType, Deliver
<1>2. /\ calls' = calls /\ bits' = bits /\ measured' = measured /\ writerLang' = writerLang
      /\ readerLang' = readerLang /\ results' = results /\ outcome' = outcome
      /\ phase' = "read" /\ received' = how /\ reader' = NewReader(d)
  BY DEF Deliver
<1>3. /\ InData(reader') /\ reader'.data = d /\ reader'.pos = 0 /\ reader'.bitsRead = 0
      /\ ~reader'.error /\ ~reader'.threw
  <2>1. LET r == NewReader(d)
        IN /\ InData(r) /\ r.data = d /\ r.pos = 0 /\ r.bitsRead = 0 /\ ~r.error /\ ~r.threw
    BY NewReaderOK
  <2> QED
    BY <1>2, <2>1
<1>4. Len(results) = 0 /\ Len(calls) \in Nat
  BY <1>1
<1>5. StreamsType'
  <2>1. ASSUME NEW i \in 1..Len(calls')
        PROVE  /\ Legal(calls'[i], writerLang')
               /\ calls'[i].op = "string" => writerLang' = readerLang'
    BY <1>1, <1>2 DEF Allowed
  <2> QED
    BY <1>1, <1>2, <1>3, <1>4, <2>1 DEF StreamsType, Allowed
<1>6. PICK marks : Marked(marks, calls, bits, writerLang)
  BY DEF StreamsInv
<1>7. Marked(marks, calls', bits', writerLang')
  BY <1>2, <1>6
<1>8. received' # "altered" => Received' /\ InStep(marks)'
  <2> SUFFICES ASSUME how # "altered" PROVE Received' /\ InStep(marks)'
    BY <1>2
  <2>1. Sent' = Sent
    BY <1>2 DEF Sent
  <2>2. Received'
    BY <1>2, <1>3, <2>1 DEF Received, BeginsLike
  <2>3. marks[0] = 0
    BY <1>6 DEF Marked
  <2> QED
    BY <1>1, <1>2, <1>3, <1>4, <2>2, <2>3 DEF InStep
<1>9. Measured => Measured'
  BY <1>2 DEF Measured
<1> QED
  BY <1>5, <1>7, <1>8, <1>9 DEF StreamsInv

LEMMA DeliveriesKeep ==
    ASSUME StreamsInv, DeliverWhole \/ DeliverShort \/ DeliverAltered
    PROVE  StreamsInv' /\ (Measured => Measured')
<1>1. /\ Sent \in Seq(Bit) /\ Extended(Sent, bits) /\ Len(bits) \in Nat /\ Len(Sent) \in Nat
      /\ Len(Sent) = Len(bits) + AlignBits(Len(bits))
  <2>1. bits \in Seq(Bit)
    BY DEF StreamsInv, StreamsType
  <2> QED
    BY <2>1, SentOK
<1>2. CASE DeliverWhole
  <2>1. Deliver(Sent, "whole")
    BY <1>2 DEF DeliverWhole
  <2> QED
    BY <1>1, <2>1, DeliveryKeeps
<1>3. CASE DeliverShort
  <2>1. PICK n \in 0..(Len(Sent) \div ByteBits - 1) : Deliver(SubSeq(Sent, 1, n * ByteBits), "short")
    BY <1>3 DEF DeliverShort
  <2> DEFINE s == Sent
             b == ByteBits
             q == Len(Sent) \div ByteBits
             m == n * ByteBits
             d == SubSeq(s, 1, m)
  <2>2. b \in Nat \ {0} /\ AlignBits(Len(bits)) \in 0..(b - 1)
    BY <1>1, AlignRange, Constants
  <2>3. q \in Int /\ Len(s) % b \in 0..(b - 1) /\ Len(s) = q * b + (Len(s) % b)
    <3>1. Len(s) \in Int /\ Len(s) >= 0 /\ b \in Nat \ {0}
      BY <1>1, <2>2
    <3> DEFINE x == Len(s)
    <3>2. x \in Int /\ b \in Nat \ {0}
      BY <3>1
    <3> HIDE DEF x, b
    <3>3. x \div b \in Int /\ x % b \in 0..(b - 1) /\ x = (x \div b) * b + (x % b)
      BY <3>2, Quotient
    <3> QED
      BY <3>3 DEF x, b
  <2>4. n \in Nat /\ q \in Nat /\ n < q
    BY <2>1, <2>3
  <2>5. m \in Nat /\ q * b \in Nat /\ m + b <= q * b
    BY <2>2, <2>4, Multiples
  <2> DEFINE e == q * b
             rest == Len(s) % b
  <2>6a. s \in Seq(Bit) /\ Len(s) = Len(bits) + AlignBits(Len(bits))
    BY <1>1
  <2>6b. e \in Nat /\ m + b <= e
    BY <2>5
  <2>6c. rest \in 0..(b - 1) /\ Len(s) = e + rest
    <3> HIDE DEF q, b, s
    <3>1. rest = Len(s) % b /\ e = q * b
      OBVIOUS
    <3> HIDE DEF rest, e
    <3> QED
      BY <2>3, <3>1
  <2>6. e \in Nat /\ m + b <= e /\ rest \in 0..(b - 1) /\ Len(s) = e + rest /\ s \in Seq(Bit)
        /\ Len(s) = Len(bits) + AlignBits(Len(bits))
    BY <2>6a, <2>6b, <2>6c
  <2>7. Deliver(d, "short")
    BY <2>1
  <2> HIDE DEF e, rest, m, b, q, s
  <2>8. m \in 0..Len(s) /\ m < Len(bits)
    BY <1>1, <2>2, <2>5, <2>6
  <2>9. d \in Seq(Bit) /\ Len(d) = m /\ \A i \in 1..m : d[i] = s[i]
    BY <2>6, <2>8
  <2> HIDE DEF d
  <2>10. /\ Len(d) <= Len(Sent) /\ \A i \in 1..Len(d) : d[i] = Sent[i]
         /\ Len(d) < Len(bits)
    BY <2>8, <2>9 DEF s
  <2> QED
    BY <2>7, <2>9, <2>10, DeliveryKeeps
<1>4. CASE DeliverAltered
  <2>1. PICK i \in DOMAIN Sent : Deliver([Sent EXCEPT ![i] = 1 - @], "altered")
    BY <1>4 DEF DeliverAltered
  <2> DEFINE s == Sent
             d == [s EXCEPT ![i] = 1 - @]
  <2>2. s \in Seq(Bit) /\ i \in DOMAIN s
    BY <1>1
  <2>3. Deliver(d, "altered")
    BY <2>1
  <2> HIDE DEF s
  <2>4. s[i] \in Bit
    BY <2>2
  <2>5. 1 - s[i] \in Bit
    BY <2>4 DEF Bit
  <2>6. d \in Seq(Bit)
    BY <2>2, <2>5
  <2> HIDE DEF d
  <2> QED
    BY <2>3, <2>6, DeliveryKeeps
<1> QED
  BY <1>2, <1>3, <1>4

-----------------------------------------------------------------------------
\* Reading.

(* A reader in step stands before what the call it makes next has written. *)
LEMMA NextCall ==
    ASSUME StreamsType, CanRead, NEW marks, Marked(marks, calls, bits, writerLang), Received,
           reader.pos = marks[Len(results)]
    PROVE  LET c  == calls[Len(results) + 1]
               to == marks[Len(results) + 1]
           IN /\ to \in Nat /\ reader.pos <= to /\ to <= Len(bits)
              /\ BeginsLike(reader, Sent) /\ Carries(Sent, reader.pos, c, writerLang, to)
              /\ received = "whole" => to <= Len(reader.data)
<1> DEFINE k  == Len(results)
           c  == calls[k + 1]
           to == marks[k + 1]
<1>1. /\ k \in Nat /\ Len(calls) \in Nat /\ k + 1 \in 1..Len(calls) /\ (k + 1) - 1 = k
      /\ bits \in Seq(Bit) /\ writerLang \in Lang /\ phase = "read"
  <2>1. k \in Nat /\ Len(calls) \in Nat
    BY DEF StreamsType
  <2>2. k < Len(calls) /\ phase = "read"
    BY DEF CanRead
  <2> QED
    BY <2>1, <2>2 DEF StreamsType
<1>2. Legal(c, writerLang)
  BY <1>1 DEF StreamsType, Allowed
<1>3. /\ to \in Nat /\ marks[k] \in Nat /\ to <= Len(bits)
      /\ Carries(bits, marks[k], c, writerLang, to)
  <2>1. marks \in [0..Len(calls) -> Nat]
    BY DEF Marked
  <2>2. k \in 0..Len(calls) /\ k + 1 \in 0..Len(calls)
    BY <1>1
  <2>3. marks[k + 1] <= Len(bits) /\ Carries(bits, marks[(k + 1) - 1], calls[k + 1], writerLang, marks[k + 1])
    BY <1>1 DEF Marked
  <2> QED
    BY <1>1, <2>1, <2>2, <2>3
<1>4. /\ Extended(Sent, bits) /\ Len(bits) \in Nat /\ Len(Sent) \in Nat /\ Len(bits) <= Len(Sent)
  BY <1>1, SentOK DEF Extended
<1> DEFINE from == marks[k]
<1> HIDE DEF c, to, from
<1>5. from \in Nat /\ to <= Len(bits) /\ Carries(bits, from, c, writerLang, to) /\ to \in Nat
  BY <1>3 DEF from
<1>6. from <= to /\ Carries(Sent, from, c, writerLang, to)
  <2>1. Alike(Sent, bits, 0) /\ 0 \in Nat /\ 0 <= from
    BY <1>4, <1>5, ExtendedAlike
  <2> QED
    BY <1>1, <1>2, <1>4, <1>5, <2>1, CarriesStays
<1>7. reader.pos = from
  BY DEF from
<1>8. received = "whole" => to <= Len(reader.data)
  BY <1>1, <1>4, <1>5 DEF Received
<1> QED
  BY <1>5, <1>6, <1>7, <1>8 DEF Received, c, to

LEMMA ReadCppKeeps ==
    ASSUME StreamsInv, ReadCpp
    PROVE  StreamsInv' /\ (Measured => Measured')
<1> DEFINE k == Len(results)
           c == calls[k + 1]
           q == DecodeCpp(reader, c)
           ok == [got |-> TRUE, value |-> q.value]
<1>1. /\ calls \in Seq(Calls) /\ bits \in Seq(Bit) /\ results \in Seq(Result) /\ writerLang \in Lang
      /\ readerLang \in Lang
      /\ InData(reader) /\ k \in Nat /\ Len(calls) \in Nat /\ received \in {"whole", "short", "altered"}
      /\ Len(bits) <= IntMax /\ (Succeeded => reader.bitsRead = reader.pos)
      /\ \A i \in 1..Len(calls) : Allowed(calls[i])
  BY DEF StreamsInv, StreamsType
<1>2. /\ CanRead /\ readerLang = "cpp" /\ phase = "read" /\ outcome = "reading" /\ k < Len(calls)
      /\ calls' = calls /\ bits' = bits /\ measured' = measured /\ writerLang' = writerLang
      /\ readerLang' = readerLang /\ phase' = phase /\ received' = received /\ reader' = q
      /\ results' = IF q.ok THEN Append(results, ok) ELSE results
      /\ outcome' = IF q.ok THEN "reading" ELSE "refused"
  BY DEF ReadCpp, CanRead
<1>3. PICK marks : /\ Marked(marks, calls, bits, writerLang)
                   /\ received # "altered" => Received /\ InStep(marks)
  BY DEF StreamsInv
<1>4. Legal(c, writerLang) /\ (c.op = "string" => writerLang = "cpp")
  <2>1. k + 1 \in 1..Len(calls)
    BY <1>1, <1>2
  <2> QED
    BY <1>1, <1>2, <2>1 DEF Allowed
<1>5. /\ Stepped(reader, q)
      /\ \A d : \A to \in Nat :
            BeginsLike(reader, d) /\ Carries(d, reader.pos, c, writerLang, to) /\ to <= IntMax
            => Answered(reader, q, to, IF c.op = "enum" THEN << >> ELSE c.value)
  BY <1>1, <1>4, DecodeCppOK
<1> HIDE DEF q
<1>6. InData(q) /\ q.data = reader.data /\ q.value \in Seq(Int) /\ q.ok \in BOOLEAN
  BY <1>5 DEF Stepped, InData, ReaderType
<1>7. ok \in Result
  BY <1>6 DEF Result
<1>8. q.ok => /\ results' \in Seq(Result) /\ Len(results') = k + 1 /\ results'[k + 1] = ok
              /\ \A i \in 1..k : results'[i] = results[i]
  BY <1>1, <1>2, <1>7, AppendOK
<1>9. StreamsType'
  <2>1. ASSUME NEW i \in 1..Len(calls')
        PROVE  /\ Legal(calls'[i], writerLang')
               /\ calls'[i].op = "string" => writerLang' = readerLang'
    BY <1>1, <1>2 DEF Allowed
  <2>2. results' \in Seq(Result) /\ Len(results') <= Len(calls')
    BY <1>1, <1>2, <1>8
  <2>3. outcome' \in {"reading", "refused", "threw"}
    BY <1>2
  <2>4. Succeeded' => reader'.bitsRead = reader'.pos
    <3> SUFFICES ASSUME Succeeded' PROVE q.bitsRead = q.pos
      BY <1>2
    <3>1. q.ok
      BY <1>2 DEF Succeeded
    <3>2. \A i \in 1..k : results[i].got
      <4> SUFFICES ASSUME NEW i \in 1..k PROVE results[i].got
        OBVIOUS
      <4>1. i \in 1..Len(results') /\ results'[i] = results[i]
        BY <1>1, <1>8, <3>1
      <4> QED
        BY <4>1 DEF Succeeded
    <3>3. reader.bitsRead = reader.pos
      BY <1>1, <1>2, <3>2 DEF Succeeded
    <3> QED
      BY <1>5, <3>1, <3>3 DEF Stepped
  <2> QED
    BY <1>1, <1>2, <1>6, <2>1, <2>2, <2>3, <2>4 DEF StreamsType, Allowed
<1>10. ASSUME received # "altered" PROVE Received' /\ InStep(marks)'
  <2>1. Received /\ InStep(marks)
    BY <1>3, <1>10
  <2>2. ~reader.error
    BY <1>2, <2>1 DEF InStep
  <2>3. /\ ~reader.threw /\ reader.pos = marks[k] /\ reader.bitsRead = reader.pos
        /\ \A i \in 1..k : Delivered(i)
    BY <2>1, <2>2 DEF InStep
  <2> DEFINE to == marks[k + 1]
  <2>4. /\ to \in Nat /\ reader.pos <= to /\ to <= Len(bits)
        /\ BeginsLike(reader, Sent) /\ Carries(Sent, reader.pos, c, writerLang, to)
        /\ received = "whole" => to <= Len(reader.data)
    <3>1. StreamsType
      BY DEF StreamsInv
    <3> QED
      BY <1>2, <1>3, <2>1, <2>3, <3>1, NextCall
  <2>5. Answered(reader, q, to, IF c.op = "enum" THEN << >> ELSE c.value)
    <3>1. to <= IntMax
      <4>1. Len(bits) \in Nat /\ IntMax \in Nat
        BY <1>1, IntRange
      <4> QED
        BY <1>1, <2>4, <4>1
    <3> QED
      BY <1>5, <2>4, <3>1
  <2>6. Received'
    <3>1. Sent' = Sent
      BY <1>2 DEF Sent
    <3> QED
      BY <1>2, <1>6, <2>1, <3>1 DEF Received, BeginsLike
  <2>7. CASE to <= Len(reader.data)
    <3>1. Gave(reader, q, to, IF c.op = "enum" THEN << >> ELSE c.value)
      BY <2>5, <2>7 DEF Answered
    <3>2. /\ q.ok /\ q.pos = to /\ q.bitsRead = reader.bitsRead + (to - reader.pos)
          /\ ~q.error /\ ~q.threw /\ (c.op # "enum" => q.value = c.value)
      BY <2>2, <2>3, <3>1 DEF Gave
    <3>3. q.bitsRead = to
      <4>1. reader.pos \in Nat
        BY <1>1 DEF InData, ReaderType
      <4> QED
        BY <2>3, <2>4, <3>2, <4>1
    <3>4. ASSUME NEW i \in 1..Len(results') PROVE Delivered(i)'
      <4>1. CASE i \in 1..k
        <5>1. Delivered(i) /\ results'[i] = results[i]
          BY <1>8, <2>3, <3>2, <4>1
        <5> QED
          BY <1>2, <5>1 DEF Delivered, Expected
      <4>2. CASE i = k + 1
        <5>1. results'[i] = ok /\ calls'[i] = c
          BY <1>2, <1>8, <3>2, <4>2
        <5>2. c.op # "enum" => ok = [got |-> TRUE, value |-> c.value]
          BY <3>2
        <5>3. c.op = "string" => SentBytes(c, writerLang) = c.value
          BY <1>4 DEF SentBytes
        <5>4. CASE c.op = "enum"
          BY <1>2, <5>1, <5>4 DEF Delivered
        <5>5. CASE c.op # "enum"
          <6>1. results'[i] = [got |-> TRUE, value |-> c.value]
            BY <5>1, <5>2, <5>5
          <6>2. Expected(calls[i])' = c.value
            BY <1>2, <5>1, <5>3 DEF Expected
          <6> QED
            BY <6>1, <6>2 DEF Delivered
        <5> QED
          BY <5>4, <5>5
      <4> QED
        BY <1>1, <1>8, <3>2, <4>1, <4>2
    <3>5. outcome' = "reading" /\ Len(results') = k + 1
      BY <1>2, <1>8, <3>2
    <3> QED
      BY <1>2, <2>6, <3>2, <3>3, <3>4, <3>5 DEF InStep
  <2>8. CASE ~(to <= Len(reader.data))
    <3>1. ~q.ok /\ q.error
      BY <2>5, <2>8 DEF Answered, Ended
    <3>2. received = "short"
      BY <1>1, <1>10, <2>4, <2>8
    <3> QED
      BY <1>2, <2>6, <3>1, <3>2 DEF InStep
  <2> QED
    BY <2>7, <2>8
<1>11. Marked(marks, calls', bits', writerLang')
  BY <1>2, <1>3
<1>12. Measured => Measured'
  BY <1>2 DEF Measured
<1> QED
  BY <1>2, <1>9, <1>10, <1>11, <1>12 DEF StreamsInv

LEMMA ReadCsKeeps ==
    ASSUME StreamsInv, ReadCs
    PROVE  StreamsInv' /\ (Measured => Measured')
<1> DEFINE k == Len(results)
           c == calls[k + 1]
           q == DecodeCs(reader, c)
           res == [got |-> q.ok, value |-> q.value]
<1>1. /\ calls \in Seq(Calls) /\ bits \in Seq(Bit) /\ results \in Seq(Result) /\ writerLang \in Lang
      /\ readerLang \in Lang
      /\ InData(reader) /\ k \in Nat /\ Len(calls) \in Nat /\ received \in {"whole", "short", "altered"}
      /\ Len(bits) <= IntMax /\ (Succeeded => reader.bitsRead = reader.pos)
      /\ \A i \in 1..Len(calls) : Allowed(calls[i])
  BY DEF StreamsInv, StreamsType
<1>2. /\ CanRead /\ readerLang = "cs" /\ phase = "read" /\ outcome = "reading" /\ k < Len(calls)
      /\ calls' = calls /\ bits' = bits /\ measured' = measured /\ writerLang' = writerLang
      /\ readerLang' = readerLang /\ phase' = phase /\ received' = received /\ reader' = q
      /\ results' = IF q.threw THEN results ELSE Append(results, res)
      /\ outcome' = IF q.threw THEN "threw" ELSE "reading"
  BY DEF ReadCs, CanRead
<1>3. PICK marks : /\ Marked(marks, calls, bits, writerLang)
                   /\ received # "altered" => Received /\ InStep(marks)
  BY DEF StreamsInv
<1>4. Legal(c, writerLang) /\ (c.op = "string" => writerLang = "cs")
  <2>1. k + 1 \in 1..Len(calls)
    BY <1>1, <1>2
  <2> QED
    BY <1>1, <1>2, <2>1 DEF Allowed
<1>5. /\ Stepped(reader, q)
      /\ \A d : \A to \in Nat :
            BeginsLike(reader, d) /\ Carries(d, reader.pos, c, writerLang, to) /\ to <= IntMax
            => AnsweredCs(reader, q, to, IF c.op = "string" THEN SentBytes(c, writerLang) ELSE c.value)
  BY <1>1, <1>4, DecodeCsOK
<1> HIDE DEF q
<1>6. InData(q) /\ q.data = reader.data /\ q.value \in Seq(Int) /\ q.ok \in BOOLEAN
  BY <1>5 DEF Stepped, InData, ReaderType
<1>7. res \in Result
  BY <1>6 DEF Result
<1>8. ~q.threw => /\ results' \in Seq(Result) /\ Len(results') = k + 1 /\ results'[k + 1] = res
                 /\ \A i \in 1..k : results'[i] = results[i]
  BY <1>1, <1>2, <1>7, AppendOK
<1>9. StreamsType'
  <2>1. ASSUME NEW i \in 1..Len(calls')
        PROVE  /\ Legal(calls'[i], writerLang')
               /\ calls'[i].op = "string" => writerLang' = readerLang'
    BY <1>1, <1>2 DEF Allowed
  <2>2. results' \in Seq(Result) /\ Len(results') <= Len(calls')
    BY <1>1, <1>2, <1>8
  <2>3. outcome' \in {"reading", "refused", "threw"}
    BY <1>2
  <2>4. Succeeded' => reader'.bitsRead = reader'.pos
    <3> SUFFICES ASSUME Succeeded' PROVE q.bitsRead = q.pos
      BY <1>2
    <3>1. ~q.threw /\ q.ok
      <4>1. ~q.threw
        BY <1>2 DEF Succeeded
      <4>2. k + 1 \in 1..Len(results') /\ results'[k + 1] = res
        BY <1>1, <1>8, <4>1
      <4>3. results'[k + 1].got
        BY <4>2 DEF Succeeded
      <4> QED
        BY <4>1, <4>2, <4>3
    <3>2. \A i \in 1..k : results[i].got
      <4> SUFFICES ASSUME NEW i \in 1..k PROVE results[i].got
        OBVIOUS
      <4>1. i \in 1..Len(results') /\ results'[i] = results[i]
        BY <1>1, <1>8, <3>1
      <4> QED
        BY <4>1 DEF Succeeded
    <3>3. reader.bitsRead = reader.pos
      BY <1>1, <1>2, <3>2 DEF Succeeded
    <3> QED
      BY <1>5, <3>1, <3>3 DEF Stepped
  <2> QED
    BY <1>1, <1>2, <1>6, <2>1, <2>2, <2>3, <2>4 DEF StreamsType, Allowed
<1>10. ASSUME received # "altered" PROVE Received' /\ InStep(marks)'
  <2>1. Received /\ InStep(marks)
    BY <1>3, <1>10
  <2>2. Received'
    <3>1. Sent' = Sent
      BY <1>2 DEF Sent
    <3> QED
      BY <1>2, <1>6, <2>1, <3>1 DEF Received, BeginsLike
  <2>3. CASE reader.error
    <3>1. received = "short" /\ q.error
      BY <1>5, <2>1, <2>3 DEF InStep, Stepped
    <3> QED
      BY <1>2, <2>2, <3>1 DEF InStep
  <2>4. CASE ~reader.error
    <3>1. /\ ~reader.threw /\ reader.pos = marks[k] /\ reader.bitsRead = reader.pos
          /\ \A i \in 1..k : Delivered(i)
      BY <2>1, <2>4 DEF InStep
    <3> DEFINE to == marks[k + 1]
               v  == IF c.op = "string" THEN SentBytes(c, writerLang) ELSE c.value
    <3>2. /\ to \in Nat /\ reader.pos <= to /\ to <= Len(bits)
          /\ BeginsLike(reader, Sent) /\ Carries(Sent, reader.pos, c, writerLang, to)
          /\ received = "whole" => to <= Len(reader.data)
      <4>1. StreamsType
        BY DEF StreamsInv
      <4> QED
        BY <1>2, <1>3, <2>1, <3>1, <4>1, NextCall
    <3>3. AnsweredCs(reader, q, to, v)
      <4>1. Len(bits) \in Nat /\ IntMax \in Nat
        BY <1>1, IntRange
      <4>2. to <= IntMax
        BY <1>1, <3>2, <4>1
      <4> QED
        BY <1>5, <3>2, <4>2
    <3>4. CASE to <= Len(reader.data)
      <4>1. Gave(reader, q, to, v)
        BY <3>3, <3>4 DEF AnsweredCs
      <4>2. /\ q.ok /\ q.pos = to /\ q.bitsRead = reader.bitsRead + (to - reader.pos)
            /\ ~q.error /\ ~q.threw /\ q.value = v
        BY <2>4, <3>1, <4>1 DEF Gave
      <4>3. q.bitsRead = to
        <5>1. reader.pos \in Nat
          BY <1>1 DEF InData, ReaderType
        <5> QED
          BY <3>1, <3>2, <4>2, <5>1
      <4>4. ASSUME NEW i \in 1..Len(results') PROVE Delivered(i)'
        <5>1. CASE i \in 1..k
          <6>1. Delivered(i) /\ results'[i] = results[i]
            BY <1>8, <3>1, <4>2, <5>1
          <6> QED
            BY <1>2, <6>1 DEF Delivered, Expected
        <5>2. CASE i = k + 1
          <6>1. results'[i] = res /\ calls'[i] = c
            BY <1>2, <1>8, <4>2, <5>2
          <6>2. q.ok = TRUE
            BY <1>6, <4>2
          <6>3. res = [got |-> TRUE, value |-> v]
            BY <4>2, <6>2
          <6>4. Expected(calls[i])' = v
            BY <1>2, <6>1 DEF Expected
          <6> QED
            BY <6>1, <6>3, <6>4 DEF Delivered
        <5> QED
          BY <1>1, <1>8, <4>2, <5>1, <5>2
      <4>5. outcome' = "reading" /\ Len(results') = k + 1
        BY <1>2, <1>8, <4>2
      <4> QED
        BY <1>2, <2>2, <4>2, <4>3, <4>4, <4>5 DEF InStep
    <3>5. CASE ~(to <= Len(reader.data))
      <4>1. q.error
        BY <3>3, <3>5 DEF AnsweredCs
      <4>2. received = "short"
        BY <1>1, <1>10, <3>2, <3>5
      <4> QED
        BY <1>2, <2>2, <4>1, <4>2 DEF InStep
    <3> QED
      BY <3>4, <3>5
  <2> QED
    BY <2>3, <2>4
<1>11. Marked(marks, calls', bits', writerLang')
  BY <1>2, <1>3
<1>12. Measured => Measured'
  BY <1>2 DEF Measured
<1> QED
  BY <1>2, <1>9, <1>10, <1>11, <1>12 DEF StreamsInv

-----------------------------------------------------------------------------
\* The theorems.

LEMMA InitOK ==
    ASSUME Init
    PROVE  StreamsInv /\ Measured
<1>1. /\ calls = << >> /\ bits = << >> /\ measured = 0 /\ phase = "write"
      /\ writerLang \in Lang /\ readerLang \in Lang
      /\ received = "whole" /\ reader = NewReader(<< >>) /\ results = << >> /\ outcome = "reading"
  BY DEF Init
<1>2. Len(calls) = 0 /\ Len(bits) = 0 /\ Len(results) = 0
      /\ calls \in Seq(Calls) /\ bits \in Seq(Bit) /\ results \in Seq(Result)
  BY <1>1
<1>3. /\ InData(reader) /\ reader.data = << >> /\ reader.pos = 0 /\ reader.bitsRead = 0
      /\ ~reader.error /\ ~reader.threw
  <2>1. << >> \in Seq(Bit)
    OBVIOUS
  <2>2. LET r == NewReader(<< >>)
        IN /\ InData(r) /\ r.data = << >> /\ r.pos = 0 /\ r.bitsRead = 0
           /\ ~r.error /\ ~r.threw
    BY <2>1, NewReaderOK
  <2> QED
    BY <1>1, <2>2
<1>4. StreamsType
  <2>1. Len(bits) <= IntMax
    BY <1>2, IntRange
  <2> QED
    BY <1>1, <1>2, <1>3, <2>1 DEF StreamsType
<1> DEFINE marks == [i \in 0..0 |-> 0]
<1>5. marks \in [0..0 -> Nat] /\ marks[0] = 0
  OBVIOUS
<1> HIDE DEF marks
<1>6. Marked(marks, calls, bits, writerLang)
  BY <1>2, <1>5 DEF Marked
<1>7. Received
  <2>1. Len(Sent) \in Nat /\ Len(reader.data) = 0
    BY <1>1, <1>2, <1>3, SentOK
  <2> QED
    BY <1>1, <2>1 DEF Received, BeginsLike
<1>8. InStep(marks)
  BY <1>1, <1>2, <1>3, <1>5 DEF InStep
<1>9. Measured
  <2>1. Padded(calls) = {}
    BY <1>1 DEF Padded
  <2>2. Cardinality(Padded(calls)) = 0 /\ MeasureAlign \in Nat
    BY <2>1, FS_EmptySet, Constants DEF MeasureAlign
  <2>3. MeasureAlign * 0 = 0
    BY <2>2
  <2> QED
    BY <1>1, <1>2, <2>2, <2>3 DEF Measured
<1> QED
  BY <1>4, <1>6, <1>7, <1>8, <1>9 DEF StreamsInv

LEMMA NextOK ==
    ASSUME StreamsInv, Measured, [Next]_streamVars
    PROVE  StreamsInv' /\ Measured'
<1>1. CASE WriteInt \/ WriteWord \/ WriteLong \/ AlignWriter \/ WriteArray \/ WriteString
  <2>1. PICK c : Writes(c)
    BY <1>1, WritersWrite DEF StreamsInv
  <2> QED
    BY <2>1, WritingKeeps
<1>2. CASE DeliverWhole \/ DeliverShort \/ DeliverAltered
  BY <1>2, DeliveriesKeep
<1>3. CASE ReadCpp
  BY <1>3, ReadCppKeeps
<1>4. CASE ReadCs
  BY <1>4, ReadCsKeeps
<1>5. CASE UNCHANGED streamVars
  <2>1. /\ calls' = calls /\ bits' = bits /\ measured' = measured /\ phase' = phase
        /\ writerLang' = writerLang /\ readerLang' = readerLang /\ received' = received
        /\ reader' = reader /\ results' = results /\ outcome' = outcome
    BY <1>5 DEF streamVars
  <2>2. Measured'
    BY <2>1 DEF Measured
  <2>3. StreamsType'
    BY <2>1 DEF StreamsInv, StreamsType, Allowed, Succeeded
  <2>4. PICK marks : /\ Marked(marks, calls, bits, writerLang)
                     /\ received # "altered" => Received /\ InStep(marks)
    BY DEF StreamsInv
  <2>5. Received => Received'
    BY <2>1 DEF Received, Sent
  <2>6. InStep(marks) => InStep(marks)'
    BY <2>1 DEF InStep, Delivered, Expected
  <2>7. Marked(marks, calls', bits', writerLang') /\ received' = received
    BY <2>1, <2>4
  <2> QED
    BY <2>2, <2>3, <2>4, <2>5, <2>6, <2>7 DEF StreamsInv
<1> QED
  BY <1>1, <1>2, <1>3, <1>4, <1>5 DEF Next

LEMMA StreamsInvariant == Spec => [](StreamsInv /\ Measured)
<1>1. Init => StreamsInv /\ Measured
  BY InitOK
<1>2. StreamsInv /\ Measured /\ [Next]_streamVars => (StreamsInv /\ Measured)'
  BY NextOK
<1> QED
  BY <1>1, <1>2, PTL DEF Spec

(* However a packet is put together and whatever of it arrives unaltered, a   *)
(* call on a reader without an error has delivered what the same call wrote,  *)
(* in either language: the offsets of all calls are in step, every integer    *)
(* comes back from the bits its range needs, every byte from behind its       *)
(* padding (serialize_* of Serialization.h, Deserialize* of the client).      *)
THEOREM AlwaysAsWritten == Spec => []AsWritten
<1>1. StreamsInv => AsWritten
  <2> SUFFICES ASSUME StreamsInv, received # "altered", ~reader.error
               PROVE  /\ outcome = "reading"
                      /\ \A i \in DOMAIN results :
                            \/ calls[i].op = "enum" /\ readerLang = "cpp"
                            \/ results[i] = [got |-> TRUE, value |-> Expected(calls[i])]
    BY DEF AsWritten
  <2>1. outcome = "reading" /\ \A i \in 1..Len(results) : Delivered(i)
    BY DEF StreamsInv, InStep
  <2>2. DOMAIN results = 1..Len(results)
    BY DEF StreamsInv, StreamsType
  <2> QED
    BY <2>1, <2>2 DEF Delivered
<1> QED
  BY <1>1, StreamsInvariant, PTL

(* The error flag of a stream says no more and no less than that the datagram *)
(* was cut short, and the server's Serialize() refuses exactly then.          *)
THEOREM ErrorAlwaysMeansShort == Spec => []ErrorMeansShort
<1>1. StreamsInv => ErrorMeansShort
  <2> SUFFICES ASSUME StreamsInv, Done, received # "altered"
               PROVE  /\ reader.error <=> received = "short"
                      /\ readerLang = "cpp" => (outcome = "refused" <=> received = "short")
    BY DEF ErrorMeansShort
  <2>1. PICK marks : Marked(marks, calls, bits, writerLang) /\ Received /\ InStep(marks)
    BY DEF StreamsInv
  <2>2. CASE reader.error
    BY <2>1, <2>2 DEF InStep
  <2>3. CASE ~reader.error
    <3>1. outcome = "reading" /\ reader.pos = marks[Len(results)] /\ ~reader.threw
      BY <2>1, <2>3 DEF InStep
    <3>2. reader.pos = Len(bits)
      BY <2>1, <3>1 DEF Done, Marked
    <3>3. reader.pos <= Len(reader.data) /\ Len(bits) \in Nat /\ Len(reader.data) \in Nat
      BY <3>1 DEF StreamsInv, StreamsType, InData, ReaderType
    <3>4. received # "short"
      BY <2>1, <3>2, <3>3 DEF Received
    <3> QED
      BY <2>3, <3>1, <3>4
  <2> QED
    BY <2>2, <2>3
<1> QED
  BY <1>1, StreamsInvariant, PTL

(* A buffer of the size MeasureStream gives has room for what WriteStream     *)
(* writes, whatever the calls and the offsets they start at; it is larger by  *)
(* the padding of the aligned calls at the most.                              *)
THEOREM MeasureAlwaysBounds == Spec => []MeasureBounds
<1>1. StreamsInv /\ Measured => MeasureBounds
  <2> SUFFICES ASSUME StreamsInv, Measured, writerLang = "cpp"
               PROVE  Len(bits) \in (measured - MeasureAlign * Cardinality(Padded(calls)))..measured
    BY DEF MeasureBounds, Padded
  <2> DEFINE n == Cardinality(Padded(calls))
             m == MeasureAlign * n
  <2>1. /\ measured \in Int /\ Len(bits) <= measured /\ measured - m <= Len(bits)
        /\ Len(bits) \in Nat /\ calls \in Seq(Calls)
    BY DEF StreamsInv, StreamsType, Measured
  <2>2. n \in Nat /\ MeasureAlign \in Nat
    <3>1. Len(calls) \in Nat /\ DOMAIN calls = 1..Len(calls)
      BY <2>1
    <3>2. IsFiniteSet(1..Len(calls))
      BY <3>1, FS_Interval
    <3>3. Padded(calls) \subseteq 1..Len(calls)
      BY <3>1 DEF Padded
    <3> QED
      BY <3>2, <3>3, FS_Subset, FS_CardinalityType, Constants DEF MeasureAlign
  <2> HIDE DEF n
  <2>3. m \in Nat
    BY <2>2
  <2> HIDE DEF m
  <2>4. Len(bits) \in (measured - m)..measured
    BY <2>1, <2>3
  <2> QED
    BY <2>4 DEF m, n
<1> QED
  BY <1>1, StreamsInvariant, PTL

(* Whatever arrives, the stream's count stays inside the data, and is the bit *)
(* reader's while all calls return true; the bit reader's passes the end only *)
(* in the call that throws (ReadStream.cs:56, BitReader.cs:88-111), and stays *)
(* in the last word.                                                          *)
THEOREM CountsAlwaysAgree == Spec => []CountsAgree
<1>1. StreamsInv => CountsAgree
  <2> SUFFICES ASSUME StreamsInv PROVE CountsAgree
    OBVIOUS
  <2>1. InData(reader) /\ (Succeeded => reader.bitsRead = reader.pos) /\ results \in Seq(Result)
    BY DEF StreamsInv, StreamsType
  <2>2. DOMAIN results = 1..Len(results)
    BY <2>1
  <2>3. reader.threw \in BOOLEAN
    BY <2>1 DEF InData, ReaderType
  <2> QED
    BY <2>1, <2>2, <2>3 DEF InData, Succeeded, CountsAgree
<1> QED
  BY <1>1, StreamsInvariant, PTL

-----------------------------------------------------------------------------
\* Digits and numbers.

LEMMA DigitOK ==
    ASSUME NEW n \in 0..15
    PROVE  Value(Digit[n + 1]) = n /\ Digit[n + 1] \notin {":", ".", "[", "]"}
<1>1. DOMAIN Digit = 1..16 /\ n + 1 \in 1..16
  BY DEF Digit
<1>2. ASSUME NEW i \in 1..16, NEW j \in 1..16, Digit[i] = Digit[j] PROVE i = j
  BY <1>2 DEF Digit
<1>3. Digit[n + 1] \notin {":", ".", "[", "]"}
  <2>1. Digit[n + 1] \in {"0", "1", "2", "3", "4", "5", "6", "7", "8", "9", "a", "b", "c", "d", "e", "f"}
    BY DEF Digit
  <2> QED
    BY <2>1
<1>4. Value(Digit[n + 1]) = (n + 1) - 1
  <2> DEFINE k == CHOOSE i \in DOMAIN Digit : Digit[i] = Digit[n + 1]
  <2>1. k \in 1..16 /\ Digit[k] = Digit[n + 1]
    BY <1>1
  <2> HIDE DEF k
  <2>2. k = n + 1
    BY <1>1, <1>2, <2>1
  <2> QED
    BY <2>2 DEF k, Value
<1> QED
  BY <1>3, <1>4

Base == {10, 16}

LEMMA DigitsOK ==
    ASSUME NEW base \in Base, NEW c \in Digits(base)
    PROVE  Value(c) \in 0..(base - 1) /\ c \notin {":", ".", "[", "]"}
<1>1. PICK i \in 1..base : c = Digit[i]
  BY DEF Digits
<1>2. i - 1 \in 0..15 /\ (i - 1) + 1 = i /\ i - 1 \in 0..(base - 1)
  BY DEF Base
<1>3. Value(Digit[i]) = i - 1 /\ Digit[i] \notin {":", ".", "[", "]"}
  <2> DEFINE n == i - 1
  <2>1. n \in 0..15 /\ n + 1 = i
    BY <1>2
  <2> HIDE DEF n
  <2>2. Value(Digit[n + 1]) = n /\ Digit[n + 1] \notin {":", ".", "[", "]"}
    BY <2>1, DigitOK
  <2> QED
    BY <2>1, <2>2 DEF n
<1> QED
  BY <1>1, <1>2, <1>3

(* The function Number recurs by. *)
LEMMA NumberRecurs ==
    ASSUME NEW base \in Base, NEW t, Len(t) \in Nat, AreDigits(t, base)
    PROVE  \E v \in [0..Len(t) -> Nat] :
              /\ Number(t, base) = v[Len(t)] /\ v[0] = 0
              /\ \A n \in 1..Len(t) : v[n] = v[n - 1] * base + Value(t[n])
<1> DEFINE N == Len(t)
           step == [n \in 1..N |-> [k \in Nat |-> k * base + Value(t[n])]]
           Body(f, n) == IF n = 0 THEN 0 ELSE f[n - 1] * base + Value(t[n])
           Equation(f) == f = [n \in 0..N |-> Body(f, n)]
           value == CHOOSE f : Equation(f)
<1>1. N \in Nat /\ (\A n \in 1..N : Value(t[n]) \in Nat) /\ base \in Nat
  BY DigitsOK DEF AreDigits, Base
<1>2. step \in [1..N -> [Nat -> Nat]]
  <2> SUFFICES ASSUME NEW n \in 1..N, NEW k \in Nat PROVE k * base + Value(t[n]) \in Nat
    OBVIOUS
  <2> HIDE DEF N
  <2> QED
    BY <1>1
<1>3. PICK f \in [0..N -> Nat] : Recurrence(f, N, 0, step)
  <2> HIDE DEF step, N
  <2> QED
    BY <1>1, <1>2, Recursion
<1>4. ASSUME NEW n \in 1..N PROVE f[n] = f[n - 1] * base + Value(t[n])
  <2>1. n - 1 \in 0..N
    BY <1>1
  <2>2. f[n - 1] \in Nat /\ f[n] = step[n][f[n - 1]]
    BY <2>1, <1>3 DEF Recurrence
  <2> HIDE DEF N
  <2> QED
    BY <2>2
<1>5. f[0] = 0
  BY <1>3 DEF Recurrence
<1>6. Equation(f)
  <2>1. \A n \in 0..N : f[n] = Body(f, n)
    BY <1>1, <1>4, <1>5
  <2> HIDE DEF N, Body
  <2> QED
    BY <2>1
<1>7. Equation(value)
  <2> HIDE DEF Equation
  <2> QED BY <1>6
<1>8. \A n \in 0..N : value[n] = Body(value, n)
  <2> HIDE DEF value, Body, N
  <2> QED BY <1>7
<1>9. N \in {n \in 0..N : value[n] = f[n]}
  <2> DEFINE T == {n \in 0..N : value[n] = f[n]}
  <2>1. 0 \in T
    <3> HIDE DEF value
    <3> QED BY <1>1, <1>8, <1>5
  <2>2. ASSUME NEW n \in 1..N, n - 1 \in T PROVE n \in T
    <3>1. n \in 0..N /\ n # 0 /\ value[n - 1] = f[n - 1]
      BY <1>1, <2>2
    <3>2. value[n] = value[n - 1] * base + Value(t[n])
      <4> HIDE DEF value
      <4> QED BY <1>8, <3>1
    <3> HIDE DEF value
    <3> QED BY <3>1, <3>2, <1>4
  <2> HIDE DEF T, N
  <2>3. 0..N \subseteq T
    BY <2>1, <2>2, <1>1, BoundedInduction
  <2> QED
    BY <2>3, <1>1 DEF T
<1>10. Number(t, base) = value[N]
  BY DEF Number
<1> HIDE DEF value
<1> QED
  BY <1>4, <1>5, <1>9, <1>10

(* The places of the digits, one worth base times the other. *)
LEMMA Places ==
    ASSUME NEW base \in Base
    PROVE  /\ Place(base) \in [1..5 -> Nat \ {0}] /\ Place(base)[1] = 1
           /\ base = 10 => /\ Place(base)[2] = 10 /\ Place(base)[3] = 100
                           /\ Place(base)[4] = 1000 /\ Place(base)[5] = 10000
           /\ base = 16 => /\ Place(base)[2] = 16 /\ Place(base)[3] = 256
                           /\ Place(base)[4] = 4096 /\ Place(base)[5] = 65536
BY DEF Place, Base

(* How many digits printf writes. *)
Size(n, base) == CHOOSE k \in 1..5 : /\ k = 1 \/ Place(base)[k] <= n
                                     /\ k = 5 \/ n < Place(base)[k + 1]

LEMMA SizeOK ==
    ASSUME NEW base \in Base, NEW n \in Uint16
    PROVE  /\ Size(n, base) \in 1..5
           /\ Size(n, base) = 5 \/ n < Place(base)[Size(n, base) + 1]
           /\ base = 16 => Size(n, base) \in 1..4
           /\ base = 10 /\ n < 256 => Size(n, base) \in 1..3
<1> DEFINE P == Place(base)
           Fits(k) == (k = 1 \/ P[k] <= n) /\ (k = 5 \/ n < P[k + 1])
           size == CHOOSE k \in 1..5 : Fits(k)
<1>1. P \in [1..5 -> Nat \ {0}] /\ n \in Nat /\ n <= 65535
  <2>1. P \in [1..5 -> Nat \ {0}]
    BY Places
  <2> HIDE DEF P
  <2> QED
    BY <2>1 DEF Uint16
<1>2. \E k \in 1..5 : Fits(k)
  <2> HIDE DEF P
  <2>1. CASE n < P[2]
    <3>1. Fits(1)
      BY <2>1
    <3> QED BY <3>1
  <2>2. CASE P[2] <= n /\ n < P[3]
    <3>1. Fits(2)
      BY <2>2
    <3> QED BY <3>1
  <2>3. CASE P[3] <= n /\ n < P[4]
    <3>1. Fits(3)
      BY <2>3
    <3> QED BY <3>1
  <2>4. CASE P[4] <= n /\ n < P[5]
    <3>1. Fits(4)
      BY <2>4
    <3> QED BY <3>1
  <2>5. CASE P[5] <= n
    <3>1. Fits(5)
      BY <2>5
    <3> QED BY <3>1
  <2>6. P[2] \in Nat /\ P[3] \in Nat /\ P[4] \in Nat /\ P[5] \in Nat
    BY <1>1
  <2> HIDE DEF Fits
  <2> QED
    BY <1>1, <2>1, <2>2, <2>3, <2>4, <2>5, <2>6
<1>3. size \in 1..5 /\ Fits(size)
  <2> HIDE DEF Fits
  <2> QED
    BY <1>2
<1>4. Size(n, base) = size
  BY DEF Size
<1> HIDE DEF size
<1>5. base = 16 => size # 5
  <2>1. base = 16 => P[5] = 65536
    BY Places
  <2> HIDE DEF P
  <2> QED
    BY <1>1, <1>3, <2>1
<1>6. base = 10 /\ n < 256 => size \notin {4, 5}
  <2>1. base = 10 => P[4] = 1000 /\ P[5] = 10000
    BY Places
  <2> HIDE DEF P
  <2> QED
    BY <1>1, <1>3, <2>1
<1> QED
  BY <1>3, <1>4, <1>5, <1>6

(* What is left of n from each place on. *)
LEMMA QuotientStep ==
    ASSUME NEW base \in Base, NEW n \in Uint16, NEW j \in 1..4
    PROVE  n \div Place(base)[j] = (n \div Place(base)[j + 1]) * base + ((n \div Place(base)[j]) % base)
<1>1. n \in Nat /\ n <= 65535
  BY DEF Uint16
<1>2. CASE base = 10
  <2>1. /\ n \div 1 = (n \div 10) * 10 + ((n \div 1) % 10)
        /\ n \div 10 = (n \div 100) * 10 + ((n \div 10) % 10)
        /\ n \div 100 = (n \div 1000) * 10 + ((n \div 100) % 10)
        /\ n \div 1000 = (n \div 10000) * 10 + ((n \div 1000) % 10)
    BY <1>1
  <2> QED
    BY <1>2, <2>1, Places
<1>3. CASE base = 16
  <2>1. /\ n \div 1 = (n \div 16) * 16 + ((n \div 1) % 16)
        /\ n \div 16 = (n \div 256) * 16 + ((n \div 16) % 16)
        /\ n \div 256 = (n \div 4096) * 16 + ((n \div 256) % 16)
        /\ n \div 4096 = (n \div 65536) * 16 + ((n \div 4096) % 16)
    BY <1>1
  <2> QED
    BY <1>3, <2>1, Places
<1> QED
  BY <1>2, <1>3 DEF Base

LEMMA QuotientFits ==
    ASSUME NEW base \in Base, NEW n \in Uint16, NEW j \in 1..5
    PROVE  /\ n \div Place(base)[j] \in Nat
           /\ (n \div Place(base)[j]) % base \in 0..(base - 1)
           /\ n \div Place(base)[1] = n
           /\ j = 5 \/ n < Place(base)[j + 1] => (n \div Place(base)[j]) % base = n \div Place(base)[j]
<1> DEFINE p == Place(base)[j]
<1>1. /\ n \in Nat /\ n <= 65535 /\ base \in Nat \ {0} /\ base \in {10, 16}
      /\ p \in Nat \ {0} /\ Place(base)[1] = 1
  <2>1. n \in Nat /\ n <= 65535 /\ base \in Nat \ {0} /\ base \in {10, 16}
    BY DEF Uint16, Base
  <2>2. Place(base) \in [1..5 -> Nat \ {0}] /\ Place(base)[1] = 1
    BY Places
  <2> QED
    BY <2>1, <2>2
<1>2. n \div p \in Nat
  <2> HIDE DEF p
  <2>1. n \in Int /\ n >= 0 /\ p \in Nat \ {0}
    BY <1>1
  <2>2. n \div p \in Int /\ (n >= 0 => n \div p >= 0)
    BY <2>1, Quotient
  <2> QED
    BY <2>1, <2>2
<1>3. (n \div p) % base \in 0..(base - 1)
  <2> HIDE DEF p
  <2> DEFINE q == n \div p
  <2>1. q \in Int /\ base \in Nat \ {0}
    BY <1>1, <1>2
  <2> HIDE DEF q
  <2>2. q % base \in 0..(base - 1)
    BY <2>1, Quotient
  <2> QED
    BY <2>2 DEF q
<1>4. n \div 1 = n
  BY <1>1
<1>5. ASSUME j = 5 \/ n < Place(base)[j + 1] PROVE n \div p < base
  <2>1. CASE base = 10
    <3>1. /\ n < 10 => n \div 1 < 10
          /\ n < 100 => n \div 10 < 10
          /\ n < 1000 => n \div 100 < 10
          /\ n < 10000 => n \div 1000 < 10
          /\ n \div 10000 < 10
      BY <1>1
    <3> QED
      BY <2>1, <3>1, <1>5, Places
  <2>2. CASE base = 16
    <3>1. /\ n < 16 => n \div 1 < 16
          /\ n < 256 => n \div 16 < 16
          /\ n < 4096 => n \div 256 < 16
          /\ n < 65536 => n \div 4096 < 16
          /\ n \div 65536 < 16
      BY <1>1
    <3> QED
      BY <2>2, <3>1, <1>5, Places
  <2> QED
    BY <1>1, <2>1, <2>2
<1>6. ASSUME j = 5 \/ n < Place(base)[j + 1] PROVE (n \div p) % base = n \div p
  <2> DEFINE q == n \div p
  <2>1. q \in 0..(base - 1)
    <3>1. q \in Nat /\ q < base
      BY <1>2, <1>5, <1>6
    <3> HIDE DEF q
    <3> QED
      BY <1>1, <3>1
  <2> HIDE DEF q
  <2>2. q % base = q
    BY <1>1, <2>1, Small
  <2> QED
    BY <2>2 DEF q
<1> QED
  BY <1>1, <1>2, <1>3, <1>4, <1>6

(* What is printed of a number are digits that make up that number. *)
LEMMA NumeralOK ==
    ASSUME NEW base \in Base, NEW n \in Uint16
    PROVE  /\ Numeral(n, base) \in Seq(Digits(base)) /\ AreDigits(Numeral(n, base), base)
           /\ Len(Numeral(n, base)) \in 1..5
           /\ base = 16 => Len(Numeral(n, base)) \in 1..4
           /\ base = 10 /\ n < 256 => Len(Numeral(n, base)) \in 1..3
           /\ Number(Numeral(n, base), base) = n
<1> DEFINE k == Size(n, base)
           q(j) == n \div Place(base)[j]
           t == [i \in 1..k |-> Digit[(q(k + 1 - i) % base) + 1]]
<1>1. Numeral(n, base) = t
  BY DEF Numeral, Size
<1>2. /\ k \in 1..5 /\ (k = 5 \/ n < Place(base)[k + 1])
      /\ base = 16 => k \in 1..4
      /\ base = 10 /\ n < 256 => k \in 1..3
  BY SizeOK
<1> HIDE DEF k, q
<1>3. ASSUME NEW i \in 1..k
      PROVE  t[i] \in Digits(base) /\ Value(t[i]) = q(k + 1 - i) % base
  <2> DEFINE d == q(k + 1 - i) % base
  <2>1. k + 1 - i \in 1..5
    BY <1>2
  <2>2. d \in 0..(base - 1)
    BY <2>1, QuotientFits DEF q
  <2> HIDE DEF d
  <2>3. d \in 0..15 /\ d + 1 \in 1..base
    BY <2>2 DEF Base
  <2>4. Digit[d + 1] \in Digits(base) /\ Value(Digit[d + 1]) = d
    BY <2>3, DigitOK DEF Digits
  <2>5. t[i] = Digit[d + 1]
    BY DEF d
  <2> QED
    BY <2>4, <2>5 DEF d
<1>4. Len(t) = k /\ t \in Seq(Digits(base))
  <2>1. t \in [1..k -> Digits(base)] /\ k \in Nat
    BY <1>2, <1>3
  <2> HIDE DEF t
  <2> QED
    BY <2>1
<1>5. AreDigits(t, base)
  BY <1>3, <1>4 DEF AreDigits
<1> HIDE DEF t
<1>6. PICK v \in [0..k -> Nat] :
         /\ Number(t, base) = v[k] /\ v[0] = 0
         /\ \A i \in 1..k : v[i] = v[i - 1] * base + Value(t[i])
  <2>1. Len(t) \in Nat
    BY <1>2, <1>4
  <2> QED
    BY <2>1, <1>4, <1>5, NumberRecurs
<1> DEFINE T == {i \in 0..k : i = 0 \/ v[i] = q(k + 1 - i)}
<1>7. 0 \in T
  BY <1>2
<1>8. ASSUME NEW i \in 1..k, i - 1 \in T PROVE i \in T
  <2>1. v[i] = v[i - 1] * base + (q(k + 1 - i) % base)
    BY <1>3, <1>6
  <2>2. k + 1 - i \in 1..5 /\ i \in 0..k
    BY <1>2
  <2>3. CASE i = 1
    <3>1. k + 1 - i = k /\ i - 1 = 0
      BY <2>3, <1>2
    <3>2. q(k) % base = q(k) /\ q(k) \in Nat
      BY <1>2, QuotientFits DEF q
    <3>3. v[i] = 0 * base + q(k)
      BY <2>1, <3>1, <3>2, <1>6
    <3>4. base \in Nat
      BY DEF Base
    <3>5. v[i] = q(k)
      BY <3>2, <3>3, <3>4
    <3> QED
      BY <2>2, <3>1, <3>5
  <2>4. CASE i # 1
    <3>1. /\ i - 1 # 0 /\ k + 1 - i \in 1..4
          /\ k + 1 - (i - 1) = (k + 1 - i) + 1
      BY <2>4, <1>2
    <3>2. v[i - 1] = q((k + 1 - i) + 1)
      BY <1>8, <3>1
    <3>3. q(k + 1 - i) = q((k + 1 - i) + 1) * base + (q(k + 1 - i) % base)
      BY <3>1, QuotientStep DEF q
    <3> QED
      BY <2>1, <2>2, <3>2, <3>3
  <2> QED
    BY <2>3, <2>4
<1>9. v[k] = n
  <2> HIDE DEF T
  <2>0. k \in Nat
    BY <1>2
  <2>1. 0..k \subseteq T
    BY <2>0, <1>7, <1>8, BoundedInduction
  <2>2. k \in T /\ k # 0 /\ k + 1 - k = 1
    BY <1>2, <2>1
  <2>3. v[k] = q(1)
    BY <2>2 DEF T
  <2> QED
    BY <2>3, QuotientFits DEF q
<1> QED
  BY <1>1, <1>2, <1>4, <1>5, <1>6, <1>9

(* Four hexadecimal digits make up a number of sixteen bits. *)
LEMMA NumberFits ==
    ASSUME NEW base \in Base, NEW t, Len(t) \in Nat, AreDigits(t, base)
    PROVE  /\ Number(t, base) \in Nat
           /\ base = 16 /\ Len(t) \in 1..4 => Number(t, base) \in Uint16
<1>1. PICK v \in [0..Len(t) -> Nat] :
         /\ Number(t, base) = v[Len(t)] /\ v[0] = 0
         /\ \A i \in 1..Len(t) : v[i] = v[i - 1] * base + Value(t[i])
  BY NumberRecurs
<1>2. ASSUME base = 16, Len(t) \in 1..4 PROVE v[Len(t)] \in Uint16
  <2>1. ASSUME NEW i \in 1..Len(t)
        PROVE  v[i] \in Nat /\ v[i - 1] \in Nat /\ v[i] <= v[i - 1] * 16 + 15
    <3>1. t[i] \in Digits(base)
      BY DEF AreDigits
    <3>2. Value(t[i]) \in 0..15
      BY <1>2, <3>1, DigitsOK
    <3>3. i \in 0..Len(t) /\ i - 1 \in 0..Len(t)
      OBVIOUS
    <3>4. v[i] = v[i - 1] * 16 + Value(t[i])
      BY <1>1, <1>2
    <3>5. v[i] \in Nat /\ v[i - 1] \in Nat
      BY <3>3
    <3> DEFINE x == v[i]
               y == v[i - 1]
               d == Value(t[i])
    <3> HIDE DEF x, y, d
    <3>6. x = y * 16 + d /\ x \in Nat /\ y \in Nat /\ d \in 0..15
      BY <3>2, <3>4, <3>5 DEF x, y, d
    <3>7. x <= y * 16 + 15
      BY <3>6
    <3> QED
      BY <3>5, <3>7 DEF x, y
  <2>2. v[1] <= 15 /\ v[1] \in Nat
    <3>1. 1 \in 1..Len(t) /\ 1 - 1 = 0
      BY <1>2
    <3> QED
      BY <2>1, <3>1, <1>1
  <2>3. 2 <= Len(t) => v[2] <= 255 /\ v[2] \in Nat
    <3> SUFFICES ASSUME 2 <= Len(t) PROVE v[2] <= 255 /\ v[2] \in Nat
      OBVIOUS
    <3>1. 2 \in 1..Len(t) /\ 2 - 1 = 1
      OBVIOUS
    <3> QED
      BY <2>1, <3>1, <2>2
  <2>4. 3 <= Len(t) => v[3] <= 4095 /\ v[3] \in Nat
    <3> SUFFICES ASSUME 3 <= Len(t) PROVE v[3] <= 4095 /\ v[3] \in Nat
      OBVIOUS
    <3>1. 3 \in 1..Len(t) /\ 3 - 1 = 2 /\ 2 <= Len(t)
      OBVIOUS
    <3> QED
      BY <2>1, <3>1, <2>3
  <2>5. 4 <= Len(t) => v[4] <= 65535 /\ v[4] \in Nat
    <3> SUFFICES ASSUME 4 <= Len(t) PROVE v[4] <= 65535 /\ v[4] \in Nat
      OBVIOUS
    <3>1. 4 \in 1..Len(t) /\ 4 - 1 = 3 /\ 3 <= Len(t)
      OBVIOUS
    <3> QED
      BY <2>1, <3>1, <2>4
  <2>10. \A x \in Nat : x <= 65535 => x \in Uint16
    BY DEF Uint16
  <2>6. CASE Len(t) = 1
    <3>1. v[1] \in Uint16
      BY <2>6, <2>2, <2>10
    <3> QED
      BY <2>6, <3>1
  <2>7. CASE Len(t) = 2
    <3>1. v[2] \in Uint16
      BY <2>7, <2>3, <2>10
    <3> QED
      BY <2>7, <3>1
  <2>8. CASE Len(t) = 3
    <3>1. v[3] \in Uint16
      BY <2>8, <2>4, <2>10
    <3> QED
      BY <2>8, <3>1
  <2>9. CASE Len(t) = 4
    <3>1. v[4] \in Uint16
      BY <2>9, <2>5, <2>10
    <3> QED
      BY <2>9, <3>1
  <2> QED
    BY <1>2, <2>6, <2>7, <2>8, <2>9
<1>3. v[Len(t)] \in Nat
  OBVIOUS
<1> QED
  BY <1>1, <1>2, <1>3

(* What atoi makes of any text is a number, and of a numeral its number. *)
LEMMA atoiOK ==
    ASSUME NEW S, NEW t \in Seq(S)
    PROVE  /\ atoi(t) \in Nat /\ AsPort(t) \in Uint16
           /\ AreDigits(t, 10) => atoi(t) = Number(t, 10)
<1> DEFINE N == Len(t)
           Most(n) == AreDigits(SubSeq(t, 1, n), 10) /\ (n = N \/ t[n + 1] \notin Digits(10))
           most == CHOOSE n \in 0..N : Most(n)
           Stops == {n \in Nat : n >= N \/ t[n + 1] \notin Digits(10)}
<1>0. N \in Nat /\ 10 \in Base
  BY DEF Base
<1>a. ASSUME NEW n \in 0..N
      PROVE  /\ SubSeq(t, 1, n) \in Seq(S) /\ Len(SubSeq(t, 1, n)) = n
             /\ \A i \in 1..n : SubSeq(t, 1, n)[i] = t[i]
  BY <1>0
<1>1. \E n \in 0..N : Most(n)
  <2>1. Stops \in SUBSET Nat /\ Stops # {}
    BY <1>0
  <2>2. PICK n \in Stops : \A m \in Stops : ~(<<m, n>> \in OpToRel(<, Nat))
    <3> HIDE DEF Stops
    <3> QED
      BY <2>1, NatLessThanWellFounded, WFMin
  <2>3. n \in Nat /\ \A m \in Stops : ~(m < n)
    BY <2>2 DEF OpToRel
  <2>4. N \in Stops /\ N \in Nat
    BY <1>0
  <2>5. n \in 0..N
    <3> HIDE DEF Stops, N
    <3> QED
      BY <2>3, <2>4
  <2>6. n = N \/ t[n + 1] \notin Digits(10)
    BY <2>5, <1>0
  <2>7. ASSUME NEW i \in 1..n PROVE t[i] \in Digits(10)
    <3>1. i - 1 \in Nat /\ i - 1 < n /\ i - 1 < N /\ (i - 1) + 1 = i
      BY <2>5, <1>0
    <3>2. i - 1 \notin Stops
      <4> HIDE DEF Stops
      <4> QED
        BY <3>1, <2>3
    <3> QED
      BY <3>1, <3>2, <1>0
  <2>8. AreDigits(SubSeq(t, 1, n), 10)
    BY <2>5, <2>7, <1>a DEF AreDigits
  <2> QED
    BY <2>5, <2>6, <2>8
<1>2. most \in 0..N /\ Most(most)
  <2> HIDE DEF Most
  <2> QED
    BY <1>1
<1>3. atoi(t) = Number(SubSeq(t, 1, most), 10)
  BY DEF atoi
<1> HIDE DEF most
<1>4. atoi(t) \in Nat
  <2> DEFINE d == SubSeq(t, 1, most)
  <2>1. Len(d) \in Nat /\ AreDigits(d, 10)
    BY <1>a, <1>2
  <2> HIDE DEF d
  <2>2. Number(d, 10) \in Nat
    BY <2>1, <1>0, NumberFits
  <2> QED
    BY <1>3, <2>2 DEF d
<1>5. AsPort(t) \in Uint16
  <2> DEFINE n == atoi(t)
  <2>1. n \in Int /\ 65536 \in Nat \ {0}
    BY <1>4
  <2> HIDE DEF n
  <2>2. n % 65536 \in Nat /\ n % 65536 < 65536
    BY <2>1
  <2> QED
    BY <2>2 DEF AsPort, Truncate, Uint16, n
<1>6. ASSUME AreDigits(t, 10) PROVE atoi(t) = Number(t, 10)
  <2>1. most = N
    <3> SUFFICES ASSUME most # N PROVE FALSE
      OBVIOUS
    <3>1. most + 1 \in 1..N /\ t[most + 1] \notin Digits(10)
      BY <1>0, <1>2
    <3> QED
      BY <1>6, <3>1 DEF AreDigits
  <2>2. SubSeq(t, 1, N) = t
    <3>1. SubSeq(t, 1, N) \in Seq(S) /\ Len(SubSeq(t, 1, N)) = Len(t)
      BY <1>0, <1>a
    <3>2. \A i \in 1..Len(t) : SubSeq(t, 1, N)[i] = t[i]
      BY <1>0, <1>a
    <3> QED
      BY <3>1, <3>2
  <2> QED
    BY <1>3, <2>1, <2>2
<1> QED
  BY <1>4, <1>5, <1>6

(* A port that is printed is read. *)
LEMMA PortIsRead ==
    ASSUME NEW p \in Uint16
    PROVE  /\ AsPort(Numeral(p, 10)) = p
           /\ Numeral(p, 10) \in Seq(Digits(10)) /\ Len(Numeral(p, 10)) \in 1..5
<1> DEFINE d == Numeral(p, 10)
<1>1. /\ d \in Seq(Digits(10)) /\ AreDigits(d, 10) /\ Len(d) \in 1..5 /\ Number(d, 10) = p
  <2>1. 10 \in Base
    BY DEF Base
  <2> QED
    BY <2>1, NumeralOK
<1> HIDE DEF d
<1>2. atoi(d) = p
  BY <1>1, atoiOK
<1>3. p % 65536 = p
  BY DEF Uint16
<1>4. AsPort(d) = p
  BY <1>2, <1>3 DEF AsPort, Truncate
<1> QED
  BY <1>1, <1>4 DEF d

-----------------------------------------------------------------------------
\* The pieces of a text.

(* Whatever follows the same steps from the same start is the same. *)
Follows(g, N, S, base, step) ==
    g[0] = base /\ \A n \in 1..N : g[n - 1] \in S => g[n] = step[n][g[n - 1]]
Runs(f, N, S, base, step) == f \in [0..N -> S] /\ Recurrence(f, N, base, step)
Agree(g, f, N) == \A n \in 0..N : g[n] = f[n]

LEMMA OneRecurrence ==
    ASSUME NEW N \in Nat, NEW S, NEW base, NEW step, NEW f, NEW g,
           Runs(f, N, S, base, step), Follows(g, N, S, base, step)
    PROVE  Agree(g, f, N)
<1>0. f \in [0..N -> S] /\ Recurrence(f, N, base, step)
  BY DEF Runs
<1> DEFINE T == {n \in 0..N : g[n] = f[n]}
<1>1. 0 \in T
  BY <1>0 DEF Recurrence, Follows
<1>2. ASSUME NEW n \in 1..N, n - 1 \in T PROVE n \in T
  <2>1. n \in 0..N /\ n - 1 \in 0..N /\ g[n - 1] = f[n - 1]
    BY <1>2
  <2>2. f[n] = step[n][f[n - 1]]
    BY <1>0 DEF Recurrence
  <2>3. g[n] = step[n][g[n - 1]]
    BY <1>0, <2>1 DEF Follows
  <2> QED
    BY <2>1, <2>2, <2>3
<1> HIDE DEF T
<1>3. 0..N \subseteq T
  BY <1>1, <1>2, BoundedInduction
<1> QED
  BY <1>3 DEF T, Agree

PieceLists(S) == Seq(Seq(S)) \ {<< >>}
PieceStep(t, c, S) ==
    [n \in 1..Len(t) |-> [ps \in PieceLists(S) |->
        IF t[n] = c THEN Append(ps, << >>) ELSE Grown(ps, t[n])]]

Kept(ps, qs) == \A i \in 1..Len(ps) - 1 : qs[i] = ps[i]

LEMMA GrownOK ==
    ASSUME NEW S, NEW ps \in PieceLists(S), NEW x \in S
    PROVE  /\ Len(ps) \in Nat \ {0} /\ ps[Len(ps)] \in Seq(S)
           /\ Grown(ps, x) \in PieceLists(S) /\ Len(Grown(ps, x)) = Len(ps)
           /\ Grown(ps, x)[Len(ps)] = Append(ps[Len(ps)], x)
           /\ Kept(ps, Grown(ps, x))
           /\ Append(ps, << >>) \in PieceLists(S)
<1>1. Len(ps) \in Nat \ {0} /\ ps[Len(ps)] \in Seq(S) /\ ps \in [1..Len(ps) -> Seq(S)]
  BY DEF PieceLists
<1> DEFINE last == Append(ps[Len(ps)], x)
           k == Len(ps)
           g == [ps EXCEPT ![k] = last]
<1>2. last \in Seq(S)
  BY <1>1
<1> HIDE DEF last
<1>3. g \in [1..k -> Seq(S)] /\ g[k] = last /\ \A i \in 1..k - 1 : g[i] = ps[i]
  <2>1. k \in Nat \ {0} /\ ps \in [1..k -> Seq(S)]
    BY <1>1
  <2> HIDE DEF k
  <2>2. k \in 1..k /\ \A i \in 1..k - 1 : i \in 1..k /\ i # k
    BY <2>1
  <2> QED
    BY <2>1, <2>2, <1>2
<1>4. Grown(ps, x) = g
  BY DEF Grown, last
<1>5. Append(ps, << >>) \in PieceLists(S)
  <2>1. << >> \in Seq(S)
    OBVIOUS
  <2>2. ps \in Seq(Seq(S))
    BY DEF PieceLists
  <2>3. Append(ps, << >>) \in Seq(Seq(S)) /\ Len(Append(ps, << >>)) = Len(ps) + 1
    BY <2>1, <2>2
  <2> QED
    BY <1>1, <2>3 DEF PieceLists
<1> HIDE DEF g
<1>6. g \in Seq(Seq(S)) /\ Len(g) = k
  BY <1>1, <1>3
<1>7. g \in PieceLists(S)
  BY <1>1, <1>6 DEF PieceLists
<1> QED
  BY <1>1, <1>3, <1>4, <1>5, <1>6, <1>7 DEF last, Kept

(* The function Pieces recurs by. *)
LEMMA PiecesRecur ==
    ASSUME NEW S, NEW t \in Seq(S), NEW c
    PROVE  /\ PieceStep(t, c, S) \in [1..Len(t) -> [PieceLists(S) -> PieceLists(S)]]
           /\ \E f \in [0..Len(t) -> PieceLists(S)] :
                 Pieces(t, c) = f[Len(t)] /\ Recurrence(f, Len(t), << << >> >>, PieceStep(t, c, S))
<1> DEFINE N == Len(t)
           step == PieceStep(t, c, S)
           Body(f, n) == IF n = 0 THEN << << >> >>
                         ELSE IF t[n] = c THEN Append(f[n - 1], << >>) ELSE Grown(f[n - 1], t[n])
           Equation(f) == f = [n \in 0..N |-> Body(f, n)]
           pieces == CHOOSE f : Equation(f)
<1>1. N \in Nat /\ \A n \in 1..N : t[n] \in S
  OBVIOUS
<1>2. step \in [1..N -> [PieceLists(S) -> PieceLists(S)]]
  <2> SUFFICES ASSUME NEW n \in 1..N, NEW ps \in PieceLists(S)
               PROVE  (IF t[n] = c THEN Append(ps, << >>) ELSE Grown(ps, t[n])) \in PieceLists(S)
    BY DEF PieceStep
  <2> HIDE DEF N
  <2> QED
    BY <1>1, GrownOK
<1>3. << << >> >> \in PieceLists(S)
  BY DEF PieceLists
<1>4. PICK f \in [0..N -> PieceLists(S)] : Recurrence(f, N, << << >> >>, step)
  <2> HIDE DEF step, N
  <2> QED
    BY <1>1, <1>2, <1>3, Recursion
<1>5. ASSUME NEW n \in 1..N, NEW ps \in PieceLists(S)
      PROVE  step[n][ps] = IF t[n] = c THEN Append(ps, << >>) ELSE Grown(ps, t[n])
  BY DEF PieceStep
<1> HIDE DEF step
<1>6. Equation(f)
  <2>1. ASSUME NEW n \in 1..N PROVE f[n] = Body(f, n)
    <3>1. n # 0 /\ n - 1 \in 0..N
      BY <1>1
    <3>2. f[n - 1] \in PieceLists(S) /\ f[n] = step[n][f[n - 1]]
      BY <3>1, <1>4 DEF Recurrence
    <3> QED
      BY <3>1, <3>2, <1>5
  <2>2. f[0] = Body(f, 0)
    BY <1>4 DEF Recurrence
  <2>3. \A n \in 0..N : n = 0 \/ n \in 1..N
    BY <1>1
  <2> HIDE DEF N, Body
  <2> QED
    BY <2>1, <2>2, <2>3
<1>7. Equation(pieces)
  <2> HIDE DEF Equation
  <2> QED BY <1>6
<1>8. \A n \in 0..N : pieces[n] = Body(pieces, n)
  <2> HIDE DEF pieces, Body, N
  <2> QED BY <1>7
<1>9. Pieces(t, c) = pieces[N]
  BY DEF Pieces
<1> HIDE DEF pieces
<1>10. pieces[0] = << << >> >>
  BY <1>1, <1>8
<1>11. ASSUME NEW n \in 1..N, pieces[n - 1] \in PieceLists(S) PROVE pieces[n] = step[n][pieces[n - 1]]
  <2>1. n # 0 /\ n \in 0..N
    BY <1>1
  <2>2. pieces[n] = Body(pieces, n)
    BY <2>1, <1>8
  <2> QED
    BY <2>1, <2>2, <1>5, <1>11
<1> HIDE DEF N
<1>12. \A n \in 0..N : pieces[n] = f[n]
  <2> DEFINE base == << << >> >>
  <2>1. Runs(f, N, PieceLists(S), base, step) /\ Follows(pieces, N, PieceLists(S), base, step)
    BY <1>1, <1>4, <1>10, <1>11 DEF Runs, Follows
  <2> HIDE DEF base
  <2>2. Agree(pieces, f, N)
    BY <1>1, <2>1, OneRecurrence
  <2> QED
    BY <2>2 DEF Agree
<1>13. Pieces(t, c) = f[N]
  BY <1>1, <1>9, <1>12
<1> QED
  BY <1>2, <1>4, <1>13 DEF N, step

(* What one more character makes of the pieces. *)
LEMMA PiecesAppend ==
    ASSUME NEW S, NEW t \in Seq(S), NEW x \in S, NEW c
    PROVE  /\ Pieces(t, c) \in PieceLists(S)
           /\ x = c => Pieces(Append(t, x), c) = Append(Pieces(t, c), << >>)
           /\ x # c => Pieces(Append(t, x), c) = Grown(Pieces(t, c), x)
<1> DEFINE N == Len(t)
           u == Append(t, x)
           ps == PieceLists(S)
<1>1. /\ N \in Nat /\ u \in Seq(S) /\ Len(u) = N + 1 /\ u[N + 1] = x
      /\ \A n \in 1..N : u[n] = t[n]
  OBVIOUS
<1>2. PICK f \in [0..N -> ps] : Pieces(t, c) = f[N] /\ Recurrence(f, N, << << >> >>, PieceStep(t, c, S))
  BY PiecesRecur
<1> HIDE DEF u
<1>3. PICK g \in [0..N + 1 -> ps] :
         Pieces(u, c) = g[N + 1] /\ Recurrence(g, N + 1, << << >> >>, PieceStep(u, c, S))
  <2>1. \E g \in [0..Len(u) -> ps] :
           Pieces(u, c) = g[Len(u)] /\ Recurrence(g, Len(u), << << >> >>, PieceStep(u, c, S))
    BY <1>1, PiecesRecur
  <2> QED
    BY <2>1, <1>1
<1>4. ASSUME NEW n \in 1..N PROVE PieceStep(u, c, S)[n] = PieceStep(t, c, S)[n]
  <2>1. n \in 1..Len(u) /\ n \in 1..Len(t) /\ u[n] = t[n]
    BY <1>1
  <2> QED
    BY <2>1 DEF PieceStep
<1>5. \A n \in 0..N : g[n] = f[n]
  <2>1. g[0] = << << >> >>
    BY <1>3 DEF Recurrence
  <2>2. ASSUME NEW n \in 1..N PROVE g[n] = PieceStep(t, c, S)[n][g[n - 1]]
    <3>1. n \in 1..N + 1
      BY <1>1
    <3> QED
      BY <3>1, <1>3, <1>4 DEF Recurrence
  <2> DEFINE base == << << >> >>
             step == PieceStep(t, c, S)
  <2>3. Runs(f, N, ps, base, step) /\ Follows(g, N, ps, base, step)
    BY <1>1, <1>2, <2>1, <2>2 DEF Runs, Follows
  <2> HIDE DEF N, ps, base, step
  <2>4. Agree(g, f, N)
    BY <1>1, <2>3, OneRecurrence
  <2> QED
    BY <2>4 DEF Agree
<1>6. g[N + 1] = PieceStep(u, c, S)[N + 1][g[N]]
  <2>1. N + 1 \in 1..N + 1 /\ (N + 1) - 1 = N
    BY <1>1
  <2> QED
    BY <2>1, <1>3 DEF Recurrence
<1>7. g[N] = Pieces(t, c) /\ g[N] \in ps
  <2>1. N \in 0..N /\ N \in 0..N + 1
    BY <1>1
  <2> QED
    BY <2>1, <1>2, <1>3, <1>5
<1>8. ASSUME NEW q \in ps
      PROVE  PieceStep(u, c, S)[N + 1][q] = IF x = c THEN Append(q, << >>) ELSE Grown(q, x)
  <2>1. N + 1 \in 1..Len(u)
    BY <1>1
  <2> QED
    BY <2>1, <1>1 DEF PieceStep
<1> QED
  BY <1>3, <1>6, <1>7, <1>8 DEF u

LEMMA PiecesOfNone == ASSUME NEW c PROVE Pieces(<< >>, c) = << << >> >>
<1>1. << >> \in Seq({c}) /\ Len(<< >>) = 0
  OBVIOUS
<1>2. PICK f : Pieces(<< >>, c) = f[0] /\ Recurrence(f, 0, << << >> >>, PieceStep(<< >>, c, {c}))
  BY <1>1, PiecesRecur
<1> QED
  BY <1>2 DEF Recurrence

(* A piece that holds no c stays one piece. *)
LEMMA PiecesAfter ==
    ASSUME NEW S, NEW u \in Seq(S), NEW R \in Seq(Seq(S)), NEW c, Pieces(u, c) = Append(R, << >>),
           NEW p \in Seq(S), \A i \in 1..Len(p) : p[i] # c
    PROVE  Pieces(u \o p, c) = Append(R, p)
<1> DEFINE N == Len(p)
           q(n) == SubSeq(p, 1, n)
           T == {n \in 0..N : Pieces(u \o q(n), c) = Append(R, q(n))}
<1>0. N \in Nat
  OBVIOUS
<1>1. 0 \in T
  <2>1. q(0) = << >> /\ u \o << >> = u
    OBVIOUS
  <2>2. Pieces(u \o q(0), c) = Append(R, q(0))
    BY <2>1
  <2> HIDE DEF q
  <2> QED
    BY <1>0, <2>2
<1>2. ASSUME NEW n \in 1..N, n - 1 \in T PROVE n \in T
  <2> DEFINE o == q(n - 1)
             x == p[n]
             w == u \o o
             L == Append(R, o)
  <2>1. /\ n \in 0..N /\ n - 1 \in 0..N /\ o \in Seq(S) /\ x \in S /\ x # c
        /\ q(n) \in Seq(S) /\ Len(q(n)) = n /\ Len(o) = n - 1
        /\ Pieces(w, c) = L
    BY <1>2
  <2>2. q(n) = Append(o, x)
    BY <1>0, <2>1
  <2> HIDE DEF q, o, x
  <2>3. w \in Seq(S) /\ u \o Append(o, x) = Append(w, x)
    BY <2>1
  <2> HIDE DEF w, L
  <2>4. Pieces(Append(w, x), c) = Grown(L, x)
    <3>1. Pieces(Append(w, x), c) = Grown(Pieces(w, c), x)
      BY <2>1, <2>3, PiecesAppend
    <3> QED
      BY <2>1, <3>1
  <2>5. Grown(L, x) = Append(R, Append(o, x))
    <3>1. /\ Len(L) = Len(R) + 1 /\ L[Len(R) + 1] = o /\ L \in Seq(Seq(S)) /\ Len(R) \in Nat
          /\ \A i \in 1..Len(R) : L[i] = R[i]
      BY <2>1 DEF L
    <3>2. L \in PieceLists(S)
      BY <3>1 DEF PieceLists
    <3> DEFINE g == Grown(L, x)
    <3>3. /\ g \in Seq(Seq(S)) /\ Len(g) = Len(R) + 1 /\ g[Len(R) + 1] = Append(o, x)
          /\ \A i \in 1..Len(R) : g[i] = R[i]
      <4>0. L \in PieceLists(S) /\ x \in S
        BY <2>1, <3>2
      <4>1. g \in PieceLists(S) /\ Len(g) = Len(L)
        BY <4>0, GrownOK
      <4>2. g[Len(L)] = Append(L[Len(L)], x)
        BY <4>0, GrownOK
      <4>3. ASSUME NEW i \in 1..Len(L) - 1 PROVE g[i] = L[i]
        <5>1. Kept(L, g)
          BY <4>0, GrownOK
        <5> QED
          BY <5>1 DEF Kept
      <4> HIDE DEF g
      <4>4. Len(L) - 1 = Len(R)
        BY <3>1
      <4>5. g \in Seq(Seq(S))
        BY <4>1 DEF PieceLists
      <4>6. g[Len(R) + 1] = Append(o, x)
        BY <3>1, <4>2
      <4>7. \A i \in 1..Len(R) : g[i] = R[i]
        BY <3>1, <4>3, <4>4
      <4> QED
        BY <3>1, <4>1, <4>5, <4>6, <4>7
    <3> HIDE DEF g
    <3> DEFINE a == Append(o, x)
    <3>4. a \in Seq(S)
      BY <2>1
    <3> HIDE DEF a
    <3>5. g = Append(R, a)
      BY <3>1, <3>3, <3>4 DEF a
    <3> QED
      BY <3>5 DEF g, a
  <2> QED
    BY <2>1, <2>2, <2>3, <2>4, <2>5
<1>3. N \in T
  <2> HIDE DEF T, N
  <2>1. 0..N \subseteq T
    BY <1>0, <1>1, <1>2, BoundedInduction
  <2> QED
    BY <1>0, <2>1
<1>4. q(N) = p
  BY <1>0
<1> QED
  BY <1>3, <1>4

LEMMA OnePiece ==
    ASSUME NEW S, NEW c, NEW p \in Seq(S), \A i \in 1..Len(p) : p[i] # c
    PROVE  Pieces(p, c) = <<p>>
<1>1. Pieces(<< >>, c) = Append(<< >>, << >>) /\ << >> \in Seq(S) /\ << >> \in Seq(Seq(S))
  BY PiecesOfNone
<1>2. Pieces(<< >> \o p, c) = Append(<< >>, p)
  BY <1>1, PiecesAfter
<1>3. << >> \o p = p /\ Append(<< >>, p) = <<p>>
  OBVIOUS
<1> QED
  BY <1>2, <1>3

LEMMA NextPiece ==
    ASSUME NEW S, NEW c \in S, NEW t \in Seq(S), NEW p \in Seq(S), \A i \in 1..Len(p) : p[i] # c
    PROVE  Pieces(t \o <<c>> \o p, c) = Append(Pieces(t, c), p)
<1> DEFINE u == Append(t, c)
           R == Pieces(t, c)
<1>1. R \in Seq(Seq(S)) /\ Pieces(u, c) = Append(R, << >>)
  BY PiecesAppend DEF PieceLists
<1>2. u \in Seq(S) /\ t \o <<c>> = u
  OBVIOUS
<1> HIDE DEF u, R
<1>3. Pieces(u \o p, c) = Append(R, p)
  BY <1>1, <1>2, PiecesAfter
<1> QED
  BY <1>2, <1>3 DEF R

-----------------------------------------------------------------------------
\* Pieces made one text.

TextsOf(S) == Seq(S)
JoinStep(ts, c, S) ==
    [n \in 1..Len(ts) |-> [s \in TextsOf(S) |-> IF n = 1 THEN ts[1] ELSE s \o <<c>> \o ts[n]]]

(* The function Delimited recurs by. *)
LEMMA DelimitedRecurs ==
    ASSUME NEW S, NEW c \in S, NEW ts \in Seq(Seq(S))
    PROVE  /\ JoinStep(ts, c, S) \in [1..Len(ts) -> [TextsOf(S) -> TextsOf(S)]]
           /\ \E f \in [0..Len(ts) -> TextsOf(S)] :
                 Delimited(ts, c) = f[Len(ts)] /\ Recurrence(f, Len(ts), << >>, JoinStep(ts, c, S))
<1> DEFINE N == Len(ts)
           step == JoinStep(ts, c, S)
           Body(f, n) == IF n = 0 THEN << >> ELSE IF n = 1 THEN ts[1] ELSE f[n - 1] \o <<c>> \o ts[n]
           Equation(f) == f = [n \in 0..N |-> Body(f, n)]
           joined == CHOOSE f : Equation(f)
<1>1. N \in Nat /\ \A n \in 1..N : ts[n] \in Seq(S)
  OBVIOUS
<1>2. step \in [1..N -> [TextsOf(S) -> TextsOf(S)]]
  <2> SUFFICES ASSUME NEW n \in 1..N, NEW s \in TextsOf(S)
               PROVE  (IF n = 1 THEN ts[1] ELSE s \o <<c>> \o ts[n]) \in TextsOf(S)
    BY DEF JoinStep
  <2>1. ts[n] \in Seq(S) /\ <<c>> \in Seq(S) /\ s \in Seq(S)
    BY <1>1 DEF TextsOf
  <2>2. s \o <<c>> \o ts[n] \in Seq(S)
    BY <2>1
  <2> QED
    BY <2>1, <2>2 DEF TextsOf
<1>3. << >> \in TextsOf(S)
  BY DEF TextsOf
<1>4. PICK f \in [0..N -> TextsOf(S)] : Recurrence(f, N, << >>, step)
  <2> HIDE DEF step, N
  <2> QED
    BY <1>1, <1>2, <1>3, Recursion
<1>5. ASSUME NEW n \in 1..N, NEW s \in TextsOf(S)
      PROVE  step[n][s] = IF n = 1 THEN ts[1] ELSE s \o <<c>> \o ts[n]
  BY DEF JoinStep
<1> HIDE DEF step
<1>6. Equation(f)
  <2>1. ASSUME NEW n \in 1..N PROVE f[n] = Body(f, n)
    <3>1. n # 0 /\ n - 1 \in 0..N
      BY <1>1
    <3>2. f[n - 1] \in TextsOf(S) /\ f[n] = step[n][f[n - 1]]
      BY <3>1, <1>4 DEF Recurrence
    <3> QED
      BY <3>1, <3>2, <1>5
  <2>2. f[0] = Body(f, 0)
    BY <1>4 DEF Recurrence
  <2>3. \A n \in 0..N : n = 0 \/ n \in 1..N
    BY <1>1
  <2> HIDE DEF N, Body
  <2> QED
    BY <2>1, <2>2, <2>3
<1>7. Equation(joined)
  <2> HIDE DEF Equation
  <2> QED BY <1>6
<1>8. \A n \in 0..N : joined[n] = Body(joined, n)
  <2> HIDE DEF joined, Body, N
  <2> QED BY <1>7
<1>9. Delimited(ts, c) = joined[N]
  BY DEF Delimited
<1> HIDE DEF joined
<1>10. joined[0] = << >>
  BY <1>1, <1>8
<1>11. ASSUME NEW n \in 1..N, joined[n - 1] \in TextsOf(S) PROVE joined[n] = step[n][joined[n - 1]]
  <2>1. n # 0 /\ n \in 0..N
    BY <1>1
  <2>2. joined[n] = Body(joined, n)
    BY <2>1, <1>8
  <2> QED
    BY <2>1, <2>2, <1>5, <1>11
<1> HIDE DEF N
<1>12. \A n \in 0..N : joined[n] = f[n]
  <2> DEFINE base == << >>
  <2>1. Runs(f, N, TextsOf(S), base, step) /\ Follows(joined, N, TextsOf(S), base, step)
    BY <1>1, <1>4, <1>10, <1>11 DEF Runs, Follows
  <2> HIDE DEF base
  <2>2. Agree(joined, f, N)
    BY <1>1, <2>1, OneRecurrence
  <2> QED
    BY <2>2 DEF Agree
<1>13. Delimited(ts, c) = f[N]
  BY <1>1, <1>9, <1>12
<1> QED
  BY <1>2, <1>4, <1>13 DEF N, step

(* What one more piece makes of the text. *)
Joins(ts, p, c) ==
    Delimited(Append(ts, p), c) = IF Len(ts) = 0 THEN p ELSE Delimited(ts, c) \o <<c>> \o p

LEMMA DelimitedAppend ==
    ASSUME NEW S, NEW c \in S, NEW ts \in Seq(Seq(S)), NEW p \in Seq(S)
    PROVE  /\ Delimited(ts, c) \in Seq(S)
           /\ Len(ts) = 0 => Delimited(ts, c) = << >>
           /\ Joins(ts, p, c)
<1> DEFINE N == Len(ts)
           us == Append(ts, p)
           texts == TextsOf(S)
<1>1. /\ N \in Nat /\ us \in Seq(Seq(S)) /\ Len(us) = N + 1 /\ us[N + 1] = p
      /\ (\A n \in 1..N : us[n] = ts[n])
  OBVIOUS
<1>2. PICK f \in [0..N -> texts] : Delimited(ts, c) = f[N] /\ Recurrence(f, N, << >>, JoinStep(ts, c, S))
  BY DelimitedRecurs
<1> HIDE DEF us
<1>3. PICK g \in [0..N + 1 -> texts] :
         Delimited(us, c) = g[N + 1] /\ Recurrence(g, N + 1, << >>, JoinStep(us, c, S))
  <2>1. \E g \in [0..Len(us) -> texts] :
           Delimited(us, c) = g[Len(us)] /\ Recurrence(g, Len(us), << >>, JoinStep(us, c, S))
    BY <1>1, DelimitedRecurs
  <2> QED
    BY <2>1, <1>1
<1>4. ASSUME NEW n \in 1..N PROVE JoinStep(us, c, S)[n] = JoinStep(ts, c, S)[n]
  <2>1. n \in 1..Len(us) /\ n \in 1..Len(ts) /\ us[n] = ts[n] /\ us[1] = ts[1]
    BY <1>1
  <2> QED
    BY <2>1 DEF JoinStep
<1>5. \A n \in 0..N : g[n] = f[n]
  <2>1. g[0] = << >>
    BY <1>3 DEF Recurrence
  <2>2. ASSUME NEW n \in 1..N PROVE g[n] = JoinStep(ts, c, S)[n][g[n - 1]]
    <3>1. n \in 1..N + 1
      BY <1>1
    <3> QED
      BY <3>1, <1>3, <1>4 DEF Recurrence
  <2> DEFINE base == << >>
             step == JoinStep(ts, c, S)
  <2>3. Runs(f, N, texts, base, step) /\ Follows(g, N, texts, base, step)
    BY <1>1, <1>2, <2>1, <2>2 DEF Runs, Follows
  <2> HIDE DEF N, texts, base, step
  <2>4. Agree(g, f, N)
    BY <1>1, <2>3, OneRecurrence
  <2> QED
    BY <2>4 DEF Agree
<1>6. g[N + 1] = JoinStep(us, c, S)[N + 1][g[N]]
  <2>1. N + 1 \in 1..N + 1 /\ (N + 1) - 1 = N
    BY <1>1
  <2> QED
    BY <2>1, <1>3 DEF Recurrence
<1>7. g[N] = Delimited(ts, c) /\ g[N] \in texts
  <2>1. N \in 0..N /\ N \in 0..N + 1
    BY <1>1
  <2> QED
    BY <2>1, <1>2, <1>3, <1>5
<1>8. ASSUME NEW s \in texts
      PROVE  JoinStep(us, c, S)[N + 1][s] = IF N = 0 THEN p ELSE s \o <<c>> \o p
  <2>1. N + 1 \in 1..Len(us) /\ (N + 1 = 1 <=> N = 0)
    BY <1>1
  <2>2. JoinStep(us, c, S)[N + 1][s] = IF N + 1 = 1 THEN us[1] ELSE s \o <<c>> \o us[N + 1]
    BY <2>1 DEF JoinStep
  <2> QED
    BY <2>1, <2>2, <1>1
<1>9. N = 0 => Delimited(ts, c) = << >>
  BY <1>2 DEF Recurrence
<1>10. Delimited(us, c) = IF N = 0 THEN p ELSE Delimited(ts, c) \o <<c>> \o p
  BY <1>3, <1>6, <1>7, <1>8
<1> QED
  BY <1>1, <1>7, <1>9, <1>10 DEF us, Joins, TextsOf

(* The pieces of a text that has been made of pieces are these pieces; and *)
(* between two of them is one delimiter, and none is at an end.            *)
Piece(S, c) == {p \in Seq(S) : p # << >> /\ \A i \in 1..Len(p) : p[i] # c}
Single(t, c) ==
    /\ t # << >> /\ t[1] # c /\ t[Len(t)] # c
    /\ \A i \in 1..Len(t) - 1 : ~(t[i] = c /\ t[i + 1] = c)

LEMMA JoinedSingle ==
    ASSUME NEW S, NEW c \in S, NEW s \in Seq(S), Single(s, c), NEW p \in Piece(S, c)
    PROVE  Single(s \o <<c>> \o p, c)
<1> DEFINE t == s \o <<c>> \o p
           m == Len(s)
           n == Len(p)
<1>1. /\ p \in Seq(S) /\ m \in Nat \ {0} /\ n \in Nat \ {0} /\ \A i \in 1..n : p[i] # c
  BY DEF Piece, Single
<1>2. /\ t \in Seq(S) /\ Len(t) = m + 1 + n
      /\ \A i \in 1..m : t[i] = s[i]
      /\ t[m + 1] = c
      /\ \A i \in 1..n : t[m + 1 + i] = p[i]
  BY <1>1
<1>3. t # << >> /\ t[1] # c /\ t[Len(t)] # c
  <2>1. 1 \in 1..m /\ n \in 1..n
    BY <1>1
  <2> HIDE DEF t, m
  <2> QED
    BY <2>1, <1>1, <1>2 DEF Single
<1>4. ASSUME NEW i \in 1..Len(t) - 1, t[i] = c, t[i + 1] = c PROVE FALSE
  <2> HIDE DEF t
  <2>1. CASE i < m
    <3>1. i \in 1..m /\ i + 1 \in 1..m /\ i \in 1..Len(s) - 1
      BY <2>1, <1>1, <1>2
    <3> QED
      BY <3>1, <1>2, <1>4 DEF Single
  <2>2. CASE i = m
    <3>1. i \in 1..m /\ s[m] # c
      BY <2>2, <1>1 DEF Single
    <3> QED
      BY <2>2, <3>1, <1>2, <1>4
  <2>3. CASE i = m + 1
    <3>1. 1 \in 1..n /\ i + 1 = m + 1 + 1
      BY <2>3, <1>1
    <3> QED
      BY <3>1, <1>1, <1>2, <1>4
  <2>4. CASE i > m + 1
    <3>1. i - m - 1 \in 1..n /\ m + 1 + (i - m - 1) = i
      BY <2>4, <1>1, <1>2
    <3> QED
      BY <3>1, <1>1, <1>2, <1>4
  <2> QED
    BY <1>1, <1>2, <2>1, <2>2, <2>3, <2>4
<1> QED
  BY <1>3, <1>4 DEF Single

LEMMA PieceSingle ==
    ASSUME NEW S, NEW c, NEW p \in Piece(S, c)
    PROVE  Single(p, c)
<1>1. p \in Seq(S) /\ Len(p) \in Nat \ {0} /\ \A i \in 1..Len(p) : p[i] # c
  BY DEF Piece
<1>2. 1 \in 1..Len(p) /\ Len(p) \in 1..Len(p) /\ \A i \in 1..Len(p) - 1 : i \in 1..Len(p)
  BY <1>1
<1> QED
  BY <1>1, <1>2 DEF Single

(* Pieces that hold no delimiter, made one text, are its pieces. *)
LEMMA DelimitedOK ==
    ASSUME NEW S, NEW c \in S, NEW ts \in Seq(Piece(S, c)), Len(ts) # 0
    PROVE  /\ Delimited(ts, c) \in Seq(S) /\ Pieces(Delimited(ts, c), c) = ts
           /\ Single(Delimited(ts, c), c)
<1> DEFINE N == Len(ts)
           q(n) == SubSeq(ts, 1, n)
           D(n) == Delimited(q(n), c)
           T == {n \in 0..N : n = 0 \/ (Pieces(D(n), c) = q(n) /\ Single(D(n), c))}
<1>0. N \in Nat \ {0} /\ Piece(S, c) \subseteq Seq(S) /\ ts \in Seq(Seq(S))
  BY DEF Piece
<1>1. 0 \in T
  BY <1>0
<1>2. ASSUME NEW n \in 1..N, n - 1 \in T PROVE n \in T
  <2> DEFINE o == q(n - 1)
             p == ts[n]
             d == Delimited(o, c)
  <2>1. /\ n \in 0..N /\ n - 1 \in 0..N /\ o \in Seq(Seq(S)) /\ p \in Piece(S, c)
        /\ Len(o) = n - 1
    BY <1>0, <1>2
  <2>2. q(n) = Append(o, p)
    BY <1>0, <2>1
  <2>3. n = 1 \/ (Pieces(d, c) = o /\ Single(d, c))
    BY <2>1, <1>2
  <2>4. p \in Seq(S) /\ p # << >> /\ \A i \in 1..Len(p) : p[i] # c
    BY <2>1 DEF Piece
  <2> HIDE DEF q, o, p
  <2>5. d \in Seq(S)
    BY <2>1, <2>4, DelimitedAppend
  <2>6. CASE n = 1
    <3>1. o = << >>
      BY <2>1, <2>6
    <3>2. D(n) = p
      <4>1. Joins(o, p, c)
        BY <2>1, <2>4, DelimitedAppend
      <4> QED
        BY <4>1, <2>1, <2>2, <2>6 DEF Joins
    <3>3. q(n) = <<p>>
      BY <2>2, <3>1
    <3>4. Pieces(p, c) = <<p>>
      BY <2>4, OnePiece
    <3>5. Single(p, c)
      BY <2>1, PieceSingle
    <3> HIDE DEF D
    <3> QED
      BY <2>1, <3>2, <3>3, <3>4, <3>5
  <2>7. CASE n # 1
    <3>1. Len(o) # 0
      BY <2>1, <2>7
    <3>2. D(n) = d \o <<c>> \o p
      <4>1. Joins(o, p, c)
        BY <2>1, <2>4, DelimitedAppend
      <4> QED
        BY <4>1, <2>2, <3>1 DEF Joins
    <3> HIDE DEF D, d
    <3>3. Pieces(d \o <<c>> \o p, c) = Append(Pieces(d, c), p)
      BY <2>4, <2>5, NextPiece
    <3>4. Single(d \o <<c>> \o p, c)
      BY <2>1, <2>3, <2>5, <2>7, JoinedSingle
    <3> QED
      BY <2>1, <2>2, <2>3, <2>7, <3>2, <3>3, <3>4
  <2> QED
    BY <2>6, <2>7
<1>3. N \in T
  <2> HIDE DEF T
  <2>1. 0..N \subseteq T
    BY <1>0, <1>1, <1>2, BoundedInduction
  <2> QED
    BY <1>0, <2>1
<1>4. q(N) = ts
  BY <1>0
<1>5. Pieces(D(N), c) = q(N) /\ Single(D(N), c)
  <2> HIDE DEF D, q
  <2> QED
    BY <1>0, <1>3
<1>6. Delimited(ts, c) \in Seq(S)
  <2>1. << >> \in Seq(S)
    OBVIOUS
  <2> QED
    BY <1>0, <2>1, DelimitedAppend
<1> QED
  BY <1>4, <1>5, <1>6

-----------------------------------------------------------------------------
\* IPv4.

LEMMA NumeralPiece ==
    ASSUME NEW base \in Base, NEW n \in Uint16, NEW c \in {":", "."}
    PROVE  Numeral(n, base) \in Piece(Digits(base) \cup {c}, c)
<1> DEFINE d == Numeral(n, base)
           D == Digits(base)
<1>1. d \in Seq(D) /\ Len(d) \in 1..5 /\ \A x \in D : x # c
  BY NumeralOK, DigitsOK
<1> HIDE DEF d, D
<1>2. d \in Seq(D \cup {c}) /\ d # << >>
  BY <1>1
<1>3. \A i \in 1..Len(d) : d[i] # c
  BY <1>1
<1> QED
  BY <1>2, <1>3 DEF Piece, d, D

Chain(w, s, t) ==
    /\ Len(w) = Len(s) + Len(t) /\ Len(s) \in Nat /\ Len(t) \in Nat
    /\ \A i \in 1..Len(s) : w[i] = s[i]
    /\ \A i \in 1..Len(t) : w[Len(s) + i] = t[i]

LEMMA Chained ==
    ASSUME NEW S, NEW s \in Seq(S), NEW t \in Seq(S)
    PROVE  s \o t \in Seq(S) /\ Chain(s \o t, s, t)
BY DEF Chain

Part(p, s, m, n) == Len(p) = n - m + 1 /\ \A i \in 1..n - m + 1 : p[i] = s[m - 1 + i]

LEMMA Parts ==
    ASSUME NEW S, NEW s \in Seq(S), NEW m \in 1..Len(s) + 1, NEW n \in m - 1..Len(s)
    PROVE  SubSeq(s, m, n) \in Seq(S) /\ Part(SubSeq(s, m, n), s, m, n)
BY DEF Part

LEMMA Enumerated ==
    ASSUME NEW n \in Nat, NEW S, NEW f \in [1..n -> S]
    PROVE  f \in Seq(S) /\ Len(f) = n
OBVIOUS

Text4 == Digits(10) \cup {"."}
Text6 == Digits(16) \cup {":"}

LEMMA TextChars ==
    /\ \A x \in Text4 : x \notin {":", "[", "]"}
    /\ \A x \in Text6 : x \notin {".", "[", "]"}
<1>1. \A x \in Digits(10) : x \notin {":", ".", "[", "]"}
  BY DigitsOK DEF Base
<1>2. \A x \in Digits(16) : x \notin {":", ".", "[", "]"}
  BY DigitsOK DEF Base
<1> QED
  BY <1>1, <1>2 DEF Text4, Text6

(* The text of an IPv4 address is that of no other. *)
LEMMA ntop4OK ==
    ASSUME NEW h \in [1..4 -> Uint8]
    PROVE  ntop4(h) \in Seq(Text4) /\ ntop4(h) # << >> /\ pton4(ntop4(h)) = h
<1> DEFINE ts == [i \in 1..4 |-> Numeral(h[i], 10)]
           t == Delimited(ts, ".")
           ps == Pieces(t, ".")
           Octet(p) == IsNumeral(p, 10, 3) /\ Number(p, 10) < 256 /\ p = Numeral(Number(p, 10), 10)
<1>0. 10 \in Base /\ "." \in Text4 /\ "." \in {":", "."} /\ Text4 = Digits(10) \cup {"."}
  BY DEF Base, Text4
<1>1. ASSUME NEW i \in 1..4
      PROVE  /\ h[i] \in Uint16 /\ h[i] < 256 /\ Numeral(h[i], 10) \in Piece(Text4, ".")
             /\ Octet(Numeral(h[i], 10)) /\ Number(Numeral(h[i], 10), 10) = h[i]
  <2> DEFINE n == h[i]
             d == Numeral(n, 10)
  <2>1. n \in Uint16 /\ n < 256
    <3>1. n \in Uint8
      OBVIOUS
    <3> HIDE DEF n
    <3> QED
      BY <3>1 DEF Uint8, Uint16
  <2> HIDE DEF n
  <2>2. d \in Piece(Text4, ".")
    BY <1>0, <2>1, NumeralPiece
  <2>3. AreDigits(d, 10) /\ Len(d) \in 1..3 /\ Number(d, 10) = n
    BY <1>0, <2>1, NumeralOK
  <2>4. Octet(d)
    <3> HIDE DEF d
    <3>1. IsNumeral(d, 10, 3)
      BY <2>3 DEF IsNumeral
    <3>2. Number(d, 10) < 256
      BY <2>1, <2>3
    <3>3. d = Numeral(Number(d, 10), 10)
      BY <2>3 DEF d
    <3> QED
      BY <3>1, <3>2, <3>3
  <2> HIDE DEF d, Octet
  <2> QED
    BY <2>1, <2>2, <2>3, <2>4 DEF n, d
<1> HIDE DEF Octet
<1>2. ts \in Seq(Piece(Text4, ".")) /\ Len(ts) = 4
  <2>1. ts \in [1..4 -> Piece(Text4, ".")]
    BY <1>1
  <2> HIDE DEF ts
  <2>2. ts \in Seq(Piece(Text4, ".")) /\ Len(ts) = 4
    BY <2>1, Enumerated
  <2> QED
    BY <2>2
<1>3. \A i \in 1..4 : ts[i] = Numeral(h[i], 10)
  OBVIOUS
<1>4. ntop4(h) = t
  BY DEF ntop4
<1> HIDE DEF ts
<1>5. t \in Seq(Text4) /\ ps = ts /\ Single(t, ".")
  <2>1. "." \in Text4 /\ ts \in Seq(Piece(Text4, ".")) /\ Len(ts) # 0
    BY <1>0, <1>2
  <2> QED
    BY <2>1, DelimitedOK
<1> HIDE DEF t, ps
<1>6. Len(ps) = 4 /\ \A i \in 1..4 : Octet(ps[i])
  BY <1>1, <1>2, <1>3, <1>5
<1>7. pton4(t) = [i \in 1..4 |-> Number(ps[i], 10)]
  BY <1>6 DEF pton4, ps, Octet
<1>8. \A i \in 1..4 : Number(ps[i], 10) = h[i]
  BY <1>1, <1>3, <1>5
<1>9. pton4(t) = h
  BY <1>7, <1>8
<1>10. t # << >>
  BY <1>5 DEF Single
<1> QED
  BY <1>4, <1>5, <1>9, <1>10

(* Whatever the text, no octet exceeds 255. *)
LEMMA pton4Types == ASSUME NEW t PROVE pton4(t) = << >> \/ pton4(t) \in [1..4 -> Uint8]
<1> DEFINE ps == Pieces(t, ".")
           Octet(p) == IsNumeral(p, 10, 3) /\ Number(p, 10) < 256 /\ p = Numeral(Number(p, 10), 10)
           good == Len(ps) = 4 /\ \A i \in 1..4 : Octet(ps[i])
<1>1. pton4(t) = IF good THEN [i \in 1..4 |-> Number(ps[i], 10)] ELSE << >>
  BY DEF pton4
<1>2. ASSUME NEW p, Octet(p) PROVE Number(p, 10) \in Uint8
  <2>1. Len(p) \in 1..3 /\ AreDigits(p, 10) /\ Number(p, 10) < 256
    BY <1>2 DEF IsNumeral
  <2>2. Len(p) \in Nat /\ 10 \in Base
    BY <2>1 DEF Base
  <2>3. Number(p, 10) \in Nat
    BY <2>1, <2>2, NumberFits
  <2> QED
    BY <2>1, <2>3 DEF Uint8
<1> HIDE DEF ps, Octet
<1>3. CASE good
  <2>1. \A i \in 1..4 : Number(ps[i], 10) \in Uint8
    BY <1>2, <1>3
  <2> QED
    BY <1>1, <1>3, <2>1
<1>4. CASE ~good
  BY <1>1, <1>4
<1> QED
  BY <1>3, <1>4

-----------------------------------------------------------------------------
\* IPv6.

LEMMA ZeroDigit == /\ <<"0">> \in Seq(Digits(16)) /\ IsNumeral(<<"0">>, 16, 4)
                   /\ Number(<<"0">>, 16) = 0
<1>1. "0" \in Digits(16) /\ Value("0") = 0
  <2>1. Digit[0 + 1] = "0" /\ 0 + 1 \in 1..16
    BY DEF Digit
  <2>2. Value(Digit[0 + 1]) = 0
    BY DigitOK
  <2> QED
    BY <2>1, <2>2 DEF Digits
<1> DEFINE t == <<"0">>
<1>2. t \in Seq(Digits(16)) /\ Len(t) = 1 /\ t[1] = "0"
  BY <1>1
<1> HIDE DEF t
<1>3. AreDigits(t, 16) /\ IsNumeral(t, 16, 4) /\ 16 \in Base
  BY <1>1, <1>2 DEF AreDigits, IsNumeral, Base
<1>4. PICK v \in [0..1 -> Nat] :
         Number(t, 16) = v[1] /\ v[0] = 0 /\ \A n \in 1..1 : v[n] = v[n - 1] * 16 + Value(t[n])
  BY <1>2, <1>3, NumberRecurs
<1>5. v[1] = v[1 - 1] * 16 + Value(t[1])
  BY <1>4
<1>6. v[1] = 0
  BY <1>1, <1>2, <1>4, <1>5
<1> QED
  BY <1>2, <1>3, <1>4, <1>6 DEF t

(* The parts of a text on the two sides of its gap, and what pton6 makes of them. *)
Groups(s) == IF s = << >> THEN << >> ELSE Pieces(s, ":")
Gaps(t) == {i \in 1..Len(t) - 1 : t[i] = ":" /\ t[i + 1] = ":"}
Gap(t) == CHOOSE i \in Gaps(t) : TRUE
Left(t) == Groups(IF Gaps(t) = {} THEN t ELSE SubSeq(t, 1, Gap(t) - 1))
Right(t) == Groups(IF Gaps(t) = {} THEN << >> ELSE SubSeq(t, Gap(t) + 2, Len(t)))
ZeroGroups(t) == 8 - Len(Left(t)) - Len(Right(t))
Whole(t) == Left(t) \o [i \in 1..ZeroGroups(t) |-> <<"0">>] \o Right(t)
Good6(t) == /\ \A i, j \in Gaps(t) : i = j
            /\ IF Gaps(t) = {} THEN ZeroGroups(t) = 0 ELSE ZeroGroups(t) >= 1
            /\ \A i \in 1..Len(Whole(t)) : IsNumeral(Whole(t)[i], 16, 4)

LEMMA pton6Is ==
    ASSUME NEW t
    PROVE  pton6(t) = IF Good6(t) THEN [i \in 1..8 |-> Number(Whole(t)[i], 16)] ELSE << >>
BY DEF pton6, Groups, Gaps, Gap, Left, Right, ZeroGroups, Whole, Good6

LEMMA GroupsTypes ==
    ASSUME NEW S, NEW s \in Seq(S)
    PROVE  Groups(s) \in Seq(Seq(S))
<1>1. CASE s = << >>
  BY <1>1 DEF Groups
<1>2. CASE s # << >>
  <2>1. s \in Seq(S \cup {":"}) /\ S \subseteq S \cup {":"}
    OBVIOUS
  <2>2. PICK f \in [0..Len(s) -> PieceLists(S)] : Pieces(s, ":") = f[Len(s)]
    BY PiecesRecur
  <2>3. Pieces(s, ":") \in PieceLists(S)
    BY <2>2
  <2> QED
    BY <1>2, <2>3 DEF Groups, PieceLists
<1> QED
  BY <1>1, <1>2

LEMMA WholeIs ==
    ASSUME NEW S, NEW L \in Seq(Seq(S)), NEW R \in Seq(Seq(S)), NEW k \in Nat
    PROVE  LET w == L \o [i \in 1..k |-> <<"0">>] \o R
           IN /\ Len(w) = Len(L) + k + Len(R)
              /\ \A i \in 1..Len(L) : w[i] = L[i]
              /\ \A i \in 1..k : w[Len(L) + i] = <<"0">>
              /\ \A i \in 1..Len(R) : w[Len(L) + k + i] = R[i]
<1> DEFINE F == Seq(S) \cup {<<"0">>}
           z == [i \in 1..k |-> <<"0">>]
<1>1. /\ z \in Seq(F) /\ Len(z) = k /\ L \in Seq(F) /\ R \in Seq(F)
      /\ \A i \in 1..k : z[i] = <<"0">>
  OBVIOUS
<1> HIDE DEF z, F
<1> DEFINE y == L \o z
           w == y \o R
<1>2. y \in Seq(F) /\ Chain(y, L, z)
  BY <1>1, Chained
<1> HIDE DEF y
<1>3. Chain(w, y, R) /\ L \o z \o R = w
  BY <1>1, <1>2, Chained DEF y
<1> HIDE DEF w
<1>4. /\ Len(y) = Len(L) + k /\ Len(L) \in Nat /\ Len(R) \in Nat
      /\ Len(w) = Len(L) + k + Len(R)
  BY <1>1, <1>2, <1>3 DEF Chain
<1>5. ASSUME NEW i \in 1..Len(L) PROVE w[i] = L[i]
  <2>1. i \in 1..Len(y)
    BY <1>4
  <2> QED
    BY <2>1, <1>2, <1>3 DEF Chain
<1>6. ASSUME NEW i \in 1..k PROVE w[Len(L) + i] = <<"0">>
  <2>1. Len(L) + i \in 1..Len(y) /\ i \in 1..Len(z)
    BY <1>1, <1>4
  <2>2. w[Len(L) + i] = y[Len(L) + i] /\ y[Len(L) + i] = z[i]
    BY <2>1, <1>2, <1>3 DEF Chain
  <2> QED
    BY <2>2, <1>1
<1>7. ASSUME NEW i \in 1..Len(R) PROVE w[Len(L) + k + i] = R[i]
  <2>1. w[Len(y) + i] = R[i]
    BY <1>3 DEF Chain
  <2> QED
    BY <2>1, <1>4
<1> QED
  BY <1>3, <1>4, <1>5, <1>6, <1>7 DEF z

LEMMA Thirds ==
    ASSUME NEW a \in Nat, NEW b \in Nat, NEW c \in Nat, a + b + c = 8, NEW i \in 1..8, i > a + b
    PROVE  i - a - b \in 1..c /\ a + b + (i - a - b) = i
OBVIOUS

(* Four hexadecimal digits at the most make sixteen bits, whatever the text. *)
LEMMA pton6Types ==
    ASSUME NEW S, NEW t \in Seq(S)
    PROVE  pton6(t) = << >> \/ pton6(t) \in [1..8 -> Uint16]
<1> SUFFICES ASSUME Good6(t) PROVE [i \in 1..8 |-> Number(Whole(t)[i], 16)] \in [1..8 -> Uint16]
  BY pton6Is
<1>1. Left(t) \in Seq(Seq(S)) /\ Right(t) \in Seq(Seq(S))
  <2>1. CASE Gaps(t) = {}
    <3>1. << >> \in Seq(S)
      OBVIOUS
    <3> QED
      BY <2>1, <3>1, GroupsTypes DEF Left, Right
  <2>2. CASE Gaps(t) # {}
    <3>1. Gap(t) \in Gaps(t)
      BY <2>2 DEF Gap
    <3>2. Gap(t) \in Nat /\ Gap(t) >= 1 /\ Gap(t) + 1 <= Len(t)
      BY <3>1 DEF Gaps
    <3>3. SubSeq(t, 1, Gap(t) - 1) \in Seq(S) /\ SubSeq(t, Gap(t) + 2, Len(t)) \in Seq(S)
      BY <3>2
    <3> QED
      BY <2>2, <3>3, GroupsTypes DEF Left, Right
  <2> QED
    BY <2>1, <2>2
<1>2. ZeroGroups(t) \in Nat
  BY <1>1 DEF ZeroGroups, Good6
<1>3. Len(Whole(t)) = 8
  <2> DEFINE L == Left(t)
             R == Right(t)
             k == ZeroGroups(t)
  <2>1. L \in Seq(Seq(S)) /\ R \in Seq(Seq(S)) /\ k \in Nat /\ k = 8 - Len(L) - Len(R)
    BY <1>1, <1>2 DEF ZeroGroups
  <2> HIDE DEF L, R, k
  <2>2. Len(L \o [i \in 1..k |-> <<"0">>] \o R) = Len(L) + k + Len(R)
    BY <2>1, WholeIs
  <2>3. Len(L) + k + Len(R) = 8
    BY <2>1
  <2> QED
    BY <2>2, <2>3 DEF Whole, L, R, k
<1>4. ASSUME NEW i \in 1..8 PROVE Number(Whole(t)[i], 16) \in Uint16
  <2> DEFINE g == Whole(t)[i]
  <2>1. IsNumeral(g, 16, 4)
    BY <1>3 DEF Good6
  <2> HIDE DEF g
  <2>2. Len(g) \in 1..4 /\ Len(g) \in Nat /\ AreDigits(g, 16) /\ 16 \in Base
    BY <2>1 DEF IsNumeral, Base
  <2>3. Number(g, 16) \in Uint16
    BY <2>2, NumberFits
  <2> QED
    BY <2>3 DEF g
<1> QED
  BY <1>4

(* An address without a gap in its groups, and one with a gap, is read when *)
(* its groups are those of the address.                                     *)
Halves(t, h, L, R, k) ==
    /\ Left(t) = L /\ Right(t) = R /\ Len(L) + k + Len(R) = 8
    /\ \A i, j \in Gaps(t) : i = j
    /\ IF Gaps(t) = {} THEN k = 0 ELSE k >= 1
    /\ \A i \in 1..Len(L) : L[i] = Numeral(h[i], 16)
    /\ \A i \in 1..k : h[Len(L) + i] = 0
    /\ \A i \in 1..Len(R) : R[i] = Numeral(h[Len(L) + k + i], 16)

(* Groups that were printed of h are numbers again, and the gap stands for zeros. *)
LEMMA pton6OK ==
    ASSUME NEW h \in [1..8 -> Uint16], NEW S, NEW t, NEW L \in Seq(Seq(S)), NEW R \in Seq(Seq(S)),
           NEW k \in Nat, Halves(t, h, L, R, k)
    PROVE  pton6(t) = h
<1>0. /\ Left(t) = L /\ Right(t) = R /\ Len(L) + k + Len(R) = 8
      /\ \A i, j \in Gaps(t) : i = j
      /\ IF Gaps(t) = {} THEN k = 0 ELSE k >= 1
      /\ \A i \in 1..Len(L) : L[i] = Numeral(h[i], 16)
      /\ \A i \in 1..k : h[Len(L) + i] = 0
      /\ \A i \in 1..Len(R) : R[i] = Numeral(h[Len(L) + k + i], 16)
  BY DEF Halves
<1> DEFINE w == Whole(t)
<1>1. ZeroGroups(t) = k
  BY <1>0 DEF ZeroGroups
<1>2. /\ Len(w) = Len(L) + k + Len(R)
      /\ \A i \in 1..Len(L) : w[i] = L[i]
      /\ \A i \in 1..k : w[Len(L) + i] = <<"0">>
      /\ \A i \in 1..Len(R) : w[Len(L) + k + i] = R[i]
  BY <1>0, <1>1, WholeIs DEF Whole
<1> HIDE DEF w
<1>3. ASSUME NEW n \in Uint16 PROVE IsNumeral(Numeral(n, 16), 16, 4) /\ Number(Numeral(n, 16), 16) = n
  <2>1. 16 \in Base
    BY DEF Base
  <2> QED
    BY <2>1, NumeralOK DEF IsNumeral
<1>4. ASSUME NEW i \in 1..8 PROVE IsNumeral(w[i], 16, 4) /\ Number(w[i], 16) = h[i]
  <2>0. h[i] \in Uint16 /\ Len(L) \in Nat /\ Len(R) \in Nat /\ Len(L) + k + Len(R) = 8
    BY <1>0
  <2>1. CASE i <= Len(L)
    <3>1. i \in 1..Len(L)
      BY <2>0, <2>1
    <3>2. w[i] = Numeral(h[i], 16)
      BY <3>1, <1>0, <1>2
    <3> QED
      BY <2>0, <3>2, <1>3
  <2>2. CASE i > Len(L) /\ i <= Len(L) + k
    <3>1. i - Len(L) \in 1..k /\ Len(L) + (i - Len(L)) = i
      BY <2>0, <2>2
    <3>2. w[i] = <<"0">> /\ h[i] = 0
      BY <3>1, <1>0, <1>2
    <3> QED
      BY <3>2, ZeroDigit
  <2>3. CASE i > Len(L) + k
    <3> DEFINE j == i - Len(L) - k
    <3>1. j \in 1..Len(R) /\ Len(L) + k + j = i
      BY <2>0, <2>3, Thirds
    <3> HIDE DEF j
    <3>2. w[Len(L) + k + j] = R[j] /\ R[j] = Numeral(h[Len(L) + k + j], 16)
      BY <3>1, <1>0, <1>2
    <3>3. w[i] = Numeral(h[i], 16)
      BY <3>1, <3>2
    <3> QED
      BY <2>0, <3>3, <1>3
  <2> QED
    BY <2>0, <2>1, <2>2, <2>3
<1>5. Good6(t)
  BY <1>0, <1>1, <1>2, <1>4 DEF Good6, w
<1>6. pton6(t) = [i \in 1..8 |-> Number(w[i], 16)]
  BY <1>5, pton6Is DEF w
<1>7. [i \in 1..8 |-> Number(w[i], 16)] = h
  BY <1>4
<1> QED
  BY <1>6, <1>7

(* A text with one gap between two texts without. *)
Gapped(t, x, y) ==
    /\ Len(t) = Len(x) + 2 + Len(y) /\ Gaps(t) = {Len(x) + 1}
    /\ SubSeq(t, 1, Len(x)) = x /\ SubSeq(t, Len(x) + 3, Len(t)) = y

(* The gap is the only place with two delimiters: no side has one at its end. *)
LEMMA GapText ==
    ASSUME NEW S, NEW x \in Seq(S), NEW y \in Seq(S), ":" \in S,
           Len(x) = 0 \/ Single(x, ":"), Len(y) = 0 \/ Single(y, ":")
    PROVE  x \o <<":", ":">> \o y \in Seq(S) /\ Gapped(x \o <<":", ":">> \o y, x, y)
<1> DEFINE g == <<":", ":">>
           u == x \o g
           t == u \o y
           m == Len(x)
           n == Len(y)
<1>1. g \in Seq(S) /\ Len(g) = 2 /\ g[1] = ":" /\ g[2] = ":"
  OBVIOUS
<1> HIDE DEF g
<1>2. u \in Seq(S) /\ Chain(u, x, g)
  BY <1>1, Chained
<1> HIDE DEF u
<1>3. t \in Seq(S) /\ Chain(t, u, y)
  BY <1>2, Chained
<1> HIDE DEF t
<1>4. m \in Nat /\ n \in Nat /\ Len(u) = m + 2 /\ Len(t) = m + 2 + n
  BY <1>1, <1>2, <1>3 DEF Chain
<1>5. ASSUME NEW i \in 1..m PROVE t[i] = x[i]
  <2>1. i \in 1..Len(u)
    BY <1>4
  <2> QED
    BY <2>1, <1>2, <1>3 DEF Chain
<1>6. t[m + 1] = ":" /\ t[m + 2] = ":"
  <2>1. m + 1 \in 1..Len(u) /\ m + 2 \in 1..Len(u) /\ 1 \in 1..Len(g) /\ 2 \in 1..Len(g)
    BY <1>1, <1>4
  <2>2. u[m + 1] = g[1] /\ u[m + 2] = g[2]
    BY <2>1, <1>2 DEF Chain
  <2> QED
    BY <2>1, <2>2, <1>1, <1>3 DEF Chain
<1>7. ASSUME NEW i \in 1..n PROVE t[m + 2 + i] = y[i]
  <2>1. t[Len(u) + i] = y[i]
    BY <1>3 DEF Chain
  <2> QED
    BY <2>1, <1>4
<1>8. ASSUME NEW i \in 1..Len(t) - 1, t[i] = ":", t[i + 1] = ":" PROVE i = m + 1
  <2>1. ASSUME i < m PROVE FALSE
    <3>1. i \in 1..m /\ i + 1 \in 1..m /\ i \in 1..Len(x) - 1 /\ Len(x) # 0
      BY <2>1, <1>4
    <3>2. x[i] = ":" /\ x[i + 1] = ":"
      BY <3>1, <1>5, <1>8
    <3> QED
      BY <3>1, <3>2 DEF Single
  <2>2. ASSUME i = m PROVE FALSE
    <3>1. i \in 1..m /\ Len(x) # 0
      BY <2>2, <1>4
    <3>2. x[Len(x)] = ":"
      BY <3>1, <2>2, <1>5, <1>8
    <3> QED
      BY <3>1, <3>2 DEF Single
  <2>3. ASSUME i = m + 2 PROVE FALSE
    <3>1. 1 \in 1..n /\ i + 1 = m + 2 + 1 /\ Len(y) # 0
      BY <2>3, <1>4
    <3>2. y[1] = ":"
      BY <3>1, <1>7, <1>8
    <3> QED
      BY <3>1, <3>2 DEF Single
  <2>4. ASSUME i > m + 2 PROVE FALSE
    <3> DEFINE j == i - m - 2
    <3>1. j \in 1..n /\ j + 1 \in 1..n /\ j \in 1..Len(y) - 1 /\ Len(y) # 0
          /\ m + 2 + j = i /\ m + 2 + (j + 1) = i + 1
      BY <2>4, <1>4
    <3> HIDE DEF j
    <3>2. y[j] = ":" /\ y[j + 1] = ":"
      BY <3>1, <1>7, <1>8
    <3> QED
      BY <3>1, <3>2 DEF Single
  <2> QED
    BY <1>4, <2>1, <2>2, <2>3, <2>4
<1>9. Gaps(t) = {m + 1}
  <2>1. m + 1 \in 1..Len(t) - 1 /\ (m + 1) + 1 = m + 2
    BY <1>4
  <2> QED
    BY <2>1, <1>6, <1>8 DEF Gaps
<1>10. SubSeq(t, 1, m) = x
  <2>1. SubSeq(t, 1, m) \in Seq(S) /\ Len(SubSeq(t, 1, m)) = m
        /\ \A i \in 1..m : SubSeq(t, 1, m)[i] = t[i]
    BY <1>3, <1>4
  <2> DEFINE s == SubSeq(t, 1, m)
  <2> HIDE DEF s
  <2>2. s \in Seq(S) /\ Len(s) = Len(x) /\ \A i \in 1..Len(x) : s[i] = x[i]
    BY <2>1, <1>5 DEF s
  <2>3. s = x
    BY <2>2
  <2> QED
    BY <2>3 DEF s
<1>11. SubSeq(t, m + 3, Len(t)) = y
  <2> DEFINE s == SubSeq(t, m + 3, m + 2 + n)
  <2>1. s \in Seq(S) /\ Len(s) = n /\ \A i \in 1..n : s[i] = t[m + 2 + i]
    BY <1>3, <1>4
  <2> HIDE DEF s
  <2>2. s \in Seq(S) /\ Len(s) = Len(y) /\ \A i \in 1..Len(y) : s[i] = y[i]
    BY <2>1, <1>7
  <2>3. s = y
    BY <2>2
  <2> QED
    BY <2>3, <1>4 DEF s
<1>12. x \o <<":", ":">> \o y = t
  BY DEF t, u, g
<1> QED
  BY <1>3, <1>4, <1>9, <1>10, <1>11, <1>12 DEF Gapped

(* One side of a gap, or the whole text if there is none. *)
LEMMA SideOK ==
    ASSUME NEW L \in Seq(Piece(Text6, ":"))
    PROVE  /\ Delimited(L, ":") \in Seq(Text6) /\ Groups(Delimited(L, ":")) = L
           /\ Len(Delimited(L, ":")) = 0 \/ Single(Delimited(L, ":"), ":")
           /\ Len(L) # 0 => Single(Delimited(L, ":"), ":")
<1> DEFINE x == Delimited(L, ":")
<1>0. ":" \in Text6
  BY DEF Text6
<1>1. CASE Len(L) = 0
  <2>1. L = << >> /\ L \in Seq(Seq(Text6)) /\ << >> \in Seq(Text6)
    BY <1>1 DEF Piece
  <2>2. x = << >>
    BY <1>0, <1>1, <2>1, DelimitedAppend
  <2>3. x \in Seq(Text6) /\ Len(x) = 0
    BY <2>1, <2>2
  <2> QED
    BY <1>1, <2>1, <2>2, <2>3 DEF Groups
<1>2. CASE Len(L) # 0
  <2>1. x \in Seq(Text6) /\ Pieces(x, ":") = L /\ Single(x, ":")
    BY <1>0, <1>2, DelimitedOK
  <2> HIDE DEF x
  <2>2. x # << >>
    BY <2>1 DEF Single
  <2> QED
    BY <2>1, <2>2 DEF Groups, x
<1> QED
  BY <1>1, <1>2

(* The runs of zero groups, and the one that is not written out. *)
Runs6(h) == {r \in (1..8) \X (2..8) : r[1] + r[2] <= 9 /\ \A i \in r[1]..r[1] + r[2] - 1 : h[i] = 0}
Longest(r, R) == \A s \in R : r[2] > s[2] \/ (r[2] = s[2] /\ r[1] <= s[1])
Best(h) == CHOOSE r \in Runs6(h) : Longest(r, Runs6(h))

(* Of the runs of zero groups one is the longest and the first. *)
LEMMA BestOK ==
    ASSUME NEW h, Runs6(h) # {}
    PROVE  Best(h) \in Runs6(h)
<1> DEFINE R == Runs6(h)
           Key(r) == 100 - 10 * r[2] + r[1]
           M == {k \in Nat : \E r \in R : k = Key(r)}
<1>1. ASSUME NEW r \in R PROVE r[1] \in 1..8 /\ r[2] \in 2..8
  BY DEF Runs6
<1> HIDE DEF R
<1>2. M \in SUBSET Nat /\ M # {}
  <2>1. PICK r \in R : TRUE
    BY DEF R
  <2>2. Key(r) \in Nat
    BY <1>1
  <2> QED
    BY <2>1, <2>2
<1>3. PICK k \in M : \A j \in M : ~(<<j, k>> \in OpToRel(<, Nat))
  <2> HIDE DEF M
  <2> QED
    BY <1>2, NatLessThanWellFounded, WFMin
<1>4. PICK r \in R : k = Key(r)
  OBVIOUS
<1>5. ASSUME NEW s \in R PROVE r[2] > s[2] \/ (r[2] = s[2] /\ r[1] <= s[1])
  <2>0. r[1] \in 1..8 /\ r[2] \in 2..8 /\ s[1] \in 1..8 /\ s[2] \in 2..8
    BY <1>1
  <2>1. Key(s) \in Nat /\ Key(r) \in Nat
    BY <2>0
  <2>2. Key(s) \in M
    BY <2>1
  <2>3. ~(Key(s) < Key(r))
    <3> HIDE DEF M, Key
    <3> QED
      BY <1>3, <1>4, <2>1, <2>2 DEF OpToRel
  <2> QED
    BY <2>0, <2>3
<1>6. Longest(r, R)
  BY <1>5 DEF Longest
<1>7. Best(h) = CHOOSE q \in R : Longest(q, R)
  BY DEF Best, R
<1> QED
  BY <1>6, <1>7 DEF R

Groups6(h) == [i \in 1..8 |-> Numeral(h[i], 16)]

LEMMA ntop6Is ==
    ASSUME NEW h
    PROVE  ntop6(h) = IF Runs6(h) = {} THEN Delimited(Groups6(h), ":")
                      ELSE Delimited(SubSeq(Groups6(h), 1, Best(h)[1] - 1), ":") \o <<":", ":">>
                           \o Delimited(SubSeq(Groups6(h), Best(h)[1] + Best(h)[2], 8), ":")
BY DEF ntop6, Runs6, Longest, Best, Groups6

LEMMA Groups6OK ==
    ASSUME NEW h \in [1..8 -> Uint16]
    PROVE  /\ Groups6(h) \in Seq(Piece(Text6, ":")) /\ Len(Groups6(h)) = 8
           /\ \A i \in 1..8 : Groups6(h)[i] = Numeral(h[i], 16)
<1> DEFINE P == Piece(Text6, ":")
           g == Groups6(h)
<1>1. ASSUME NEW i \in 1..8 PROVE Numeral(h[i], 16) \in P
  <2>1. 16 \in Base /\ ":" \in {":", "."} /\ h[i] \in Uint16 /\ Text6 = Digits(16) \cup {":"}
    BY DEF Base, Text6
  <2> QED
    BY <2>1, NumeralPiece
<1> HIDE DEF P
<1>2. g \in [1..8 -> P] /\ \A i \in 1..8 : g[i] = Numeral(h[i], 16)
  BY <1>1 DEF Groups6
<1> HIDE DEF g
<1>3. g \in Seq(P) /\ Len(g) = 8
  BY <1>2, Enumerated
<1> QED
  BY <1>2, <1>3 DEF g, P

(* The text of an IPv6 address is that of no other. *)
LEMMA ntop6OK ==
    ASSUME NEW h \in [1..8 -> Uint16]
    PROVE  ntop6(h) \in Seq(Text6) /\ ntop6(h) # << >> /\ pton6(ntop6(h)) = h
<1> DEFINE g == Groups6(h)
           P == Piece(Text6, ":")
           t == ntop6(h)
<1>0. /\ g \in Seq(P) /\ Len(g) = 8 /\ (\A i \in 1..8 : g[i] = Numeral(h[i], 16))
      /\ P \subseteq Seq(Text6) /\ ":" \in Text6
  BY Groups6OK DEF Piece, Text6
<1>1. CASE Runs6(h) = {}
  <2>1. t = Delimited(g, ":")
    BY <1>1, ntop6Is
  <2>2. t \in Seq(Text6) /\ Groups(t) = g /\ Single(t, ":")
    <3> HIDE DEF g
    <3>1. Len(g) # 0
      BY <1>0
    <3> QED
      BY <1>0, <2>1, <3>1, SideOK
  <2> HIDE DEF g, P, t
  <2>3. Gaps(t) = {} /\ t # << >>
    BY <2>2 DEF Gaps, Single
  <2> DEFINE none == << >>
             k == 0
  <2>4. Left(t) = g /\ Right(t) = none
    BY <2>2, <2>3 DEF Left, Right, Groups
  <2>5. none \in Seq(Seq(Text6)) /\ Len(none) = 0 /\ g \in Seq(Seq(Text6))
    BY <1>0
  <2> HIDE DEF none
  <2>6. /\ Len(g) + k + Len(none) = 8 /\ k \in Nat
        /\ \A i \in 1..Len(g) : g[i] = Numeral(h[i], 16)
        /\ \A i \in 1..k : h[Len(g) + i] = 0
        /\ \A i \in 1..Len(none) : none[i] = Numeral(h[Len(g) + k + i], 16)
    BY <1>0, <2>5
  <2>7. (\A i, j \in Gaps(t) : i = j) /\ IF Gaps(t) = {} THEN k = 0 ELSE k >= 1
    BY <2>3
  <2> HIDE DEF k
  <2>8. Halves(t, h, g, none, k)
    BY <2>4, <2>6, <2>7 DEF Halves
  <2>9. pton6(t) = h
    BY <2>5, <2>6, <2>8, pton6OK
  <2> QED
    BY <2>2, <2>3, <2>9 DEF t
<1>2. CASE Runs6(h) # {}
  <2> DEFINE a == Best(h)[1]
             k == Best(h)[2]
             L == SubSeq(g, 1, a - 1)
             R == SubSeq(g, a + k, 8)
             x == Delimited(L, ":")
             y == Delimited(R, ":")
  <2>1. /\ a \in 1..8 /\ k \in 2..8 /\ a + k <= 9
        /\ \A i \in a..a + k - 1 : h[i] = 0
    BY <1>2, BestOK DEF Runs6
  <2>2. t = x \o <<":", ":">> \o y
    BY <1>2, ntop6Is
  <2> HIDE DEF a, k, g, P
  <2>3. /\ L \in Seq(P) /\ Len(L) = a - 1 /\ \A i \in 1..a - 1 : L[i] = g[i]
    <3>1. 1 \in 1..Len(g) + 1 /\ a - 1 \in 1 - 1..Len(g) /\ (a - 1) - 1 + 1 = a - 1
      BY <1>0, <2>1
    <3>2. L \in Seq(P) /\ Part(L, g, 1, a - 1)
      BY <1>0, <3>1, Parts
    <3> HIDE DEF L
    <3>3. \A i \in 1..a - 1 : 1 - 1 + i = i
      OBVIOUS
    <3> QED
      BY <3>1, <3>2, <3>3 DEF Part
  <2>4. /\ R \in Seq(P) /\ Len(R) = 9 - a - k /\ \A i \in 1..9 - a - k : R[i] = g[a + k - 1 + i]
    <3> DEFINE m == a + k
    <3>1. m \in 1..Len(g) + 1 /\ 8 \in m - 1..Len(g) /\ 8 - m + 1 = 9 - a - k
      BY <1>0, <2>1
    <3> HIDE DEF m
    <3>2. R \in Seq(P) /\ Part(R, g, m, 8)
      BY <1>0, <3>1, Parts DEF m
    <3> HIDE DEF R
    <3>3. Len(R) = 9 - a - k /\ \A i \in 1..9 - a - k : R[i] = g[m - 1 + i]
      BY <3>1, <3>2 DEF Part
    <3>4. ASSUME NEW i \in 1..9 - a - k PROVE R[i] = g[a + k - 1 + i]
      <4>1. R[i] = g[m - 1 + i]
        BY <3>3
      <4>2. m - 1 + i = a + k - 1 + i
        BY <2>1 DEF m
      <4> QED
        BY <4>1, <4>2
    <3> QED
      BY <3>2, <3>3, <3>4
  <2> HIDE DEF L, R
  <2>5. x \in Seq(Text6) /\ Groups(x) = L /\ (Len(x) = 0 \/ Single(x, ":"))
    BY <2>3, SideOK DEF P
  <2>6. y \in Seq(Text6) /\ Groups(y) = R /\ (Len(y) = 0 \/ Single(y, ":"))
    BY <2>4, SideOK DEF P
  <2> HIDE DEF x, y, t
  <2>7. /\ t \in Seq(Text6) /\ Len(t) = Len(x) + 2 + Len(y) /\ Gaps(t) = {Len(x) + 1}
        /\ SubSeq(t, 1, Len(x)) = x /\ SubSeq(t, Len(x) + 3, Len(t)) = y
    <3>1. t \in Seq(Text6) /\ Gapped(t, x, y)
      BY <1>0, <2>2, <2>5, <2>6, GapText
    <3> QED
      BY <3>1 DEF Gapped
  <2>8. Gaps(t) # {} /\ Gap(t) = Len(x) + 1 /\ Len(x) \in Nat /\ Len(y) \in Nat
    BY <2>5, <2>6, <2>7 DEF Gap
  <2>9. Left(t) = L /\ Right(t) = R
    <3>1. Gap(t) - 1 = Len(x) /\ Gap(t) + 2 = Len(x) + 3
      BY <2>8
    <3> QED
      BY <3>1, <2>5, <2>6, <2>7, <2>8 DEF Left, Right
  <2>10. (\A i, j \in Gaps(t) : i = j) /\ IF Gaps(t) = {} THEN k = 0 ELSE k >= 1
    BY <2>1, <2>7, <2>8
  <2>11. L \in Seq(Seq(Text6)) /\ R \in Seq(Seq(Text6)) /\ k \in Nat /\ Len(L) + k + Len(R) = 8
    <3>1. Len(L) + k + Len(R) = 8 /\ k \in Nat
      BY <2>1, <2>3, <2>4
    <3>2. \A X : X \in Seq(P) => X \in Seq(Seq(Text6))
      BY <1>0
    <3> QED
      BY <2>3, <2>4, <3>1, <3>2
  <2>12. ASSUME NEW i \in 1..Len(L) PROVE L[i] = Numeral(h[i], 16)
    <3>1. i \in 1..8 /\ i \in 1..a - 1
      BY <2>1, <2>3
    <3> QED
      BY <3>1, <1>0, <2>3
  <2>13. ASSUME NEW i \in 1..k PROVE h[Len(L) + i] = 0
    <3>1. Len(L) + i \in a..a + k - 1
      BY <2>1, <2>3
    <3> QED
      BY <3>1, <2>1
  <2>14. ASSUME NEW i \in 1..Len(R) PROVE R[i] = Numeral(h[Len(L) + k + i], 16)
    <3>1. i \in 1..9 - a - k /\ Len(L) + k + i = a + k - 1 + i /\ a + k - 1 + i \in 1..8
      BY <2>1, <2>3, <2>4
    <3> QED
      BY <3>1, <1>0, <2>4
  <2>15. pton6(t) = h
    <3>1. Halves(t, h, L, R, k)
      BY <2>9, <2>10, <2>11, <2>12, <2>13, <2>14 DEF Halves
    <3> QED
      BY <2>11, <3>1, pton6OK
  <2>16. t # << >>
    BY <2>7, <2>8
  <2> QED
    BY <2>7, <2>15, <2>16 DEF t
<1> QED
  BY <1>1, <1>2

-----------------------------------------------------------------------------
\* The loops that look for the port.

Scans(S) == [port : Uint16, text : Seq(S)]

LEMMA LookOK ==
    ASSUME NEW S, NEW s \in Scans(S), NEW i \in Int, NEW first \in Nat \ {0}, NEW cut \in Nat, cut <= first
    PROVE  /\ Look(s, i, first, cut) \in Scans(S)
           /\ Len(s.text) >= 1 /\ cut < first => Len(Look(s, i, first, cut).text) >= 1
<1>0. s.port \in Uint16 /\ s.text \in Seq(S) /\ Len(s.text) \in Nat
  BY DEF Scans
<1>1. CASE i >= first /\ i <= Len(s.text) /\ s.text[i] = ":"
  <2> DEFINE p == AsPort(SubSeq(s.text, i + 1, Len(s.text)))
             x == SubSeq(s.text, 1, i - cut)
  <2>1. i \in Nat /\ i - cut \in Nat /\ i - cut <= Len(s.text)
    BY <1>0, <1>1
  <2>2. x \in Seq(S) /\ Len(x) = i - cut
    BY <1>0, <2>1
  <2>3. SubSeq(s.text, i + 1, Len(s.text)) \in Seq(S)
    BY <1>0, <2>1
  <2>4. p \in Uint16
    BY <2>3, atoiOK
  <2>5. Look(s, i, first, cut) = [port |-> p, text |-> x]
    BY <1>1 DEF Look
  <2>6. cut < first => Len(x) >= 1
    BY <1>1, <2>1, <2>2
  <2> HIDE DEF p, x
  <2> QED
    BY <2>2, <2>4, <2>5, <2>6 DEF Scans
<1>2. CASE ~(i >= first /\ i <= Len(s.text) /\ s.text[i] = ":")
  <2>1. Look(s, i, first, cut) = s
    BY <1>2 DEF Look
  <2> QED
    BY <2>1
<1> QED
  BY <1>1, <1>2

(* The function Scan recurs by. *)
LookedAt(f, t, port, first, cut) ==
    /\ f[0] = [port |-> port, text |-> t]
    /\ \A n \in 1..6 : f[n] = Look(f[n - 1], Len(t) + 1 - n, first, cut)

LEMMA ScanRecurs ==
    ASSUME NEW S, NEW t \in Seq(S), NEW port \in Uint16,
           NEW first \in Nat \ {0}, NEW cut \in Nat, cut <= first
    PROVE  \E f \in [0..6 -> Scans(S)] : Scan(t, port, first, cut) = f[6] /\ LookedAt(f, t, port, first, cut)
<1> DEFINE N == 6
           base == [port |-> port, text |-> t]
           step == [n \in 1..N |-> [s \in Scans(S) |-> Look(s, Len(t) + 1 - n, first, cut)]]
           Body(f, n) == IF n = 0 THEN [port |-> port, text |-> t]
                         ELSE Look(f[n - 1], Len(t) + 1 - n, first, cut)
           Equation(f) == f = [n \in 0..N |-> Body(f, n)]
           after == CHOOSE f : Equation(f)
<1>0. N \in Nat /\ Len(t) \in Nat /\ Looks = N
  BY DEF Looks
<1>9. Scan(t, port, first, cut) = after[N]
  BY <1>0 DEF Scan
<1> HIDE DEF N
<1>1. base \in Scans(S)
  BY DEF Scans
<1>2. step \in [1..N -> [Scans(S) -> Scans(S)]]
  <2> SUFFICES ASSUME NEW n \in 1..N, NEW s \in Scans(S)
               PROVE  Look(s, Len(t) + 1 - n, first, cut) \in Scans(S)
    OBVIOUS
  <2>1. Len(t) + 1 - n \in Int
    BY <1>0
  <2> QED
    BY <2>1, LookOK
<1>4. PICK f \in [0..N -> Scans(S)] : Recurrence(f, N, base, step)
  <2> HIDE DEF step, base
  <2> QED
    BY <1>0, <1>1, <1>2, Recursion
<1>5. ASSUME NEW n \in 1..N, NEW s \in Scans(S)
      PROVE  step[n][s] = Look(s, Len(t) + 1 - n, first, cut)
  OBVIOUS
<1> HIDE DEF step
<1>6. Equation(f) /\ \A n \in 1..N : f[n] = Look(f[n - 1], Len(t) + 1 - n, first, cut)
  <2>1. ASSUME NEW n \in 1..N
        PROVE  f[n] = Body(f, n) /\ f[n] = Look(f[n - 1], Len(t) + 1 - n, first, cut)
    <3>1. n # 0 /\ n - 1 \in 0..N
      BY <1>0
    <3>2. f[n - 1] \in Scans(S) /\ f[n] = step[n][f[n - 1]]
      BY <3>1, <1>4 DEF Recurrence
    <3> QED
      BY <3>1, <3>2, <1>5
  <2>2. f[0] = Body(f, 0)
    BY <1>4 DEF Recurrence
  <2>3. \A n \in 0..N : n = 0 \/ n \in 1..N
    BY <1>0
  <2> HIDE DEF Body
  <2> QED
    BY <2>1, <2>2, <2>3
<1>7. Equation(after)
  <2> HIDE DEF Equation
  <2> QED BY <1>6
<1>8. \A n \in 0..N : after[n] = Body(after, n)
  <2> HIDE DEF after, Body
  <2> QED BY <1>7
<1> HIDE DEF after
<1>10. after[0] = base
  BY <1>0, <1>8
<1>11. ASSUME NEW n \in 1..N, after[n - 1] \in Scans(S) PROVE after[n] = step[n][after[n - 1]]
  <2>1. n # 0 /\ n \in 0..N
    BY <1>0
  <2>2. after[n] = Body(after, n)
    BY <2>1, <1>8
  <2> QED
    BY <2>1, <2>2, <1>5, <1>11
<1>12. after[N] = f[N]
  <2>1. Runs(f, N, Scans(S), base, step) /\ Follows(after, N, Scans(S), base, step)
    BY <1>4, <1>10, <1>11 DEF Runs, Follows
  <2> HIDE DEF base
  <2>2. Agree(after, f, N)
    BY <1>0, <2>1, OneRecurrence
  <2> QED
    BY <1>0, <2>2 DEF Agree
<1>13. f[0] = [port |-> port, text |-> t]
  BY <1>4 DEF Recurrence
<1>14. Scan(t, port, first, cut) = f[N]
  BY <1>9, <1>12
<1> QED
  BY <1>4, <1>6, <1>13, <1>14 DEF LookedAt, N

(* Whatever the text, the loops find a port of sixteen bits. *)
LEMMA ScanTypes ==
    ASSUME NEW S, NEW t \in Seq(S), NEW port \in Uint16,
           NEW first \in Nat \ {0}, NEW cut \in Nat, cut <= first
    PROVE  /\ Scan(t, port, first, cut) \in Scans(S)
           /\ Len(t) >= 1 /\ cut < first => Len(Scan(t, port, first, cut).text) >= 1
<1>1. PICK f \in [0..6 -> Scans(S)] :
         Scan(t, port, first, cut) = f[6] /\ LookedAt(f, t, port, first, cut)
  BY ScanRecurs
<1>2. ASSUME Len(t) >= 1, cut < first PROVE Len(f[6].text) >= 1
  <2> DEFINE N == 6
             T == {n \in 0..N : Len(f[n].text) >= 1}
  <2>1. 0 \in T
    BY <1>1, <1>2 DEF LookedAt
  <2>2. ASSUME NEW n \in 1..N, n - 1 \in T PROVE n \in T
    <3>1. n \in 0..N /\ n - 1 \in 0..N /\ f[n - 1] \in Scans(S) /\ Len(f[n - 1].text) >= 1
      BY <2>2
    <3>2. f[n] = Look(f[n - 1], Len(t) + 1 - n, first, cut)
      BY <1>1 DEF LookedAt
    <3>3. Len(t) + 1 - n \in Int
      OBVIOUS
    <3>4. Len(f[n].text) >= 1
      BY <3>1, <3>2, <3>3, <1>2, LookOK
    <3> QED
      BY <3>1, <3>4
  <2>3. N \in Nat /\ N = 6
    OBVIOUS
  <2> HIDE DEF T, N
  <2>4. 0..N \subseteq T
    BY <2>1, <2>2, <2>3, BoundedInduction
  <2>5. N \in T
    BY <2>3, <2>4
  <2> QED
    BY <2>3, <2>5 DEF T
<1> QED
  BY <1>1, <1>2

(* A text that has no ':' where they look is left alone. *)
LEMMA ScanUnseen ==
    ASSUME NEW S, NEW t \in Seq(S), NEW port \in Uint16,
           NEW first \in Nat \ {0}, NEW cut \in Nat, cut <= first,
           \A i \in 1..Len(t) : i >= first /\ i > Len(t) - 6 => t[i] # ":"
    PROVE  Scan(t, port, first, cut) = [port |-> port, text |-> t]
<1> DEFINE N == 6
           s == [port |-> port, text |-> t]
<1>1. PICK f \in [0..6 -> Scans(S)] :
         Scan(t, port, first, cut) = f[6] /\ LookedAt(f, t, port, first, cut)
  BY ScanRecurs
<1> DEFINE T == {n \in 0..N : f[n] = s}
<1>2. 0 \in T
  BY <1>1 DEF LookedAt
<1>3. ASSUME NEW n \in 1..N, n - 1 \in T PROVE n \in T
  <2> DEFINE i == Len(t) + 1 - n
  <2>1. n \in 0..N /\ f[n - 1] = s /\ f[n] = Look(s, i, first, cut)
    BY <1>1, <1>3 DEF LookedAt
  <2>2. s.text = t /\ i > Len(t) - 6 /\ i \in Int /\ Len(t) \in Nat
    OBVIOUS
  <2> HIDE DEF i, s
  <2>3. ~(i >= first /\ i <= Len(t) /\ t[i] = ":")
    BY <2>2
  <2>4. Look(s, i, first, cut) = s
    BY <2>2, <2>3 DEF Look
  <2> QED
    BY <2>1, <2>4
<1>4. N \in Nat /\ N = 6
  OBVIOUS
<1> HIDE DEF T, N
<1>5. 0..N \subseteq T
  BY <1>2, <1>3, <1>4, BoundedInduction
<1>6. N \in T
  BY <1>4, <1>5
<1> QED
  BY <1>1, <1>4, <1>6 DEF T

(* The only ':' where they look is where the port begins. *)
OneColon(t, first, m) ==
    /\ t[m] = ":"
    /\ \A i \in 1..Len(t) : i >= first /\ i > Len(t) - 6 /\ t[i] = ":" => i = m

(* A text whose only ":" is the one at m: from there on it is the port. *)
LEMMA ScanFound ==
    ASSUME NEW S, NEW t \in Seq(S), NEW port \in Uint16,
           NEW first \in Nat \ {0}, NEW cut \in Nat, cut <= first,
           NEW m \in 1..Len(t), m >= first, m > Len(t) - 6, OneColon(t, first, m)
    PROVE  Scan(t, port, first, cut) =
              [port |-> AsPort(SubSeq(t, m + 1, Len(t))), text |-> SubSeq(t, 1, m - cut)]
<1> DEFINE N == 6
           s == [port |-> port, text |-> t]
           x == SubSeq(t, 1, m - cut)
           found == [port |-> AsPort(SubSeq(t, m + 1, Len(t))), text |-> x]
<1>1. PICK f \in [0..6 -> Scans(S)] :
         Scan(t, port, first, cut) = f[6] /\ LookedAt(f, t, port, first, cut)
  BY ScanRecurs
<1> DEFINE T == {n \in 0..N : f[n] = IF Len(t) + 1 - n > m THEN s ELSE found}
<1>0. /\ x \in Seq(S) /\ Len(x) = m - cut /\ (\A i \in 1..m - cut : x[i] = t[i])
      /\ m - cut \in Nat /\ Len(t) \in Nat /\ m \in Nat
  <2>1. m - cut \in Nat /\ m - cut <= Len(t) /\ m \in Nat /\ Len(t) \in Nat
    OBVIOUS
  <2> QED
    BY <2>1
<1>2. 0 \in T
  BY <1>0, <1>1 DEF LookedAt
<1>3. ASSUME NEW n \in 1..N, n - 1 \in T PROVE n \in T
  <2> DEFINE i == Len(t) + 1 - n
  <2>1. /\ n \in 0..N /\ f[n] = Look(f[n - 1], i, first, cut)
        /\ Len(t) + 1 - (n - 1) = i + 1 /\ i \in Int /\ i <= Len(t) /\ i > Len(t) - 6
    <3>1. f[n] = Look(f[n - 1], i, first, cut)
      BY <1>1 DEF LookedAt
    <3> HIDE DEF s, found, x, T
    <3>2. n \in 0..N /\ Len(t) + 1 - (n - 1) = i + 1 /\ i \in Int /\ i <= Len(t) /\ i > Len(t) - 6
      <4>1. Len(t) \in Nat /\ n \in Int /\ 1 <= n /\ n <= 6
        BY <1>0
      <4> QED
        BY <4>1
    <3> QED
      BY <3>1, <3>2
  <2>2. f[n - 1] = IF i + 1 > m THEN s ELSE found
    BY <1>3, <2>1
  <2>3. s.text = t /\ found.text = x /\ found = [port |-> AsPort(SubSeq(t, m + 1, Len(t))), text |-> x]
    OBVIOUS
  <2> HIDE DEF i, s, found, x
  <2>4. CASE i > m
    <3>1. f[n - 1] = s
      BY <2>1, <2>2, <2>4, <1>0
    <3>2. t[i] # ":"
      BY <2>1, <2>4, <1>0 DEF OneColon
    <3>3. Look(s, i, first, cut) = s
      BY <2>3, <3>2 DEF Look
    <3> QED
      BY <2>1, <2>4, <3>1, <3>3 DEF i
  <2>5. CASE i = m
    <3>1. f[n - 1] = s
      BY <2>1, <2>2, <2>5, <1>0
    <3>2. Look(s, i, first, cut) = found
      BY <2>1, <2>3, <2>5, <1>0 DEF Look, x, OneColon
    <3>3. ~(i > m)
      BY <2>5, <1>0
    <3> QED
      BY <2>1, <3>1, <3>2, <3>3 DEF i
  <2>6. CASE i < m
    <3>1. f[n - 1] = found /\ ~(i > m)
      BY <2>1, <2>2, <2>6, <1>0
    <3>2. ~(i >= first /\ i <= Len(x) /\ x[i] = ":")
      <4> SUFFICES ASSUME i >= first, i <= Len(x), x[i] = ":" PROVE FALSE
        OBVIOUS
      <4>1. i \in 1..Len(t) /\ i \in 1..m - cut
        BY <2>1, <1>0
      <4>2. t[i] = ":"
        BY <4>1, <1>0
      <4>3. i = m
        BY <4>1, <4>2, <2>1 DEF OneColon
      <4> QED
        BY <4>3, <2>6, <1>0
    <3>3. Look(found, i, first, cut) = found
      BY <2>3, <3>2 DEF Look
    <3> QED
      BY <2>1, <3>1, <3>3 DEF i
  <2> QED
    BY <2>1, <2>4, <2>5, <2>6, <1>0
<1>4. N \in Nat /\ N = 6
  OBVIOUS
<1>5. N \in T
  <2> HIDE DEF T, N
  <2>1. 0..N \subseteq T
    BY <1>2, <1>3, <1>4, BoundedInduction
  <2> QED
    BY <1>4, <2>1
<1>6. ~(Len(t) + 1 - N > m)
  BY <1>0
<1>7. f[N] = found
  <2> HIDE DEF N, found, s
  <2> QED
    BY <1>5, <1>6
<1> QED
  BY <1>1, <1>4, <1>7

-----------------------------------------------------------------------------
\* What is printed is read.

(* A text with a port behind it. *)
Ported(t, x, d) ==
    /\ Len(t) = Len(x) + 1 + Len(d) /\ Len(x) \in Nat /\ Len(d) \in Nat
    /\ \A i \in 1..Len(x) : t[i] = x[i]
    /\ t[Len(x) + 1] = ":"
    /\ \A i \in 1..Len(d) : t[Len(x) + 1 + i] = d[i]
    /\ SubSeq(t, 1, Len(x)) = x /\ SubSeq(t, Len(x) + 2, Len(t)) = d

(* Where the parts of a text with a port are. *)
LEMMA PortedOK ==
    ASSUME NEW S, ":" \in S, NEW x \in Seq(S), NEW d \in Seq(S)
    PROVE  /\ x \o (<<":">> \o d) \in Seq(S) /\ Ported(x \o (<<":">> \o d), x, d)
           /\ x \o (<<":">> \o d) = x \o <<":">> \o d
<1> DEFINE c == <<":">>
           u == x \o c
           t == u \o d
           m == Len(x)
           n == Len(d)
<1>1. c \in Seq(S) /\ Len(c) = 1 /\ c[1] = ":"
  OBVIOUS
<1>2. x \o (c \o d) = t
  <2> HIDE DEF c
  <2> QED
    BY <1>1
<1> HIDE DEF c
<1>3. u \in Seq(S) /\ Chain(u, x, c)
  BY <1>1, Chained
<1> HIDE DEF u
<1>4. t \in Seq(S) /\ Chain(t, u, d)
  BY <1>3, Chained
<1> HIDE DEF t
<1>5. m \in Nat /\ n \in Nat /\ Len(u) = m + 1 /\ Len(t) = m + 1 + n
  BY <1>1, <1>3, <1>4 DEF Chain
<1>6. ASSUME NEW i \in 1..m PROVE t[i] = x[i]
  <2>1. i \in 1..Len(u)
    BY <1>5
  <2> QED
    BY <2>1, <1>3, <1>4 DEF Chain
<1>7. t[m + 1] = ":"
  <2>1. m + 1 \in 1..Len(u) /\ 1 \in 1..Len(c)
    BY <1>1, <1>5
  <2>2. u[m + 1] = c[1]
    BY <2>1, <1>3 DEF Chain
  <2> QED
    BY <2>1, <2>2, <1>1, <1>4 DEF Chain
<1>8. ASSUME NEW i \in 1..n PROVE t[m + 1 + i] = d[i]
  <2>1. t[Len(u) + i] = d[i]
    BY <1>4 DEF Chain
  <2> QED
    BY <2>1, <1>5
<1>9. SubSeq(t, 1, m) = x
  <2> DEFINE s == SubSeq(t, 1, m)
  <2>1. s \in Seq(S) /\ Len(s) = m /\ \A i \in 1..m : s[i] = t[i]
    BY <1>4, <1>5
  <2> HIDE DEF s
  <2>2. s \in Seq(S) /\ Len(s) = Len(x) /\ \A i \in 1..Len(x) : s[i] = x[i]
    BY <2>1, <1>6
  <2>3. s = x
    BY <2>2
  <2> QED
    BY <2>3 DEF s
<1>10. SubSeq(t, m + 2, Len(t)) = d
  <2> DEFINE s == SubSeq(t, m + 2, m + 1 + n)
  <2>1. s \in Seq(S) /\ Len(s) = n /\ \A i \in 1..n : s[i] = t[m + 1 + i]
    BY <1>4, <1>5
  <2> HIDE DEF s
  <2>2. s \in Seq(S) /\ Len(s) = Len(d) /\ \A i \in 1..Len(d) : s[i] = d[i]
    BY <2>1, <1>8
  <2>3. s = d
    BY <2>2
  <2> QED
    BY <2>3, <1>5 DEF s
<1>11. t \in Seq(S) /\ Ported(t, x, d)
  BY <1>4, <1>5, <1>6, <1>7, <1>8, <1>9, <1>10 DEF Ported
<1> QED
  BY <1>2, <1>11 DEF t, u, c

(* Fewer pieces than an IPv6 address has groups, and no gap, are no such address. *)
LEMMA NotIPv6 ==
    ASSUME NEW t, t # << >>, Gaps(t) = {}, Len(Pieces(t, ":")) \in 0..7
    PROVE  pton6(t) = << >>
<1> DEFINE L == Pieces(t, ":")
           none == << >>
<1>1. Left(t) = L /\ Right(t) = none
  BY DEF Left, Right, Groups
<1>2. Len(none) = 0
  OBVIOUS
<1> HIDE DEF L, none
<1>3. PICK n \in 0..7 : ZeroGroups(t) = 8 - n - 0
  BY <1>1, <1>2 DEF ZeroGroups, L
<1>4. ZeroGroups(t) # 0
  <2>1. 8 - n - 0 # 0
    OBVIOUS
  <2> QED
    BY <1>3, <2>1
<1>5. ~Good6(t)
  BY <1>4 DEF Good6
<1> QED
  BY <1>5, pton6Is

LEMMA NotBracketed ==
    ASSUME NEW t, t[1] # "["
    PROVE  Unbracket(t) = [port |-> 0, text |-> t]
BY DEF Unbracket

LEMMA NotEmpty == ASSUME NEW n \in Nat \ {0}, NEW h, DOMAIN h = 1..n PROVE h # << >>
<1>1. 1 \in DOMAIN h
  OBVIOUS
<1>2. DOMAIN << >> = {}
  OBVIOUS
<1> QED
  BY <1>1, <1>2

LEMMA OneIsFirst == 1 \in Nat \ {0} /\ 1 \in Nat /\ 1 <= 1
OBVIOUS

LEMMA ZeroPort == 0 \in Uint16
BY DEF Uint16

(* IPv4, with and without a port. *)
LEMMA IPv4IsRead ==
    ASSUME NEW h \in [1..4 -> Uint8], NEW p \in Uint16
    PROVE  /\ ntop4(h) \o PortText(p) \in Seq(Text4 \cup {":"})
           /\ Parse(ntop4(h) \o PortText(p)) = IPv4(h, p)
<1> DEFINE S == Text4 \cup {":"}
           x == ntop4(h)
           t == x \o PortText(p)
           d == Numeral(p, 10)
<1>1. x \in Seq(Text4) /\ x \in Seq(S) /\ Len(x) \in Nat \ {0} /\ x # << >> /\ pton4(x) = h
  BY ntop4OK
<1>2. ASSUME NEW i \in 1..Len(x) PROVE x[i] # ":" /\ x[i] # "["
  BY <1>1, TextChars
<1>3. /\ d \in Seq(S) /\ Len(d) \in 1..5 /\ AsPort(d) = p
      /\ \A i \in 1..Len(d) : d[i] # ":"
  <2>1. d \in Seq(Digits(10)) /\ Len(d) \in 1..5 /\ AsPort(d) = p
    BY PortIsRead
  <2> HIDE DEF d
  <2>2. \A c \in Digits(10) : c # ":"
    BY DigitsOK DEF Base
  <2> QED
    BY <2>1, <2>2 DEF Text4
<1>4. ":" \in S
  OBVIOUS
<1> HIDE DEF x, d, S
<1>5. /\ t \in Seq(S) /\ t[1] # "[" /\ t # << >> /\ Gaps(t) = {} /\ Len(Pieces(t, ":")) \in 0..7
      /\ Scan(t, 0, 1, 1) = [port |-> p, text |-> x]
  <2>1. CASE p = 0
    <3>1. t = x
      BY <2>1, <1>1 DEF PortText
    <3> HIDE DEF t
    <3>2. Gaps(t) = {}
      BY <3>1, <1>2 DEF Gaps
    <3>3. Pieces(t, ":") = <<x>> /\ Len(<<x>>) = 1
      BY <3>1, <1>1, <1>2, OnePiece
    <3>4. t[1] # "["
      BY <3>1, <1>1, <1>2
    <3>5. Scan(x, 0, 1, 1) = [port |-> 0, text |-> x]
      BY <1>1, <1>2, ZeroPort, ScanUnseen
    <3> QED
      BY <2>1, <3>1, <3>2, <3>3, <3>4, <3>5, <1>1
  <2>2. CASE p # 0
    <3>1. t = x \o (<<":">> \o d)
      BY <2>2 DEF PortText, d
    <3>2. t \in Seq(S) /\ Ported(t, x, d) /\ t = x \o <<":">> \o d
      BY <3>1, <1>1, <1>3, <1>4, PortedOK
    <3> HIDE DEF t
    <3> DEFINE m == Len(x) + 1
    <3>3. /\ Len(t) = m + Len(d) /\ m \in Nat \ {0, 1} /\ t[m] = ":" /\ Len(d) \in 1..5
          /\ \A i \in 1..Len(x) : t[i] = x[i]
          /\ \A i \in 1..Len(d) : t[m + i] = d[i]
          /\ SubSeq(t, 1, m - 1) = x /\ SubSeq(t, m + 1, Len(t)) = d
      <4>1. /\ m + 1 = Len(x) + 2 /\ m - 1 = Len(x) /\ m \in Nat \ {0, 1}
            /\ Len(x) + 1 = m
        BY <1>1
      <4> HIDE DEF m
      <4>2. t[m] = ":" /\ Len(t) = m + Len(d) /\ \A i \in 1..Len(d) : t[m + i] = d[i]
        BY <4>1, <3>2 DEF Ported
      <4>3. SubSeq(t, 1, m - 1) = x /\ SubSeq(t, m + 1, Len(t)) = d
        BY <4>1, <3>2 DEF Ported
      <4>4. \A i \in 1..Len(x) : t[i] = x[i]
        BY <3>2 DEF Ported
      <4> QED
        BY <4>1, <4>2, <4>3, <4>4, <1>3
    <3>4. ASSUME NEW i \in 1..Len(t), t[i] = ":" PROVE i = m
      <4>1. CASE i < m
        <5>1. i \in 1..Len(x)
          BY <4>1, <1>1
        <5> QED
          BY <5>1, <3>3, <3>4, <1>2
      <4>2. CASE i > m
        <5> DEFINE j == i - m
        <5>1. j \in 1..Len(d) /\ m + j = i
          BY <4>2, <3>3
        <5> HIDE DEF j
        <5>2. t[m + j] = d[j] /\ d[j] # ":"
          BY <5>1, <3>3, <1>3
        <5> QED
          BY <5>1, <5>2, <3>4
      <4> QED
        BY <4>1, <4>2, <3>3
    <3> HIDE DEF m
    <3>5. Gaps(t) = {}
      <4> SUFFICES ASSUME NEW i \in Gaps(t) PROVE FALSE
        OBVIOUS
      <4>1. i \in 1..Len(t) - 1 /\ t[i] = ":" /\ t[i + 1] = ":"
        BY DEF Gaps
      <4>2. i \in 1..Len(t) /\ i + 1 \in 1..Len(t)
        BY <4>1, <3>3
      <4> QED
        BY <4>1, <4>2, <3>4
    <3>6. Len(Pieces(t, ":")) = 2
      <4>1. Pieces(x, ":") = <<x>>
        BY <1>1, <1>2, OnePiece
      <4>2. Pieces(t, ":") = Append(<<x>>, d)
        BY <4>1, <3>2, <1>1, <1>3, <1>4, NextPiece
      <4> QED
        BY <4>2
    <3>7. t[1] # "[" /\ t # << >>
      <4>1. 1 \in 1..Len(x) /\ Len(t) # 0
        BY <1>1, <1>3, <3>3
      <4> QED
        BY <4>1, <1>2, <3>3
    <3>8. Scan(t, 0, 1, 1) = [port |-> AsPort(SubSeq(t, m + 1, Len(t))), text |-> SubSeq(t, 1, m - 1)]
      <4>1. m \in 1..Len(t) /\ m >= 1 /\ m > Len(t) - 6
        <5> DEFINE k == Len(t)
                   j == Len(d)
        <5>1. k = m + j /\ m \in Nat /\ m >= 1 /\ j \in 1..5
          <6>1. j \in 1..5
            BY <1>3
          <6>2. m \in Nat /\ m >= 1
            BY <1>1 DEF m
          <6>3. k = m + j
            BY <3>2 DEF Ported, m
          <6> QED
            BY <6>1, <6>2, <6>3
        <5> HIDE DEF k, j
        <5>2. m \in 1..k /\ m >= 1 /\ m > k - 6
          BY <5>1
        <5> QED
          BY <5>2 DEF k
      <4>2. OneColon(t, 1, m)
        BY <3>3, <3>4 DEF OneColon
      <4> QED
        BY <4>1, <4>2, <3>2, ZeroPort, OneIsFirst, ScanFound
    <3>9. Scan(t, 0, 1, 1) = [port |-> p, text |-> x]
      BY <3>8, <3>3, <1>3
    <3> QED
      BY <3>2, <3>5, <3>6, <3>7, <3>9
  <2> QED
    BY <2>1, <2>2
<1> HIDE DEF t
<1>6. pton6(t) = << >>
  BY <1>5, NotIPv6
<1>7. Unbracket(t) = [port |-> 0, text |-> t]
  BY <1>5, NotBracketed
<1>8. h # << >>
  <2>1. 4 \in Nat \ {0} /\ DOMAIN h = 1..4
    OBVIOUS
  <2> QED
    BY <2>1, NotEmpty
<1>9. Parse(t) = IPv4(h, p)
  BY <1>1, <1>5, <1>6, <1>7, <1>8 DEF Parse
<1> QED
  BY <1>5, <1>9 DEF t, x, S

(* IPv6 without a port. *)
LEMMA IPv6IsRead ==
    ASSUME NEW h \in [1..8 -> Uint16]
    PROVE  ntop6(h) \in Seq(Text6) /\ Parse(ntop6(h)) = IPv6(h, 0)
<1> DEFINE t == ntop6(h)
<1>1. t \in Seq(Text6) /\ t # << >> /\ pton6(t) = h
  BY ntop6OK
<1> HIDE DEF t
<1>2. t[1] # "["
  BY <1>1, TextChars
<1>3. Unbracket(t) = [port |-> 0, text |-> t]
  BY <1>2, NotBracketed
<1>4. h # << >>
  <2>1. 8 \in Nat \ {0} /\ DOMAIN h = 1..8
    OBVIOUS
  <2> QED
    BY <2>1, NotEmpty
<1>5. Parse(t) = IPv6(h, 0)
  BY <1>1, <1>3, <1>4 DEF Parse
<1> QED
  BY <1>1, <1>5 DEF t

(* IPv6 with a port, in brackets, if no ':' is looked at but that of the port. *)
BracketText(x, d) == <<"[">> \o x \o <<"]">> \o (<<":">> \o d)
Text7 == Text6 \cup {"[", "]"}

LEMMA BracketTextOK ==
    ASSUME NEW x \in Seq(Text7), NEW d \in Seq(Text7)
    PROVE  LET t == BracketText(x, d) IN
           /\ t \in Seq(Text7) /\ Len(t) = Len(x) + 3 + Len(d) /\ t[1] = "[" /\ t[Len(x) + 3] = ":"
           /\ Len(x) \in Nat /\ Len(d) \in Nat
           /\ SubSeq(t, Len(x) + 4, Len(t)) = d /\ Tail(SubSeq(t, 1, Len(x) + 1)) = x
<1> DEFINE b == <<"[">>
           e == <<"]">>
           w == b \o x
           y == w \o e
           t == y \o (<<":">> \o d)
           n == Len(x)
<1>1. /\ b \in Seq(Text7) /\ Len(b) = 1 /\ b[1] = "["
      /\ e \in Seq(Text7) /\ Len(e) = 1
      /\ ":" \in Text7
  BY DEF Text7, Text6
<1>2. BracketText(x, d) = t
  BY DEF BracketText
<1> HIDE DEF b, e
<1>3. w \in Seq(Text7) /\ Chain(w, b, x)
  BY <1>1, Chained
<1> HIDE DEF w
<1>4. y \in Seq(Text7) /\ Chain(y, w, e)
  BY <1>1, <1>3, Chained
<1> HIDE DEF y
<1>5. t \in Seq(Text7) /\ Ported(t, y, d)
  BY <1>1, <1>4, PortedOK
<1> HIDE DEF t
<1>6. n \in Nat /\ Len(w) = n + 1 /\ Len(y) = n + 2 /\ Len(d) \in Nat /\ Len(t) = n + 3 + Len(d)
  BY <1>1, <1>3, <1>4, <1>5 DEF Chain, Ported
<1>7. ASSUME NEW i \in 1..n + 1 PROVE t[i] = w[i]
  <2>1. i \in 1..Len(w) /\ i \in 1..Len(y)
    BY <1>6
  <2>2. y[i] = w[i]
    BY <2>1, <1>4 DEF Chain
  <2>3. t[i] = y[i]
    BY <2>1, <1>5 DEF Ported
  <2> QED
    BY <2>2, <2>3
<1>8. t[1] = "["
  <2>1. 1 \in 1..n + 1 /\ 1 \in 1..Len(b)
    BY <1>1, <1>6
  <2>2. w[1] = b[1]
    BY <2>1, <1>3 DEF Chain
  <2> QED
    BY <2>1, <2>2, <1>1, <1>7
<1>9. t[n + 3] = ":" /\ SubSeq(t, n + 4, Len(t)) = d
  <2>1. Len(y) + 1 = n + 3 /\ Len(y) + 2 = n + 4
    BY <1>6
  <2>2. t[Len(y) + 1] = ":" /\ SubSeq(t, Len(y) + 2, Len(t)) = d
    BY <1>5 DEF Ported
  <2> QED
    BY <2>1, <2>2
<1>10. Tail(SubSeq(t, 1, n + 1)) = x
  <2> DEFINE s == SubSeq(t, 1, n + 1)
             r == Tail(s)
  <2>1. s \in Seq(Text7) /\ Len(s) = n + 1 /\ \A i \in 1..n + 1 : s[i] = t[i]
    BY <1>5, <1>6
  <2> HIDE DEF s
  <2>2. r \in Seq(Text7) /\ Len(r) = n /\ \A i \in 1..n : r[i] = s[i + 1]
    BY <2>1, <1>6
  <2> HIDE DEF r
  <2>3. ASSUME NEW i \in 1..n PROVE r[i] = x[i]
    <3>1. i + 1 \in 1..n + 1 /\ Len(b) + i = i + 1
      BY <1>1, <1>6
    <3>2. r[i] = w[i + 1]
      BY <3>1, <2>1, <2>2, <1>7
    <3>3. w[Len(b) + i] = x[i]
      BY <1>3 DEF Chain
    <3> QED
      BY <3>1, <3>2, <3>3
  <2>4. r = x
    BY <2>2, <2>3
  <2> QED
    BY <2>4 DEF r, s
<1> QED
  BY <1>2, <1>5, <1>6, <1>8, <1>9, <1>10

(* The last ":" is behind the bracket, which is cut away with it. *)
LEMMA BracketIsRead ==
    ASSUME NEW h \in [1..8 -> Uint16], NEW p \in Uint16, p # 0, Unambiguous(IPv6(h, p))
    PROVE  Parse(ToText(IPv6(h, p))) = IPv6(h, p)
<1> DEFINE a == IPv6(h, p)
           x == ntop6(h)
           d == Numeral(p, 10)
           t == BracketText(x, d)
           m == Len(x) + 3
<1>1. a.type = "ipv6" /\ a.port = p /\ a.host = h
  BY DEF IPv6
<1>2. ToText(a) = t
  BY <1>1 DEF ToText, PortText, BracketText
<1>3. x \in Seq(Text7) /\ Len(x) \in Nat \ {0} /\ pton6(x) = h
  BY ntop6OK DEF Text7
<1>4. d \in Seq(Text7) /\ Len(d) \in 1..5 /\ AsPort(d) = p
  <2>1. d \in Seq(Digits(10)) /\ Len(d) \in 1..5 /\ AsPort(d) = p
    BY PortIsRead
  <2> HIDE DEF d
  <2>2. Digits(10) \subseteq Digits(16)
    BY DEF Digits
  <2> QED
    BY <2>1, <2>2 DEF Text7, Text6
<1>5. \A i \in 4..Len(t) : i > Len(t) - 6 /\ t[i] = ":" => i = Len(t) - Len(d)
  BY <1>1, <1>2 DEF Unambiguous
<1> HIDE DEF x, d, a
<1>6. /\ t \in Seq(Text7) /\ Len(t) = Len(x) + 3 + Len(d) /\ t[1] = "[" /\ t[Len(x) + 3] = ":"
      /\ SubSeq(t, Len(x) + 4, Len(t)) = d /\ Tail(SubSeq(t, 1, Len(x) + 1)) = x
  BY <1>3, <1>4, BracketTextOK
<1> HIDE DEF t
<1>7. /\ m \in 1..Len(t) /\ m >= 4 /\ m > Len(t) - 6 /\ Len(t) - Len(d) = m
      /\ m + 1 = Len(x) + 4 /\ m - 2 = Len(x) + 1 /\ m = Len(x) + 3
  <2> DEFINE k == Len(t)
             j == Len(d)
             n == Len(x)
  <2>1. k = n + 3 + j /\ n \in Nat \ {0} /\ j \in 1..5
    BY <1>3, <1>4, <1>6
  <2> HIDE DEF k, j, n
  <2>2. /\ n + 3 \in 1..k /\ n + 3 >= 4 /\ n + 3 > k - 6 /\ k - j = n + 3
        /\ n + 3 + 1 = n + 4 /\ n + 3 - 2 = n + 1
    BY <2>1
  <2> QED
    BY <2>2 DEF k, j, n
<1> HIDE DEF m
<1>8. OneColon(t, 4, m)
  BY <1>5, <1>6, <1>7 DEF OneColon
<1>9. Scan(t, 0, 4, 2) = [port |-> AsPort(SubSeq(t, m + 1, Len(t))), text |-> SubSeq(t, 1, m - 2)]
  <2>1. 4 \in Nat \ {0} /\ 2 \in Nat /\ 2 <= 4
    OBVIOUS
  <2>2. t \in Seq(Text7) /\ m \in 1..Len(t) /\ m >= 4 /\ m > Len(t) - 6
    BY <1>6, <1>7
  <2> QED
    BY <2>1, <2>2, <1>8, ZeroPort, ScanFound
<1>10. Scan(t, 0, 4, 2) = [port |-> p, text |-> SubSeq(t, 1, Len(x) + 1)]
  BY <1>4, <1>6, <1>7, <1>9
<1>11. t # << >>
  BY <1>6, <1>7
<1>12. Unbracket(t) = [port |-> p, text |-> x]
  <2> DEFINE y == SubSeq(t, 1, Len(x) + 1)
             r == [port |-> p, text |-> y]
  <2>1. Unbracket(t) = [port |-> r.port, text |-> Tail(r.text)]
    BY <1>6, <1>10, <1>11 DEF Unbracket
  <2>2. Tail(y) = x
    BY <1>6
  <2> HIDE DEF y
  <2>3. r.port = p /\ r.text = y
    OBVIOUS
  <2> QED
    BY <2>1, <2>2, <2>3
<1>13. h # << >>
  <2>1. 8 \in Nat \ {0} /\ DOMAIN h = 1..8
    OBVIOUS
  <2> QED
    BY <2>1, NotEmpty
<1>14. Parse(t) = IPv6(h, p)
  BY <1>3, <1>12, <1>13 DEF Parse
<1> QED
  BY <1>2, <1>14 DEF a

(* The addresses a program can hold. *)
IsAddress(a) ==
    \/ \E p \in Uint16 : a = [type |-> "undefined", host |-> << >>, port |-> p]
    \/ \E h \in [1..4 -> Uint8], p \in Uint16 : a = IPv4(h, p)
    \/ \E h \in [1..8 -> Uint16], p \in Uint16 : a = IPv6(h, p)

(* Whatever text it is given, the parser makes an address. *)
LEMMA ParseTypes ==
    ASSUME NEW S, NEW t \in Seq(S)
    PROVE  IsAddress(Parse(t))
<1> DEFINE six == Unbracket(t)
           four == Scan(six.text, six.port, 1, 1)
<1>1. six.port \in Uint16 /\ six.text \in Seq(S)
  <2>1. CASE t # << >> /\ t[1] = "["
    <3> DEFINE s == Scan(t, 0, 4, 2)
    <3>1. 4 \in Nat \ {0} /\ 2 \in Nat /\ 2 <= 4 /\ 2 < 4 /\ Len(t) >= 1
      BY <2>1
    <3>2. s \in Scans(S) /\ Len(s.text) >= 1
      BY <3>1, ZeroPort, ScanTypes
    <3> HIDE DEF s
    <3>3. s.port \in Uint16 /\ s.text \in Seq(S) /\ Len(s.text) >= 1
      BY <3>2 DEF Scans
    <3>4. Tail(s.text) \in Seq(S)
      BY <3>3
    <3>5. six = [port |-> s.port, text |-> Tail(s.text)]
      BY <2>1 DEF Unbracket, s
    <3> QED
      BY <3>3, <3>4, <3>5
  <2>2. CASE ~(t # << >> /\ t[1] = "[")
    <3>1. six = [port |-> 0, text |-> t]
      BY <2>2 DEF Unbracket
    <3> QED
      BY <3>1, ZeroPort
  <2> QED
    BY <2>1, <2>2
<1> HIDE DEF six
<1>2. four.port \in Uint16
  <2>1. four \in Scans(S)
    BY <1>1, OneIsFirst, ScanTypes
  <2> QED
    BY <2>1 DEF Scans
<1> HIDE DEF four
<1>3. pton6(six.text) = << >> \/ pton6(six.text) \in [1..8 -> Uint16]
  BY <1>1, pton6Types
<1>4. pton4(four.text) = << >> \/ pton4(four.text) \in [1..4 -> Uint8]
  BY pton4Types
<1>5. Parse(t) = IF pton6(six.text) # << >> THEN IPv6(pton6(six.text), six.port)
                 ELSE IF pton4(four.text) # << >> THEN IPv4(pton4(four.text), four.port)
                 ELSE Undefined
  BY DEF Parse, six, four
<1>6. IsAddress(Undefined)
  BY ZeroPort DEF IsAddress, Undefined
<1> QED
  BY <1>1, <1>2, <1>3, <1>4, <1>5, <1>6 DEF IsAddress

LEMMA ToTextIs ==
    ASSUME NEW h, NEW p
    PROVE  /\ ToText(IPv4(h, p)) = ntop4(h) \o PortText(p)
           /\ p = 0 => ToText(IPv6(h, p)) = ntop6(h)
           /\ p # 0 => ToText(IPv6(h, p)) = BracketText(ntop6(h), Numeral(p, 10))
<1> DEFINE a == IPv4(h, p)
           b == IPv6(h, p)
<1>1. a.type = "ipv4" /\ a.host = h /\ a.port = p /\ b.type = "ipv6" /\ b.host = h /\ b.port = p
  BY DEF IPv4, IPv6
<1> HIDE DEF a, b
<1>2. ToText(a) = ntop4(h) \o PortText(p)
  BY <1>1 DEF ToText
<1>3. p = 0 => ToText(b) = ntop6(h)
  BY <1>1 DEF ToText
<1>4. p # 0 => ToText(b) = <<"[">> \o ntop6(h) \o <<"]">> \o PortText(p)
  BY <1>1 DEF ToText
<1> QED
  BY <1>2, <1>3, <1>4 DEF a, b, BracketText, PortText

(* Whatever address it is, it prints a sequence of characters. *)
LEMMA ToTextTypes ==
    ASSUME NEW a, IsAddress(a)
    PROVE  \E S : ToText(a) \in Seq(S)
<1>1. CASE \E p \in Uint16 : a = [type |-> "undefined", host |-> << >>, port |-> p]
  <2>1. a.type = "undefined"
    BY <1>1
  <2> DEFINE u == <<"u", "n", "d", "e", "f", "i", "n", "e", "d">>
  <2>2. ToText(a) = u
    BY <2>1 DEF ToText
  <2>3. u \in Seq({"u", "n", "d", "e", "f", "i"})
    OBVIOUS
  <2> QED
    BY <2>2, <2>3
<1>2. CASE \E h \in [1..4 -> Uint8], p \in Uint16 : a = IPv4(h, p)
  BY <1>2, IPv4IsRead, ToTextIs
<1>3. CASE \E h \in [1..8 -> Uint16], p \in Uint16 : a = IPv6(h, p)
  <2>1. PICK h \in [1..8 -> Uint16], p \in Uint16 : a = IPv6(h, p)
    BY <1>3
  <2>2. ntop6(h) \in Seq(Text6) /\ ntop6(h) \in Seq(Text7)
    BY ntop6OK DEF Text7
  <2>3. Numeral(p, 10) \in Seq(Text7)
    <3> DEFINE d == Numeral(p, 10)
    <3>1. d \in Seq(Digits(10)) /\ Digits(10) \subseteq Digits(16)
      BY PortIsRead DEF Digits
    <3> HIDE DEF d
    <3> QED
      BY <3>1 DEF Text7, Text6, d
  <2>4. BracketText(ntop6(h), Numeral(p, 10)) \in Seq(Text7)
    BY <2>2, <2>3, BracketTextOK
  <2> QED
    BY <2>1, <2>2, <2>4, ToTextIs
<1> QED
  BY <1>1, <1>2, <1>3 DEF IsAddress

(* Whatever the address of a host, its text is read as that address: IPv4 with *)
(* every port, IPv6 without a port, and IPv6 with a port if the loop that looks *)
(* for it sees no other ':' (Address.cpp:119-187 and 223-256).                  *)
THEOREM PrintedIsRead ==
    /\ \A h \in [1..4 -> Uint8], p \in Uint16 : Parse(ToText(IPv4(h, p))) = IPv4(h, p)
    /\ \A h \in [1..8 -> Uint16], p \in Uint16 :
          Unambiguous(IPv6(h, p)) => Parse(ToText(IPv6(h, p))) = IPv6(h, p)
<1>1. ASSUME NEW h \in [1..4 -> Uint8], NEW p \in Uint16 PROVE Parse(ToText(IPv4(h, p))) = IPv4(h, p)
  BY IPv4IsRead, ToTextIs
<1>2. ASSUME NEW h \in [1..8 -> Uint16], NEW p \in Uint16, Unambiguous(IPv6(h, p))
      PROVE  Parse(ToText(IPv6(h, p))) = IPv6(h, p)
  <2>1. CASE p = 0
    BY <2>1, IPv6IsRead, ToTextIs
  <2>2. CASE p # 0
    BY <2>2, <1>2, BracketIsRead
  <2> QED
    BY <2>1, <2>2
<1> QED
  BY <1>1, <1>2

-----------------------------------------------------------------------------
\* The program.

(* A copy that has been made was made of the text of the address printed last. *)
AddressInv ==
    /\ IsAddress(address) /\ IsAddress(printed) /\ IsAddress(copy)
    /\ text # << >> => text = ToText(printed)
    /\ read \in BOOLEAN
    /\ read => text # << >> /\ copy = Parse(text)

(* The addresses the operations make. *)
LEMMA MadeOK ==
    /\ \A p \in Ports : Truncate(p) \in Uint16
    /\ \A h \in Hosts4, p \in Uint16 : IsAddress(IPv4(h, p))
    /\ \A h \in Hosts6, p \in Uint16 : IsAddress(IPv6(h, p))
    /\ \A a : \A p \in Uint16 : IsAddress(a) => IsAddress([a EXCEPT !.port = p])
    /\ \A t \in Texts : IsAddress(Parse(t))
    /\ IsAddress(Undefined)
<1>1. ASSUME NEW p \in Ports PROVE Truncate(p) \in Uint16
  <2>1. p \in Int
    BY AddressAssumption
  <2>2. p % 65536 \in Nat /\ p % 65536 < 65536
    BY <2>1
  <2> QED
    BY <2>2 DEF Truncate, Uint16
<1>2. /\ \A h \in Hosts4, p \in Uint16 : IsAddress(IPv4(h, p))
      /\ \A h \in Hosts6, p \in Uint16 : IsAddress(IPv6(h, p))
  BY AddressAssumption DEF IsAddress
<1>3. ASSUME NEW a, NEW p \in Uint16, IsAddress(a) PROVE IsAddress([a EXCEPT !.port = p])
  <2>1. CASE \E q \in Uint16 : a = [type |-> "undefined", host |-> << >>, port |-> q]
    <3>1. [a EXCEPT !.port = p] = [type |-> "undefined", host |-> << >>, port |-> p]
      BY <2>1
    <3> QED
      BY <3>1 DEF IsAddress
  <2>2. CASE \E h \in [1..4 -> Uint8], q \in Uint16 : a = IPv4(h, q)
    <3>1. PICK h \in [1..4 -> Uint8], q \in Uint16 : a = IPv4(h, q)
      BY <2>2
    <3>2. [a EXCEPT !.port = p] = IPv4(h, p)
      BY <3>1 DEF IPv4
    <3> QED
      BY <3>2 DEF IsAddress
  <2>3. CASE \E h \in [1..8 -> Uint16], q \in Uint16 : a = IPv6(h, q)
    <3>1. PICK h \in [1..8 -> Uint16], q \in Uint16 : a = IPv6(h, q)
      BY <2>3
    <3>2. [a EXCEPT !.port = p] = IPv6(h, p)
      BY <3>1 DEF IPv6
    <3> QED
      BY <3>2 DEF IsAddress
  <2> QED
    BY <1>3, <2>1, <2>2, <2>3 DEF IsAddress
<1>4. ASSUME NEW t \in Texts PROVE IsAddress(Parse(t))
  <2>1. t \in Seq({t[i] : i \in DOMAIN t})
    BY AddressAssumption DEF IsText
  <2> QED
    BY <2>1, ParseTypes
<1>5. IsAddress(Undefined)
  BY ZeroPort DEF IsAddress, Undefined
<1> QED
  BY <1>1, <1>2, <1>3, <1>4, <1>5

(* Every operation makes addresses of addresses. *)
LEMMA AddressStep == AddressInv /\ [AddressNext]_addressVars => AddressInv'
<1> SUFFICES ASSUME AddressInv, [AddressNext]_addressVars PROVE AddressInv'
  OBVIOUS
<1> USE DEF AddressInv
<1>0. ASSUME NEW a, IsAddress(a), Become(a) PROVE AddressInv'
  BY <1>0 DEF Become
<1>1. CASE \E p \in Ports : Make(p) \/ SetPort(p)
  <2>1. PICK p \in Ports : Make(p) \/ SetPort(p)
    BY <1>1
  <2>2. Truncate(p) \in Uint16
    BY MadeOK
  <2>3. CASE Make(p)
    <3>1. CASE \E h \in Hosts4 : Become(IPv4(h, Truncate(p)))
      <4>1. PICK h \in Hosts4 : Become(IPv4(h, Truncate(p)))
        BY <3>1
      <4>2. IsAddress(IPv4(h, Truncate(p)))
        BY <2>2, MadeOK
      <4> QED
        BY <4>1, <4>2, <1>0
    <3>2. CASE \E h \in Hosts6 : Become(IPv6(h, Truncate(p)))
      <4>1. PICK h \in Hosts6 : Become(IPv6(h, Truncate(p)))
        BY <3>2
      <4>2. IsAddress(IPv6(h, Truncate(p)))
        BY <2>2, MadeOK
      <4> QED
        BY <4>1, <4>2, <1>0
    <3> QED
      BY <2>3, <3>1, <3>2 DEF Make
  <2>4. CASE SetPort(p)
    <3>1. IsAddress([address EXCEPT !.port = Truncate(p)])
      BY <2>2, MadeOK
    <3> QED
      BY <2>4, <3>1, <1>0 DEF SetPort
  <2> QED
    BY <2>1, <2>3, <2>4
<1>2. CASE \E t \in Texts : MakeOfText(t) \/ \E p \in Ports : MakeOfTextAndPort(t, p)
  <2>1. PICK t \in Texts : MakeOfText(t) \/ \E p \in Ports : MakeOfTextAndPort(t, p)
    BY <1>2
  <2>2. IsAddress(Parse(t))
    BY MadeOK
  <2>3. CASE MakeOfText(t)
    BY <2>2, <2>3, <1>0 DEF MakeOfText
  <2>4. CASE \E p \in Ports : MakeOfTextAndPort(t, p)
    <3>1. PICK p \in Ports : MakeOfTextAndPort(t, p)
      BY <2>4
    <3>2. IsAddress([Parse(t) EXCEPT !.port = Truncate(p)])
      BY <2>2, MadeOK
    <3> QED
      BY <3>1, <3>2, <1>0 DEF MakeOfTextAndPort
  <2> QED
    BY <2>1, <2>3, <2>4
<1>3. CASE Clear
  BY <1>3, <1>0, MadeOK DEF Clear
<1>4. CASE WriteOut
  BY <1>4, MadeOK DEF WriteOut
<1>5. CASE ReadBack
  <2>1. /\ text # << >> /\ copy' = Parse(text) /\ read' = TRUE
        /\ UNCHANGED <<address, printed, text>>
    BY <1>5 DEF ReadBack
  <2>2. PICK S : text \in Seq(S)
    BY <2>1, ToTextTypes
  <2>3. IsAddress(Parse(text))
    BY <2>2, ParseTypes
  <2> QED
    BY <2>1, <2>3
<1>6. CASE UNCHANGED addressVars
  BY <1>6 DEF addressVars
<1> QED
  BY <1>1, <1>2, <1>3, <1>4, <1>5, <1>6 DEF AddressNext

(* What a program holds is always an address, and the copy is what its text makes. *)
LEMMA AddressInvariant == AddressSpec => []AddressInv
<1>1. AddressInit => AddressInv
  BY MadeOK DEF AddressInit, AddressInv
<1> QED
  BY <1>1, AddressStep, PTL DEF AddressSpec

(* Whatever text an address is made of, and whatever port it is given, it is   *)
(* of a known family, its port has sixteen bits and its host the octets or the *)
(* groups of the family (Address.cpp:17-117, and the port of atoi, 144, 171).  *)
THEOREM AddressTypeCorrect == AddressSpec => []AddressTypeOK
<1>1. ASSUME NEW a, IsAddress(a)
      PROVE  /\ a.type \in {"undefined", "ipv4", "ipv6"} /\ a.port \in Uint16
             /\ a.type = "ipv4" => a.host \in [1..4 -> Uint8]
             /\ a.type = "ipv6" => a.host \in [1..8 -> Uint16]
  BY <1>1 DEF IsAddress, IPv4, IPv6
<1>2. AddressInv => AddressTypeOK
  BY <1>1 DEF AddressInv, AddressTypeOK
<1> QED
  BY <1>2, AddressInvariant, PTL

(* An address that is printed and parsed comes back: what the program reads   *)
(* back of its last text is Equal to what it printed, unless a ':' of an IPv6 *)
(* address stands where the loop looks for the port's (Address.cpp:137-149).  *)
THEOREM AlwaysRoundTrip == AddressSpec => []RoundTrip
<1>1. ASSUME AddressInv, read, printed.type # "undefined", Unambiguous(printed)
      PROVE  Equal(copy, printed)
  <2>1. copy = Parse(ToText(printed)) /\ IsAddress(printed)
    BY <1>1 DEF AddressInv
  <2>2. CASE \E p \in Uint16 : printed = [type |-> "undefined", host |-> << >>, port |-> p]
    BY <1>1, <2>2
  <2>3. CASE \E h \in [1..4 -> Uint8], p \in Uint16 : printed = IPv4(h, p)
    <3>1. copy = printed
      BY <2>1, <2>3, PrintedIsRead
    <3> QED
      BY <2>3, <3>1 DEF Equal, IPv4
  <2>4. CASE \E h \in [1..8 -> Uint16], p \in Uint16 : printed = IPv6(h, p)
    <3>1. copy = printed
      BY <1>1, <2>1, <2>4, PrintedIsRead
    <3> QED
      BY <2>4, <3>1 DEF Equal, IPv6
  <2> QED
    BY <2>1, <2>2, <2>3, <2>4 DEF IsAddress
<1>2. AddressInv => RoundTrip
  BY <1>1 DEF RoundTrip, Returned
<1> QED
  BY <1>2, AddressInvariant, PTL
=============================================================================
