-------------------------- MODULE PacketCodecProofs --------------------------
(* What WritePacket and ReadPacket promise, for any packets of the known      *)
(* types, any headers and prefix, and any network.                            *)
(*                                                                            *)
(* First what Serialize() of a header or a packet writes and reads, a list of *)
(* calls at a time; then a whole datagram; then the memory of the reader's    *)
(* program, and the promise that PacketTransport makes.                       *)
EXTENDS PacketCodec, StreamOpsProofs

LegalCalls(calls) == Len(calls) \in Nat /\ \A i \in 1..Len(calls) : Legal(calls[i], "cpp")

-----------------------------------------------------------------------------
\* Writing a list of calls.

(* The function WriteAll recurs by, buffer by buffer. *)
LEMMA WriteAllRecurs ==
    ASSUME NEW s \in Seq(Bit), NEW calls, LegalCalls(calls)
    PROVE  \E f \in [0..Len(calls) -> Seq(Bit)] :
              /\ WriteAll(s, calls) = f[Len(calls)] /\ f[0] = s
              /\ \A n \in 1..Len(calls) : f[n] = Encode(f[n - 1], calls[n], "cpp")
<1> DEFINE N == Len(calls)
           step == [n \in 1..N |-> [t \in Seq(Bit) |-> Encode(t, calls[n], "cpp")]]
           Body(f, n) == IF n = 0 THEN s ELSE Encode(f[n - 1], calls[n], "cpp")
           Equation(f) == f = [n \in 0..N |-> Body(f, n)]
           buffer == CHOOSE f : Equation(f)
<1>1. N \in Nat /\ \A n \in 1..N : Legal(calls[n], "cpp")
  BY DEF LegalCalls
<1>2. step \in [1..N -> [Seq(Bit) -> Seq(Bit)]]
  <2> SUFFICES ASSUME NEW n \in 1..N, NEW t \in Seq(Bit) PROVE Encode(t, calls[n], "cpp") \in Seq(Bit)
    OBVIOUS
  <2>1. Legal(calls[n], "cpp") /\ "cpp" \in Lang
    BY <1>1 DEF Lang
  <2>2. Extended(Encode(t, calls[n], "cpp"), t)
    BY <2>1, EncodeOK
  <2> QED
    BY <2>2 DEF Extended
<1>3. PICK f \in [0..N -> Seq(Bit)] : Recurrence(f, N, s, step)
  <2> HIDE DEF step, N
  <2> QED
    BY <1>1, <1>2, Recursion
<1>4. ASSUME NEW n \in 1..N PROVE f[n] = Encode(f[n - 1], calls[n], "cpp")
  <2>1. n - 1 \in 0..N
    BY <1>1
  <2>2. f[n - 1] \in Seq(Bit) /\ f[n] = step[n][f[n - 1]]
    BY <2>1, <1>3 DEF Recurrence
  <2> HIDE DEF N
  <2> QED
    BY <2>2
<1>5. f[0] = s
  BY <1>3 DEF Recurrence
<1>6. Equation(f)
  <2>1. \A n \in 0..N : f[n] = Body(f, n)
    BY <1>1, <1>4, <1>5
  <2> HIDE DEF N, Body
  <2> QED
    BY <2>1
<1>7. Equation(buffer)
  <2> HIDE DEF Equation
  <2> QED BY <1>6
<1>8. \A n \in 0..N : buffer[n] = Body(buffer, n)
  <2> HIDE DEF buffer, Body, N
  <2> QED BY <1>7
<1>9. N \in {n \in 0..N : buffer[n] = f[n]}
  <2> DEFINE T == {n \in 0..N : buffer[n] = f[n]}
  <2>1. 0 \in T
    <3> HIDE DEF buffer
    <3> QED BY <1>1, <1>8, <1>5
  <2>2. ASSUME NEW n \in 1..N, n - 1 \in T PROVE n \in T
    <3>1. n \in 0..N /\ n # 0 /\ buffer[n - 1] = f[n - 1]
      BY <1>1, <2>2
    <3>2. buffer[n] = Encode(buffer[n - 1], calls[n], "cpp")
      <4> HIDE DEF buffer
      <4> QED BY <1>8, <3>1
    <3> HIDE DEF buffer
    <3> QED BY <3>1, <3>2, <1>4
  <2> HIDE DEF T, N
  <2>3. 0..N \subseteq T
    BY <2>1, <2>2, <1>1, BoundedInduction
  <2> QED
    BY <2>3, <1>1 DEF T
<1>10. WriteAll(s, calls) = buffer[N]
  BY DEF WriteAll
<1> HIDE DEF buffer
<1> QED
  BY <1>4, <1>5, <1>9, <1>10

LEMMA ExtendedSelf == \A s \in Seq(Bit) : Extended(s, s)
BY DEF Extended

LEMMA AlikeTwice ==
    ASSUME NEW s \in Seq(Bit), NEW t, NEW u, NEW k \in Nat, Extended(t, s), Alike(u, t, k)
    PROVE  Alike(u, s, k)
<1>1. t \in Seq(Bit) /\ u \in Seq(Bit) /\ Len(s) <= Len(t) /\ Len(t) <= Len(u)
  BY DEF Extended, Alike
<1>2. ASSUME NEW i \in (k + 1)..Len(s) PROVE u[i] = s[i]
  <2>1. i \in 1..Len(s) /\ i \in (k + 1)..Len(t)
    BY <1>1
  <2>2. t[i] = s[i] /\ u[i] = t[i]
    BY <2>1 DEF Extended, Alike
  <2> QED
    BY <2>2
<1>3. Len(s) <= Len(u)
  BY <1>1
<1> QED
  BY <1>1, <1>2, <1>3 DEF Alike

(* The calls stand in u one behind the other. *)
Laid(u, from, calls, to) ==
    \E marks \in [0..Len(calls) -> Nat] :
        /\ marks[0] = from /\ marks[Len(calls)] = to
        /\ \A i \in 1..Len(calls) : /\ marks[i - 1] <= marks[i] /\ marks[i] <= to
                                    /\ Carries(u, marks[i - 1], calls[i], "cpp", marks[i])

(* They do in what was written, whatever is written behind them and whatever *)
(* becomes of the bits before them.                                          *)
LEMMA WriteAllOK ==
    ASSUME NEW s \in Seq(Bit), NEW calls, LegalCalls(calls)
    PROVE  LET t == WriteAll(s, calls)
           IN /\ Extended(t, s)
              /\ \A u : \A k \in 0..Len(s) : Alike(u, t, k) => Laid(u, Len(s), calls, Len(t))
<1> DEFINE N == Len(calls)
           t == WriteAll(s, calls)
<1>1. N \in Nat /\ (\A n \in 1..N : Legal(calls[n], "cpp")) /\ "cpp" \in Lang
  BY DEF LegalCalls, Lang
<1>2. PICK f \in [0..N -> Seq(Bit)] :
              /\ t = f[N] /\ f[0] = s
              /\ \A n \in 1..N : f[n] = Encode(f[n - 1], calls[n], "cpp")
  BY WriteAllRecurs
<1> HIDE DEF t, N
<1>3. ASSUME NEW n \in 1..N
      PROVE  /\ f[n - 1] \in Seq(Bit) /\ f[n] \in Seq(Bit) /\ Extended(f[n], f[n - 1])
             /\ Carries(f[n], Len(f[n - 1]), calls[n], "cpp", Len(f[n]))
  <2>1. n - 1 \in 0..N /\ n \in 0..N
    BY <1>1
  <2>2. f[n - 1] \in Seq(Bit) /\ f[n] \in Seq(Bit) /\ f[n] = Encode(f[n - 1], calls[n], "cpp")
    BY <1>2, <2>1
  <2> QED
    BY <1>1, <2>2, EncodeOK
<1>4. \A n \in 0..N : \A m \in 0..n : Extended(f[n], f[m])
  <2> DEFINE T == {n \in 0..N : \A m \in 0..n : Extended(f[n], f[m])}
  <2>1. 0 \in T
    BY <1>1, <1>2, ExtendedSelf
  <2>2. ASSUME NEW n \in 1..N, n - 1 \in T PROVE n \in T
    <3> SUFFICES ASSUME NEW m \in 0..n PROVE Extended(f[n], f[m])
      BY <1>1
    <3>1. CASE m = n
      BY <1>3, <3>1, ExtendedSelf
    <3>2. CASE m # n
      <4>1. m \in 0..(n - 1) /\ m \in 0..N
        BY <1>1, <3>2
      <4>2. Extended(f[n - 1], f[m]) /\ f[m] \in Seq(Bit)
        BY <2>2, <4>1
      <4>3. Extended(f[n], f[n - 1])
        BY <1>3
      <4> QED
        BY <4>2, <4>3, ExtendedTwice
    <3> QED
      BY <3>1, <3>2
  <2> HIDE DEF T
  <2>3. 0..N \subseteq T
    BY <2>1, <2>2, <1>1, BoundedInduction
  <2> QED
    BY <2>3 DEF T
<1>5. N \in 0..N /\ 0 \in 0..N
  BY <1>1
<1>6. Extended(t, s)
  BY <1>2, <1>4, <1>5
<1>7. ASSUME NEW u, NEW k \in 0..Len(s), Alike(u, t, k)
      PROVE  Laid(u, Len(s), calls, Len(t))
  <2> DEFINE marks == [n \in 0..N |-> Len(f[n])]
  <2>1. marks \in [0..N -> Nat]
    <3>1. \A n \in 0..N : Len(f[n]) \in Nat
      BY <1>2
    <3> QED
      BY <3>1
  <2>2. marks[0] = Len(s) /\ marks[N] = Len(t)
    BY <1>2, <1>5
  <2>3. ASSUME NEW i \in 1..N
        PROVE  /\ marks[i - 1] <= marks[i] /\ marks[i] <= Len(t)
               /\ Carries(u, marks[i - 1], calls[i], "cpp", marks[i])
    <3>1. i - 1 \in 0..N /\ i \in 0..N /\ 0 \in 0..(i - 1) /\ i \in 0..N /\ i \in 0..i
      BY <1>1
    <3>2. marks[i - 1] = Len(f[i - 1]) /\ marks[i] = Len(f[i])
      BY <3>1
    <3>3. f[i - 1] \in Seq(Bit) /\ f[i] \in Seq(Bit) /\ Len(f[i - 1]) <= Len(f[i])
      BY <1>3 DEF Extended
    <3>4. Len(s) <= Len(f[i - 1])
      BY <1>2, <1>4, <3>1 DEF Extended
    <3>5. Extended(t, f[i])
      BY <1>1, <1>2, <1>4, <1>5, <3>1
    <3>6. k \in Nat /\ k <= Len(f[i - 1]) /\ Len(f[i - 1]) \in Nat /\ Len(f[i]) \in Nat
      BY <3>3, <3>4
    <3>7. Alike(u, f[i], k)
      BY <1>7, <3>3, <3>5, <3>6, AlikeTwice
    <3>8. Carries(f[i], Len(f[i - 1]), calls[i], "cpp", Len(f[i])) /\ Legal(calls[i], "cpp")
      BY <1>1, <1>3
    <3> DEFINE a == Len(f[i - 1])
               b == Len(f[i])
    <3>9. b <= Len(f[i])
      BY <3>6
    <3>10. Carries(u, a, calls[i], "cpp", b)
      <4>1. a \in Nat /\ k <= a /\ Carries(f[i], a, calls[i], "cpp", b) /\ b <= Len(f[i])
        BY <3>6, <3>8, <3>9
      <4> HIDE DEF a, b
      <4> QED
        BY <1>1, <3>3, <3>6, <3>7, <3>8, <4>1, CarriesStays
    <3>11. Len(f[i]) <= Len(t)
      BY <3>5 DEF Extended
    <3> HIDE DEF marks, a, b
    <3>12. Len(f[i - 1]) <= Len(f[i]) /\ Carries(u, Len(f[i - 1]), calls[i], "cpp", Len(f[i]))
      BY <3>3, <3>10 DEF a, b
    <3> QED
      BY <3>2, <3>11, <3>12
  <2> HIDE DEF marks
  <2> QED
    BY <2>1, <2>2, <2>3 DEF Laid, N
<1> QED
  BY <1>6, <1>7 DEF t

-----------------------------------------------------------------------------
\* Reading a list of calls.

Reading == {a \in [stream : ReaderType, values : Seq(Seq(Int))] : InData(a.stream)}

(* The reader has read up to mark, or has noticed that there is no such bit. *)
At(r, mark) == IF mark <= Len(r.data) THEN ~r.error /\ r.pos = mark ELSE r.error

(* What the reader gets of a call. *)
Got(c) == IF c.op = "enum" THEN << >> ELSE c.value

SameReading(c, w) == \A r : DecodeCpp(r, c) = DecodeCpp(r, w)

LEMMA ReadOneOK ==
    ASSUME NEW a \in Reading, NEW c, Legal(c, "cpp")
    PROVE  LET b == ReadOne(a, c)
           IN /\ b \in Reading /\ b.stream.data = a.stream.data /\ (a.stream.error => b.stream.error)
              /\ b.stream.ok => /\ a.stream.ok /\ b.values = Append(a.values, b.stream.value)
                                /\ c.op = "int" => b.stream.value[1] \in c.min..c.max
              /\ \A w, d : \A to \in Nat :
                    /\ a.stream.ok /\ Legal(w, "cpp") /\ SameReading(c, w) /\ to <= IntMax
                    /\ BeginsLike(a.stream, d) /\ Carries(d, a.stream.pos, w, "cpp", to)
                    => Answered(a.stream, b.stream, to, Got(w))
<1> DEFINE r == a.stream
           q == DecodeCpp(r, c)
           b == ReadOne(a, c)
           vs == Append(a.values, q.value)
<1>1. r \in ReaderType /\ InData(r) /\ a.values \in Seq(Seq(Int)) /\ "cpp" \in Lang
  BY DEF Reading, Lang
<1>2. Stepped(r, q)
  BY <1>1, DecodeCppOK
<1>3. CASE ~r.ok
  <2>1. b = a
    BY <1>3 DEF ReadOne
  <2> QED
    BY <1>3, <2>1
<1>4. CASE r.ok
  <2>1. b = [stream |-> q, values |-> vs]
    BY <1>4 DEF ReadOne
  <2>2. q \in ReaderType /\ InData(q) /\ q.data = r.data /\ (r.error => q.error) /\ q.value \in Seq(Int)
    <3> HIDE DEF q
    <3> QED
      BY <1>2 DEF Stepped, InData, ReaderType
  <2>3. c.op = "int" /\ q.ok => q.value[1] \in c.min..c.max
    <3> SUFFICES ASSUME c.op = "int" PROVE q.ok => q.value[1] \in c.min..c.max
      OBVIOUS
    <3>1. c.min \in IntMin..IntMax /\ c.max \in IntMin..IntMax /\ c.min < c.max
      BY DEF Legal
    <3>2. c.min <= c.max
      BY <3>1, IntRange
    <3>3. q = ReadInt(r, c.min, c.max)
      BY DEF DecodeCpp
    <3> QED
      BY <1>1, <3>1, <3>2, <3>3, ReadIntOK
  <2>4. ASSUME NEW w, NEW d, NEW to \in Nat, to <= IntMax, Legal(w, "cpp"), SameReading(c, w),
               BeginsLike(r, d), Carries(d, r.pos, w, "cpp", to)
        PROVE  Answered(r, q, to, Got(w))
    <3>1. q = DecodeCpp(r, w)
      BY <2>4 DEF SameReading
    <3> HIDE DEF q
    <3>2. Answered(r, q, to, IF w.op = "enum" THEN << >> ELSE w.value)
      BY <1>1, <2>4, <3>1, DecodeCppOK
    <3> QED
      BY <3>2 DEF Got
  <2>5. vs \in Seq(Seq(Int))
    <3> HIDE DEF q
    <3> QED
      BY <1>1, <2>2
  <2> HIDE DEF q, vs, b
  <2>6. b.stream = q /\ b.values = vs /\ b \in [stream : ReaderType, values : Seq(Seq(Int))]
    BY <2>1, <2>2, <2>5
  <2>7. b \in Reading
    BY <2>2, <2>6 DEF Reading
  <2>8. vs = Append(a.values, q.value)
    BY DEF vs
  <2> QED
    BY <1>4, <2>2, <2>3, <2>4, <2>6, <2>7, <2>8 DEF b
<1> QED
  BY <1>3, <1>4

LEMMA Restarted ==
    ASSUME NEW r, InData(r)
    PROVE  LET a == [stream |-> [r EXCEPT !.ok = TRUE], values |-> << >>]
           IN /\ a \in Reading /\ a.values = << >> /\ a.stream.ok
              /\ a.stream.data = r.data /\ a.stream.pos = r.pos /\ a.stream.error = r.error
<1> DEFINE s == [r EXCEPT !.ok = TRUE]
           e == << >>
           a == [stream |-> s, values |-> e]
<1>1. r \in ReaderType
  BY DEF InData
<1>2. /\ s \in ReaderType /\ s.ok /\ s.data = r.data /\ s.pos = r.pos /\ s.error = r.error
      /\ s.bitsRead = r.bitsRead /\ s.threw = r.threw
  BY <1>1 DEF ReaderType
<1>3. e \in Seq(Seq(Int))
  OBVIOUS
<1> HIDE DEF s, e
<1>4. a \in [stream : ReaderType, values : Seq(Seq(Int))] /\ a.stream = s /\ a.values = e
  BY <1>2, <1>3
<1> HIDE DEF a
<1>5. InData(a.stream)
  BY <1>1, <1>2, <1>4 DEF InData
<1>6. a \in Reading
  BY <1>4, <1>5 DEF Reading
<1> QED
  BY <1>2, <1>4, <1>6 DEF a, s, e

(* The function ReadAll recurs by. *)
LEMMA ReadAllRecurs ==
    ASSUME NEW r, InData(r), NEW calls, LegalCalls(calls)
    PROVE  \E f \in [0..Len(calls) -> Reading] :
              /\ ReadAll(r, calls) = f[Len(calls)]
              /\ f[0] = [stream |-> [r EXCEPT !.ok = TRUE], values |-> << >>]
              /\ \A n \in 1..Len(calls) : f[n] = ReadOne(f[n - 1], calls[n])
<1> DEFINE N == Len(calls)
           base == [stream |-> [r EXCEPT !.ok = TRUE], values |-> << >>]
           step == [n \in 1..N |-> [a \in Reading |-> ReadOne(a, calls[n])]]
           Body(f, n) == IF n = 0 THEN base ELSE ReadOne(f[n - 1], calls[n])
           Equation(f) == f = [n \in 0..N |-> Body(f, n)]
           after == CHOOSE f : Equation(f)
<1>1. N \in Nat /\ \A n \in 1..N : Legal(calls[n], "cpp")
  BY DEF LegalCalls
<1>0. base \in Reading
  BY Restarted
<1>2. step \in [1..N -> [Reading -> Reading]]
  <2> SUFFICES ASSUME NEW n \in 1..N, NEW a \in Reading PROVE ReadOne(a, calls[n]) \in Reading
    OBVIOUS
  <2>1. Legal(calls[n], "cpp")
    BY <1>1
  <2> QED
    BY <2>1, ReadOneOK
<1>3. PICK f \in [0..N -> Reading] : Recurrence(f, N, base, step)
  <2> HIDE DEF step, N, base
  <2> QED
    BY <1>0, <1>1, <1>2, Recursion
<1> HIDE DEF base
<1>4. ASSUME NEW n \in 1..N PROVE f[n] = ReadOne(f[n - 1], calls[n])
  <2>1. n - 1 \in 0..N
    BY <1>1
  <2>2. f[n - 1] \in Reading /\ f[n] = step[n][f[n - 1]]
    BY <2>1, <1>3 DEF Recurrence
  <2> HIDE DEF N
  <2> QED
    BY <2>2
<1>5. f[0] = base
  BY <1>3 DEF Recurrence
<1>6. Equation(f)
  <2>1. \A n \in 0..N : f[n] = Body(f, n)
    BY <1>1, <1>4, <1>5
  <2> HIDE DEF N, Body
  <2> QED
    BY <2>1
<1>7. Equation(after)
  <2> HIDE DEF Equation
  <2> QED BY <1>6
<1>8. \A n \in 0..N : after[n] = Body(after, n)
  <2> HIDE DEF after, Body, N
  <2> QED BY <1>7
<1>9. N \in {n \in 0..N : after[n] = f[n]}
  <2> DEFINE T == {n \in 0..N : after[n] = f[n]}
  <2>1. 0 \in T
    <3> HIDE DEF after
    <3> QED BY <1>1, <1>8, <1>5
  <2>2. ASSUME NEW n \in 1..N, n - 1 \in T PROVE n \in T
    <3>1. n \in 0..N /\ n # 0 /\ after[n - 1] = f[n - 1]
      BY <1>1, <2>2
    <3>2. after[n] = ReadOne(after[n - 1], calls[n])
      <4> HIDE DEF after
      <4> QED BY <1>8, <3>1
    <3> HIDE DEF after
    <3> QED BY <3>1, <3>2, <1>4
  <2> HIDE DEF T, N
  <2>3. 0..N \subseteq T
    BY <2>1, <2>2, <1>1, BoundedInduction
  <2> QED
    BY <2>3, <1>1 DEF T
<1>10. ReadAll(r, calls) = after[N]
  BY DEF ReadAll, base
<1> HIDE DEF after
<1> QED
  BY <1>4, <1>5, <1>9, <1>10 DEF base

(* Every value is of its call, and every integer in its range. *)
Sound(values, calls, n) ==
    Len(values) = n /\ \A i \in 1..n : calls[i].op = "int" => values[i][1] \in calls[i].min..calls[i].max

(* They are those that were written. *)
Same(values, ws, n) == Len(values) = n /\ \A i \in 1..n : values[i] = Got(ws[i])

SameCalls(calls, ws) == /\ LegalCalls(ws) /\ Len(ws) = Len(calls)
                        /\ \A i \in 1..Len(calls) : SameReading(calls[i], ws[i])

LEMMA ReadAllOK ==
    ASSUME NEW r, InData(r), NEW calls, LegalCalls(calls)
    PROVE  LET a == ReadAll(r, calls)
           IN /\ a \in Reading /\ a.stream.data = r.data /\ (r.error => a.stream.error)
              /\ a.stream.ok => Sound(a.values, calls, Len(calls))
              /\ \A ws, d, to, from :
                    /\ SameCalls(calls, ws) /\ BeginsLike(r, d) /\ Laid(d, from, ws, to) /\ At(r, from)
                    /\ to \in Nat /\ to <= IntMax
                    => /\ At(a.stream, to)
                       /\ to <= Len(r.data) => a.stream.ok /\ Same(a.values, ws, Len(calls))
<1> DEFINE N == Len(calls)
           a == ReadAll(r, calls)
<1>1. N \in Nat /\ \A n \in 1..N : Legal(calls[n], "cpp")
  BY DEF LegalCalls
<1>2. PICK f \in [0..N -> Reading] :
              /\ a = f[N] /\ f[0] = [stream |-> [r EXCEPT !.ok = TRUE], values |-> << >>]
              /\ \A n \in 1..N : f[n] = ReadOne(f[n - 1], calls[n])
  BY ReadAllRecurs
<1>3. /\ f[0] \in Reading /\ f[0].values = << >> /\ f[0].stream.ok
      /\ f[0].stream.data = r.data /\ f[0].stream.pos = r.pos /\ f[0].stream.error = r.error
  BY <1>2, Restarted
<1> HIDE DEF a, N
<1>4. ASSUME NEW n \in 1..N
      PROVE  /\ n - 1 \in 0..N /\ n \in 0..N /\ f[n - 1] \in Reading /\ f[n] \in Reading
             /\ Legal(calls[n], "cpp") /\ f[n] = ReadOne(f[n - 1], calls[n])
  <2>1. n - 1 \in 0..N /\ n \in 0..N
    BY <1>1
  <2> QED
    BY <1>1, <1>2, <2>1
<1>5. \A n \in 0..N : f[n].stream.data = r.data /\ (r.error => f[n].stream.error)
  <2> DEFINE T == {n \in 0..N : f[n].stream.data = r.data /\ (r.error => f[n].stream.error)}
  <2>1. 0 \in T
    BY <1>1, <1>3
  <2>2. ASSUME NEW n \in 1..N, n - 1 \in T PROVE n \in T
    <3>1. f[n].stream.data = f[n - 1].stream.data /\ (f[n - 1].stream.error => f[n].stream.error)
      BY <1>4, ReadOneOK
    <3> QED
      BY <1>4, <2>2, <3>1
  <2> HIDE DEF T
  <2>3. 0..N \subseteq T
    BY <2>1, <2>2, <1>1, BoundedInduction
  <2> QED
    BY <2>3 DEF T
<1>6. N \in 0..N
  BY <1>1
<1>7. a.stream.ok => Sound(a.values, calls, N)
  <2> DEFINE T == {n \in 0..N : f[n].stream.ok => Sound(f[n].values, calls, n)}
  <2>1. 0 \in T
    BY <1>1, <1>3 DEF Sound
  <2>2. ASSUME NEW n \in 1..N, n - 1 \in T PROVE n \in T
    <3> SUFFICES ASSUME f[n].stream.ok PROVE Sound(f[n].values, calls, n)
      BY <1>4
    <3> DEFINE x == f[n].stream.value
               vs == f[n - 1].values
    <3>1. /\ f[n - 1].stream.ok /\ f[n].values = Append(vs, x)
          /\ calls[n].op = "int" => x[1] \in calls[n].min..calls[n].max
      <4>1. LET b == f[n]
            IN b.stream.ok => /\ f[n - 1].stream.ok /\ b.values = Append(f[n - 1].values, b.stream.value)
                              /\ calls[n].op = "int" => b.stream.value[1] \in calls[n].min..calls[n].max
        <5> DEFINE g == f[n - 1]
                   h == f[n]
                   c == calls[n]
        <5>1. g \in Reading /\ Legal(c, "cpp") /\ h = ReadOne(g, c)
          BY <1>4
        <5> HIDE DEF g, h, c
        <5>2. h.stream.ok => /\ g.stream.ok /\ h.values = Append(g.values, h.stream.value)
                             /\ c.op = "int" => h.stream.value[1] \in c.min..c.max
          BY <5>1, ReadOneOK
        <5> QED
          BY <5>2 DEF g, h, c
      <4> QED
        BY <4>1
    <3>2. vs \in Seq(Seq(Int)) /\ x \in Seq(Int)
      BY <1>4 DEF Reading, ReaderType
    <3>3. Len(vs) = n - 1 /\ \A i \in 1..(n - 1) : calls[i].op = "int" => vs[i][1] \in calls[i].min..calls[i].max
      BY <2>2, <3>1 DEF Sound
    <3> HIDE DEF x, vs
    <3>4. /\ Len(Append(vs, x)) = n /\ Append(vs, x)[n] = x
          /\ \A i \in 1..(n - 1) : Append(vs, x)[i] = vs[i]
      BY <1>1, <3>2, <3>3
    <3>5. ASSUME NEW i \in 1..n, calls[i].op = "int"
          PROVE  Append(vs, x)[i][1] \in calls[i].min..calls[i].max
      <4>1. CASE i = n
        BY <3>1, <3>4, <3>5, <4>1
      <4>2. CASE i # n
        <5>1. i \in 1..(n - 1)
          BY <4>2
        <5> QED
          BY <3>3, <3>4, <3>5, <5>1
      <4> QED
        BY <4>1, <4>2
    <3> QED
      BY <3>1, <3>4, <3>5 DEF Sound
  <2> HIDE DEF T
  <2>3. 0..N \subseteq T
    BY <2>1, <2>2, <1>1, BoundedInduction
  <2> QED
    BY <1>2, <1>6, <2>3 DEF T
<1>8. ASSUME NEW ws, NEW d, NEW to, NEW from, SameCalls(calls, ws), BeginsLike(r, d),
             Laid(d, from, ws, to), At(r, from), to \in Nat, to <= IntMax
      PROVE  /\ At(a.stream, to)
             /\ to <= Len(r.data) => a.stream.ok /\ Same(a.values, ws, N)
  <2>1. Len(ws) = N /\ \A i \in 1..N : Legal(ws[i], "cpp") /\ SameReading(calls[i], ws[i])
    BY <1>8 DEF SameCalls, LegalCalls, N
  <2>2. PICK marks \in [0..N -> Nat] :
        /\ marks[0] = from /\ marks[N] = to
        /\ \A i \in 1..N : /\ marks[i - 1] <= marks[i] /\ marks[i] <= to
                           /\ Carries(d, marks[i - 1], ws[i], "cpp", marks[i])
    BY <1>8, <2>1 DEF Laid
  <2> DEFINE L == Len(r.data)
             Step(n) == IF marks[n] <= L
                        THEN /\ f[n].stream.ok /\ ~f[n].stream.error /\ f[n].stream.pos = marks[n]
                             /\ Same(f[n].values, ws, n)
                        ELSE f[n].stream.error
             T == {n \in 0..N : Step(n)}
  <2>3. L \in Nat
    BY DEF InData, ReaderType
  <2> HIDE DEF L
  <2>4. 0 \in T
    <3>1. At(r, marks[0])
      BY <1>8, <2>2
    <3> QED
      BY <1>1, <1>3, <3>1 DEF At, Same, L
  <2>5. ASSUME NEW n \in 1..N, n - 1 \in T PROVE n \in T
    <3> DEFINE p == f[n - 1]
               q == f[n]
               x == q.stream.value
    <3>1. /\ p \in Reading /\ q \in Reading /\ q = ReadOne(p, calls[n]) /\ Legal(calls[n], "cpp")
          /\ p.stream.data = r.data /\ q.stream.data = r.data /\ n \in 0..N /\ n - 1 \in 0..N
      BY <1>4, <1>5
    <3>2. /\ p.stream.error => q.stream.error
          /\ q.stream.ok => q.values = Append(p.values, x)
      BY <3>1, ReadOneOK
    <3>3. marks[n - 1] \in Nat /\ marks[n] \in Nat /\ marks[n - 1] <= marks[n] /\ marks[n] <= to
      BY <2>2, <3>1
    <3>6. marks[n] <= IntMax
      BY <1>8, <3>3, IntRange
    <3>4. CASE ~(marks[n - 1] <= L)
      <4>1. ~(marks[n] <= L)
        BY <2>3, <3>3, <3>4
      <4> QED
        BY <2>5, <3>1, <3>2, <3>4, <4>1
    <3>5. CASE marks[n - 1] <= L
      <4>1. /\ p.stream.ok /\ ~p.stream.error /\ p.stream.pos = marks[n - 1]
            /\ Same(p.values, ws, n - 1)
        BY <2>5, <3>5
      <4>2. BeginsLike(p.stream, d)
        BY <1>8, <3>1 DEF BeginsLike
      <4>3. Carries(d, p.stream.pos, ws[n], "cpp", marks[n])
        BY <2>2, <4>1
      <4>4. Answered(p.stream, q.stream, marks[n], Got(ws[n]))
        <5>1. Legal(ws[n], "cpp") /\ SameReading(calls[n], ws[n])
          BY <2>1
        <5> QED
          BY <3>1, <3>3, <3>6, <4>1, <4>2, <4>3, <5>1, ReadOneOK
      <4>5. CASE ~(marks[n] <= L)
        <5>1. q.stream.error
          BY <3>1, <4>4, <4>5 DEF Answered, Ended, L
        <5> QED
          BY <3>1, <4>5, <5>1
      <4>6. CASE marks[n] <= L
        <5>1. Gave(p.stream, q.stream, marks[n], Got(ws[n]))
          BY <3>1, <4>4, <4>6 DEF Answered, L
        <5>2. q.stream.ok /\ q.stream.pos = marks[n] /\ ~q.stream.error /\ x = Got(ws[n])
          BY <4>1, <5>1 DEF Gave
        <5>3. Same(q.values, ws, n)
          <6> DEFINE vs == p.values
          <6>1. vs \in Seq(Seq(Int)) /\ x \in Seq(Int)
            BY <3>1 DEF Reading, ReaderType
          <6>2. Len(vs) = n - 1 /\ \A i \in 1..(n - 1) : vs[i] = Got(ws[i])
            BY <4>1 DEF Same
          <6>3. q.values = Append(vs, x)
            BY <3>2, <5>2
          <6> HIDE DEF vs, x, q, p
          <6>4. /\ Len(Append(vs, x)) = n /\ Append(vs, x)[n] = x
                /\ \A i \in 1..(n - 1) : Append(vs, x)[i] = vs[i]
            BY <1>1, <6>1, <6>2
          <6>5. ASSUME NEW i \in 1..n PROVE Append(vs, x)[i] = Got(ws[i])
            <7>1. CASE i = n
              BY <5>2, <6>4, <7>1
            <7>2. CASE i # n
              <8>1. i \in 1..(n - 1)
                BY <7>2
              <8> QED
                BY <6>2, <6>4, <8>1
            <7> QED
              BY <7>1, <7>2
          <6> QED
            BY <6>3, <6>4, <6>5 DEF Same
        <5> QED
          BY <3>1, <4>6, <5>2, <5>3
      <4> QED
        BY <4>5, <4>6
    <3> QED
      BY <3>4, <3>5
  <2> HIDE DEF T
  <2>6. 0..N \subseteq T
    BY <2>4, <2>5, <1>1, BoundedInduction
  <2>7. Step(N)
    BY <1>6, <2>6 DEF T
  <2>8. a.stream.data = r.data
    BY <1>2, <1>5, <1>6
  <2> QED
    BY <1>2, <2>2, <2>7, <2>8 DEF At, L
<1>9. a \in Reading /\ a.stream.data = r.data /\ (r.error => a.stream.error)
  BY <1>2, <1>5, <1>6
<1> QED
  BY <1>7, <1>8, <1>9 DEF a, N

-----------------------------------------------------------------------------
\* The packets of PacketFactory.h.

LEMMA Widths == /\ IntBits \in Nat /\ IntBits >= 16 /\ 8 \in 1..IntBits /\ 16 \in 1..IntBits
                /\ 255 <= IntMax /\ IntMax \in Nat /\ IntMin <= -255 /\ IntMin \in Int
                /\ \A n \in 1..IntBits : 0 \in 0..(2^n - 1)
                /\ 0 \in Uint
<1>1. IntBits \in Nat /\ IntBits >= 16 /\ ByteBits \in Nat
  BY Constants, PacketCodecAssumption
<1>2. \A n \in 0..16 : n \in Width
  BY <1>1 DEF Width
<1>3. \A n \in 1..8 : 2^n = 2 * 2^(n - 1)
  <2> SUFFICES ASSUME NEW n \in 1..8 PROVE 2^n = 2 * 2^(n - 1)
    OBVIOUS
  <2>1. n \in Width /\ n # 0
    BY <1>2
  <2> QED
    BY <2>1, Doubling
<1>4. 2^8 = 256
  <2>1. 2^0 = 1
    OBVIOUS
  <2>2. 2^1 = 2
    BY <1>3, <2>1
  <2>3. 2^2 = 4
    BY <1>3, <2>2
  <2>4. 2^3 = 8
    BY <1>3, <2>3
  <2>5. 2^4 = 16
    BY <1>3, <2>4
  <2>6. 2^5 = 32
    BY <1>3, <2>5
  <2>7. 2^6 = 64
    BY <1>3, <2>6
  <2>8. 2^7 = 128
    BY <1>3, <2>7
  <2> QED
    BY <1>3, <2>8
<1>5. 2^8 <= 2^(IntBits - 1)
  <2>1. 8 \in Width /\ IntBits - 1 \in Width /\ 8 <= IntBits - 1
    BY <1>1, <1>2 DEF Width
  <2> QED
    BY <2>1, PowersGrow
<1>6. /\ 2^(IntBits - 1) = IntMax + 1 /\ IntMax \in Nat /\ IntMin = -IntMax - 1
  BY IntRange
<1>7. \A n \in 1..IntBits : 0 \in 0..(2^n - 1)
  <2> SUFFICES ASSUME NEW n \in 1..IntBits PROVE 0 \in 0..(2^n - 1)
    OBVIOUS
  <2>1. n \in Width
    BY <1>1 DEF Width
  <2> QED
    BY <2>1, Powers
<1>8. IntBits \in 1..IntBits
  BY <1>1
<1>9. 0 \in Uint
  BY <1>7, <1>8 DEF Uint
<1> QED
  BY <1>1, <1>4, <1>5, <1>6, <1>7, <1>9

(* The fields there are: integers in a range, words, and 64 bits. *)
IntFields == [op : {"int"}, value : Seq(Int), min : Int, max : Int]
BitFields == [op : {"bits"}, value : Seq(Int), size : Int]
LongFields == [op : {"uint64"}, value : Seq(Int)]
Plain(c) == c \in IntFields \/ c \in BitFields \/ c \in LongFields

LEMMA Zero == <<0>> \in Seq(Int) /\ <<0>>[1] = 0 /\ <<0, 0>> \in Seq(Int) /\ <<0, 0>>[1] = 0 /\ <<0, 0>>[2] = 0
OBVIOUS

LEMMA IntFieldOK ==
    ASSUME NEW min \in -255..0, NEW max \in 0..255, min < max
    PROVE  LET c == IntField(min, max) IN Plain(c) /\ Legal(c, "cpp")
<1> DEFINE c == IntField(min, max)
           z == <<0>>
<1>0. min \in Int /\ max \in Int /\ 0 \in min..max /\ -255 <= min /\ max <= 255
  OBVIOUS
<1>1. z \in Seq(Int) /\ z[1] = 0 /\ z = <<z[1]>>
  OBVIOUS
<1>2. c = [op |-> "int", value |-> z, min |-> min, max |-> max]
  BY DEF IntField
<1> HIDE DEF c, z
<1>3. c.op = "int" /\ c.value = z /\ c.min = min /\ c.max = max /\ c \in IntFields
  BY <1>0, <1>1, <1>2 DEF IntFields
<1>4. c.min \in IntMin..IntMax /\ c.max \in IntMin..IntMax /\ c.min < c.max /\ c.value[1] \in c.min..c.max
  BY <1>0, <1>1, <1>3, Widths
<1>5. c.op \in {"int", "enum"} /\ c.value = <<c.value[1]>>
  BY <1>1, <1>3
<1> QED
  BY <1>3, <1>4, <1>5 DEF Plain, Legal, c

LEMMA BitFieldOK ==
    ASSUME NEW n \in {8, 16}
    PROVE  LET c == BitField(n) IN Plain(c) /\ Legal(c, "cpp")
<1> DEFINE c == BitField(n)
           z == <<0>>
<1>1. z \in Seq(Int) /\ z[1] = 0 /\ z = <<z[1]>>
  OBVIOUS
<1>2. c = [op |-> "bits", value |-> z, size |-> n]
  BY DEF BitField
<1> HIDE DEF c, z
<1>3. c.op = "bits" /\ c.value = z /\ c.size = n /\ c \in BitFields
  BY <1>1, <1>2 DEF BitFields
<1>4. c.size \in 1..IntBits /\ c.value[1] \in 0..(2^c.size - 1)
  <2>1. n \in 1..IntBits
    BY Widths
  <2>2. 0 \in 0..(2^n - 1)
    BY <2>1, Widths
  <2> QED
    BY <1>1, <1>3, <2>1, <2>2
<1>5. c.value = <<c.value[1]>>
  BY <1>1, <1>3
<1> QED
  BY <1>3, <1>4, <1>5 DEF Plain, Legal, c

LEMMA LongFieldOK == Plain(LongField) /\ Legal(LongField, "cpp")
<1> DEFINE c == LongField
           z == <<0, 0>>
<1>1. z \in Seq(Int) /\ z[1] = 0 /\ z[2] = 0 /\ z = <<z[1], z[2]>>
  OBVIOUS
<1>2. c = [op |-> "uint64", value |-> z]
  BY DEF LongField
<1> HIDE DEF c, z
<1>3. c.op = "uint64" /\ c.value = z /\ c \in LongFields
  BY <1>1, <1>2 DEF LongFields
<1>4. c.value[1] \in Uint /\ c.value[2] \in Uint /\ c.value = <<c.value[1], c.value[2]>>
  BY <1>1, <1>3, Widths
<1> QED
  BY <1>3, <1>4 DEF Plain, Legal, c

(* Every packet of the factory is a list of such fields. *)
LEMMA FieldsOK ==
    ASSUME NEW type \in Registered
    PROVE  /\ LegalCalls(Fields[type]) /\ DOMAIN Fields[type] = 1..Len(Fields[type])
           /\ \A i \in 1..Len(Fields[type]) : Plain(Fields[type][i])
<1> DEFINE Good(c) == Plain(c) /\ Legal(c, "cpp")
           GoodList(s) == Len(s) \in Nat /\ DOMAIN s = 1..Len(s) /\ \A i \in 1..Len(s) : Good(s[i])
<1>1. Good(BitField(8)) /\ Good(BitField(16)) /\ Good(LongField)
  BY BitFieldOK, LongFieldOK
<1>2. /\ Good(IntField(-10, 10)) /\ Good(IntField(-20, 20)) /\ Good(IntField(-30, 30))
      /\ Good(IntField(-5, 5)) /\ Good(IntField(0, 255))
  <2>1. /\ -10 \in -255..0 /\ 10 \in 0..255 /\ -20 \in -255..0 /\ 20 \in 0..255
        /\ -30 \in -255..0 /\ 30 \in 0..255 /\ -5 \in -255..0 /\ 5 \in 0..255
        /\ 0 \in -255..0 /\ 255 \in 0..255
    OBVIOUS
  <2>2. -10 < 10 /\ -20 < 20 /\ -30 < 30 /\ -5 < 5 /\ 0 < 255
    OBVIOUS
  <2> QED
    BY <2>1, <2>2, IntFieldOK
<1> HIDE DEF Good
<1>3. GoodList(TestPacketA)
  BY <1>2 DEF TestPacketA
<1>4. GoodList(TestPacketB)
  BY <1>2 DEF TestPacketB
<1>5. GoodList(TestPacketC)
  BY <1>2 DEF TestPacketC
<1>6. GoodList(ConnectionHeartBeat) /\ GoodList(ConnectionStartRsp)
  BY <1>1 DEF ConnectionHeartBeat, ConnectionStartRsp, CmdAndSid
<1>7. /\ GoodList(ConnectionStartReq) /\ GoodList(ConnectionStopReq)
      /\ GoodList(ConnectionStopRsp)
  <2> DEFINE F == {BitField(8), BitField(16), LongField}
             long == <<LongField>>
             word == <<BitField(8)>>
  <2>1. CmdAndSid \in Seq(F) /\ long \in Seq(F) /\ word \in Seq(F)
    BY DEF CmdAndSid
  <2>2. \A c \in F : Good(c)
    BY <1>1
  <2> HIDE DEF F, long, word
  <2>3. \A t \in Seq(F) : GoodList(t)
    BY <2>2
  <2>4. CmdAndSid \o long \in Seq(F) /\ CmdAndSid \o word \in Seq(F)
    BY <2>1
  <2> QED
    BY <2>3, <2>4 DEF ConnectionStartReq, ConnectionStopReq, ConnectionStopRsp, long, word
<1> HIDE DEF GoodList
<1>9. GoodList(Fields[type])
  <2>1. Fields[type] \in {TestPacketA, TestPacketB, TestPacketC, ConnectionStartReq, ConnectionStartRsp,
                          ConnectionStopReq, ConnectionStopRsp, ConnectionHeartBeat}
    BY DEF Fields, Registered
  <2> QED
    BY <1>3, <1>4, <1>5, <1>6, <1>7, <2>1
<1> QED
  BY <1>9 DEF GoodList, Good, LegalCalls

(* Reading a field does not depend on the value it has. *)
LEMMA FieldRead ==
    ASSUME NEW c, Plain(c), NEW v
    PROVE  LET w == [c EXCEPT !.value = v]
           IN SameReading(c, w) /\ w.value = v /\ w.op = c.op /\ c.op # "enum"
<1> DEFINE w == [c EXCEPT !.value = v]
<1>1. CASE c \in IntFields
  <2>1. w.op = "int" /\ c.op = "int" /\ w.min = c.min /\ w.max = c.max /\ w.value = v
    BY <1>1 DEF IntFields
  <2> HIDE DEF w
  <2>2. \A r : DecodeCpp(r, c) = DecodeCpp(r, w)
    BY <2>1 DEF DecodeCpp
  <2> QED
    BY <2>1, <2>2 DEF SameReading, w
<1>2. CASE c \in BitFields
  <2>1. w.op = "bits" /\ c.op = "bits" /\ w.size = c.size /\ w.value = v
    BY <1>2 DEF BitFields
  <2> HIDE DEF w
  <2>2. \A r : DecodeCpp(r, c) = DecodeCpp(r, w)
    BY <2>1 DEF DecodeCpp
  <2> QED
    BY <2>1, <2>2 DEF SameReading, w
<1>3. CASE c \in LongFields
  <2>1. w.op = "uint64" /\ c.op = "uint64" /\ w.value = v
    BY <1>3 DEF LongFields
  <2> HIDE DEF w
  <2>2. \A r : DecodeCpp(r, c) = DecodeCpp(r, w)
    BY <2>1 DEF DecodeCpp
  <2> QED
    BY <2>1, <2>2 DEF SameReading, w
<1> QED
  BY <1>1, <1>2, <1>3 DEF Plain

LEMMA CallsOK ==
    ASSUME NEW p \in Packets
    PROVE  /\ p \in PacketsRead /\ p.type \in Registered /\ Len(Fields[p.type]) \in Nat
           /\ LegalCalls(Calls(p)) /\ SameCalls(Fields[p.type], Calls(p))
           /\ Len(p.values) = Len(Fields[p.type])
           /\ \A i \in 1..Len(Fields[p.type]) : Got(Calls(p)[i]) = p.values[i]
<1> DEFINE fs == Fields[p.type]
           N == Len(fs)
           cs == Calls(p)
<1>1. /\ p \in PacketsRead /\ Len(p.values) = N
      /\ \A i \in 1..Len(p.values) : Legal(cs[i], "cpp")
  BY PacketCodecAssumption
<1>2. p.type \in Registered
  BY <1>1 DEF PacketsRead
<1>3. N \in Nat /\ \A i \in 1..N : Plain(fs[i])
  BY <1>2, FieldsOK DEF LegalCalls
<1>4. cs = [i \in 1..N |-> [fs[i] EXCEPT !.value = p.values[i]]]
  BY DEF Calls
<1> HIDE DEF fs, N, cs
<1>5. Len(cs) = N /\ \A i \in 1..N : cs[i] = [fs[i] EXCEPT !.value = p.values[i]]
  BY <1>3, <1>4
<1>6. ASSUME NEW i \in 1..N
      PROVE  SameReading(fs[i], cs[i]) /\ Got(cs[i]) = p.values[i]
  <2>1. Plain(fs[i]) /\ cs[i] = [fs[i] EXCEPT !.value = p.values[i]]
    BY <1>3, <1>5
  <2>2. SameReading(fs[i], cs[i]) /\ cs[i].value = p.values[i] /\ cs[i].op # "enum"
    BY <2>1, FieldRead
  <2> QED
    BY <2>2 DEF Got
<1>7. LegalCalls(cs)
  BY <1>1, <1>3, <1>5 DEF LegalCalls
<1>8. SameCalls(fs, cs)
  BY <1>5, <1>6, <1>7 DEF SameCalls, N
<1> QED
  BY <1>1, <1>2, <1>3, <1>6, <1>7, <1>8 DEF fs, N, cs

-----------------------------------------------------------------------------
\* Prefix and packet type.

(* What SerializeBits does to any stream. *)
LEMMA SerializeBitsMoves ==
    ASSUME NEW r, InData(r), NEW n \in Width
    PROVE  LET q == SerializeBits(r, n)
           IN Stepped(r, q) /\ \A mark \in Nat : At(r, mark) => At(q, mark + n)
<1> DEFINE q == SerializeBits(r, n)
           x == FromBits(Ahead(r, n))
           v == <<x>>
<1>1. n \in Nat /\ r.pos \in Nat /\ Len(r.data) \in Nat
  BY DEF Width, InData, ReaderType
<1>2. Stepped(r, q) /\ q.data = r.data /\ (r.error => q.error)
  BY SerializeBitsOK DEF Stepped
<1>3. CASE WouldOverflow(r, n)
  <2>1. q = Overflow(r)
    BY <1>3 DEF SerializeBits
  <2>2. q.error /\ r.pos + n > Len(r.data)
    BY <1>3, <2>1, OverflowOK DEF Ended, WouldOverflow
  <2> HIDE DEF q
  <2>3. \A mark \in Nat : At(r, mark) => At(q, mark + n)
    BY <1>1, <1>2, <2>2 DEF At
  <2> QED
    BY <1>2, <2>3 DEF q
<1>4. CASE ~WouldOverflow(r, n)
  <2>1. q = [Advance(r, n) EXCEPT !.value = v]
    BY <1>4 DEF SerializeBits
  <2>2. Ahead(r, n) \in Seq(Bit) /\ Len(Ahead(r, n)) = n
    BY <1>1, <1>4, AheadOK
  <2>3. x \in Int
    <3>1. x \in 0..(2^n - 1)
      BY <2>2, FromBitsRange
    <3> QED
      BY <3>1, Powers
  <2>4. v \in Seq(Int)
    BY <2>3
  <2> HIDE DEF q, v
  <2>5. Gave(r, q, r.pos + n, v)
    BY <1>1, <1>4, <2>1, <2>4, AdvanceOK
  <2>6. q.error = r.error /\ q.pos = r.pos + n /\ r.pos + n <= Len(r.data)
    BY <1>1, <1>4, <2>5 DEF Gave, WouldOverflow
  <2>7. \A mark \in Nat : At(r, mark) => At(q, mark + n)
    BY <1>1, <1>2, <2>6 DEF At
  <2> QED
    BY <1>2, <2>7 DEF q
<1> QED
  BY <1>3, <1>4

LEMMA PrefixFacts == /\ PrefixBytes \in Nat /\ PrefixBits \in Nat /\ ByteBits \in Width
                     /\ ByteBits \in Nat \ {0}
<1>1. PrefixBytes \in Nat /\ ByteBits \in Nat \ {0} /\ ByteBits \in Width
  BY Constants, PacketCodecAssumption, ByteFacts
<1> QED
  BY <1>1, Multiples DEF PrefixBits

(* ReadPrefix reads over the prefix, byte by byte. *)
LEMMA ReadPrefixOK ==
    ASSUME NEW bits \in Seq(Bit)
    PROVE  LET r == ReadPrefix(bits)
           IN InData(r) /\ r.data = bits /\ At(r, PrefixBits)
<1> DEFINE N == PrefixBytes
           base == NewReader(bits)
           S == {r \in ReaderType : InData(r)}
           step == [n \in 1..N |-> [r \in S |-> SerializeBits(r, ByteBits)]]
           Body(f, n) == IF n = 0 THEN base ELSE SerializeBits(f[n - 1], ByteBits)
           Equation(f) == f = [n \in 0..N |-> Body(f, n)]
           stream == CHOOSE f : Equation(f)
<1>1. N \in Nat /\ ByteBits \in Width /\ ByteBits \in Nat
  BY PrefixFacts
<1>2. InData(base) /\ base \in S /\ base.data = bits /\ At(base, 0)
  <2>1. /\ InData(base) /\ base.data = bits /\ base.pos = 0 /\ ~base.error
    BY NewReaderOK
  <2>2. base \in ReaderType /\ 0 <= Len(bits)
    BY <2>1 DEF InData
  <2> HIDE DEF base
  <2> QED
    BY <2>1, <2>2 DEF At
<1>3. \A r \in S : SerializeBits(r, ByteBits) \in S
  BY <1>1, SerializeBitsMoves DEF Stepped, InData
<1>4. step \in [1..N -> [S -> S]]
  <2> HIDE DEF S
  <2> QED
    BY <1>3
<1> HIDE DEF base
<1>5. PICK f \in [0..N -> S] : Recurrence(f, N, base, step)
  <2> HIDE DEF step, N, S
  <2> QED
    BY <1>1, <1>2, <1>4, Recursion
<1>6. ASSUME NEW n \in 1..N PROVE f[n] = SerializeBits(f[n - 1], ByteBits) /\ f[n - 1] \in S
  <2>1. n - 1 \in 0..N
    BY <1>1
  <2>2. f[n - 1] \in S /\ f[n] = step[n][f[n - 1]]
    BY <2>1, <1>5 DEF Recurrence
  <2> HIDE DEF N, S
  <2> QED
    BY <2>2
<1>7. f[0] = base
  BY <1>5 DEF Recurrence
<1>8. Equation(f)
  <2>1. \A n \in 0..N : f[n] = Body(f, n)
    BY <1>1, <1>6, <1>7
  <2> HIDE DEF N, Body, S
  <2> QED
    BY <2>1
<1>9. Equation(stream)
  <2> HIDE DEF Equation
  <2> QED BY <1>8
<1>10. \A n \in 0..N : stream[n] = Body(stream, n)
  <2> HIDE DEF stream, Body, N
  <2> QED BY <1>9
<1> HIDE DEF stream
<1> DEFINE T == {n \in 0..N : /\ stream[n] = f[n] /\ f[n].data = bits /\ At(f[n], n * ByteBits)}
<1>11. 0 \in T
  <2>1. 0 * ByteBits = 0
    BY <1>1
  <2> QED
    BY <1>1, <1>2, <1>7, <1>10, <2>1
<1>12. ASSUME NEW n \in 1..N, n - 1 \in T PROVE n \in T
  <2>1. n \in 0..N /\ n # 0 /\ stream[n - 1] = f[n - 1] /\ f[n - 1].data = bits
        /\ At(f[n - 1], (n - 1) * ByteBits)
    BY <1>1, <1>12
  <2>2. stream[n] = SerializeBits(stream[n - 1], ByteBits)
    BY <1>10, <2>1
  <2>3. stream[n] = f[n]
    BY <1>6, <2>1, <2>2
  <2>4. InData(f[n - 1])
    BY <1>6
  <2> DEFINE m == (n - 1) * ByteBits
  <2>5. m \in Nat /\ n * ByteBits = m + ByteBits
    <3>1. n - 1 \in Nat /\ (n - 1) + 1 = n
      OBVIOUS
    <3> QED
      BY <1>1, <3>1, Multiples
  <2>6. At(f[n - 1], m)
    BY <2>1
  <2> HIDE DEF m
  <2>7. f[n].data = bits /\ At(f[n], m + ByteBits)
    BY <1>1, <1>6, <2>1, <2>4, <2>5, <2>6, SerializeBitsMoves DEF Stepped
  <2> QED
    BY <2>1, <2>3, <2>5, <2>7
<1> HIDE DEF T
<1>13. 0..N \subseteq T
  <2> HIDE DEF N
  <2> QED
    BY <1>11, <1>12, <1>1, BoundedInduction
<1>14. N \in 0..N
  BY <1>1
<1>15. /\ stream[N] = f[N] /\ f[N].data = bits /\ At(f[N], N * ByteBits) /\ f[N] \in S
  BY <1>13, <1>14 DEF T
<1>16. ReadPrefix(bits) = stream[N]
  BY DEF ReadPrefix, stream, base
<1> QED
  BY <1>15, <1>16 DEF PrefixBits

(* The packet type stands in u, if there is more than one. *)
TypeLaid(u, from, type, types, to) ==
    IF types > 1 THEN HoldsInt(u, from, type, 0, types - 1, to) ELSE to = from /\ type = 0

LEMMA ReadTypeOK ==
    ASSUME NEW r, InData(r), readerTypes \in 1..IntMax
    PROVE  LET q == ReadType(r)
           IN /\ Stepped(r, q)
              /\ \A d, v : \A from, to \in Nat :
                    /\ BeginsLike(r, d) /\ At(r, from) /\ from <= to /\ v \in 0..(readerTypes - 1)
                    /\ TypeLaid(d, from, v, readerTypes, to)
                    => At(q, to) /\ (to <= Len(r.data) => q.ok /\ q.value = <<v>>)
<1> DEFINE q == ReadType(r)
<1>0. /\ IntMax \in Nat /\ IntMin \in Int /\ IntMin <= 0 /\ Len(r.data) \in Nat /\ r \in ReaderType
      /\ r.pos \in Nat
  BY RangeZero DEF InData, ReaderType
<1>1. CASE readerTypes > 1
  <2>1. 0 \in IntMin..IntMax /\ readerTypes - 1 \in IntMin..IntMax /\ 0 <= readerTypes - 1
    BY <1>0, <1>1
  <2>2. q = SerializeInteger(r, 0, readerTypes - 1)
    BY <1>1 DEF ReadType
  <2>3. /\ Stepped(r, q)
        /\ \A d, v, to : BeginsLike(r, d) /\ v \in 0..(readerTypes - 1)
                            /\ HoldsInt(d, r.pos, v, 0, readerTypes - 1, to)
                               => Answered(r, q, to, <<v>>)
    BY <2>1, <2>2, SerializeIntegerOK
  <2> HIDE DEF q
  <2>4. q.data = r.data /\ (r.error => q.error)
    BY <2>3 DEF Stepped
  <2>5. ASSUME NEW d, NEW v, NEW from \in Nat, NEW to \in Nat, BeginsLike(r, d), At(r, from), from <= to,
               v \in 0..(readerTypes - 1), TypeLaid(d, from, v, readerTypes, to)
        PROVE  At(q, to) /\ (to <= Len(r.data) => q.ok /\ q.value = <<v>>)
    <3>1. HoldsInt(d, from, v, 0, readerTypes - 1, to)
      BY <1>1, <2>5 DEF TypeLaid
    <3>2. CASE from <= Len(r.data)
      <4>1. r.pos = from /\ ~r.error
        BY <2>5, <3>2 DEF At
      <4>2. Answered(r, q, to, <<v>>)
        BY <2>3, <2>5, <3>1, <4>1
      <4> QED
        BY <2>4, <4>1, <4>2 DEF Answered, Gave, Ended, At
    <3>3. CASE ~(from <= Len(r.data))
      <4>1. r.error /\ ~(to <= Len(r.data))
        BY <1>0, <2>5, <3>3 DEF At
      <4> QED
        BY <2>4, <4>1 DEF At
    <3> QED
      BY <3>2, <3>3
  <2> QED
    BY <2>3, <2>5 DEF q
<1>2. CASE ~(readerTypes > 1)
  <2> DEFINE z == <<0>>
  <2>1. q = [r EXCEPT !.ok = TRUE, !.value = z] /\ z \in Seq(Int)
    BY <1>2 DEF ReadType
  <2> HIDE DEF q, z
  <2>2. /\ q \in ReaderType /\ q.data = r.data /\ q.pos = r.pos /\ q.bitsRead = r.bitsRead
        /\ q.error = r.error /\ q.threw = r.threw /\ q.ok /\ q.value = z
    BY <1>0, <2>1 DEF ReaderType
  <2>3. Stepped(r, q)
    BY <2>2 DEF Stepped, InData
  <2>4. \A d, v : \A from, to \in Nat : TypeLaid(d, from, v, readerTypes, to) => to = from /\ v = 0
    BY <1>2 DEF TypeLaid
  <2>5. \A from : At(r, from) => At(q, from)
    BY <2>2 DEF At
  <2> QED
    BY <2>2, <2>3, <2>4, <2>5 DEF q, z
<1> QED
  BY <1>1, <1>2

-----------------------------------------------------------------------------
\* A whole datagram.

Setup == /\ header \in Headers /\ rawFormat \in BOOLEAN
         /\ writerTypes \in 1..IntMax /\ readerTypes \in 1..IntMax

(* Header, type and fields of p stand in u, and end at h, t and e. *)
Layout(u, p, h, t, e) ==
    /\ PrefixBits <= h /\ h <= t /\ t <= e
    /\ Laid(u, PrefixBits, header, h) /\ TypeLaid(u, h, p.type, writerTypes, t)
    /\ Laid(u, t, Calls(p), e)

LEMMA WriteTypeOK ==
    ASSUME Setup, NEW s \in Seq(Bit), NEW type \in 0..(writerTypes - 1)
    PROVE  LET t == WriteType(s, type)
           IN /\ Extended(t, s)
              /\ \A u : \A k \in 0..Len(s) :
                    Alike(u, t, k) => TypeLaid(u, Len(s), type, writerTypes, Len(t))
<1> DEFINE t == WriteType(s, type)
<1>1. CASE writerTypes > 1
  <2>1. /\ 0 \in IntMin..IntMax /\ writerTypes - 1 \in IntMin..IntMax /\ 0 <= writerTypes - 1
    BY <1>1, RangeZero DEF Setup
  <2>2. t = WriteInteger(s, type, 0, writerTypes - 1)
    BY <1>1 DEF WriteType
  <2> HIDE DEF t
  <2>3. Extended(t, s) /\ HoldsInt(t, Len(s), type, 0, writerTypes - 1, Len(t))
    BY <2>1, <2>2, WriteIntOK
  <2>4. t \in Seq(Bit) /\ Len(t) \in Nat /\ Len(s) \in Nat
    BY <2>3 DEF Extended
  <2>5. ASSUME NEW u, NEW k \in 0..Len(s), Alike(u, t, k)
        PROVE  HoldsInt(u, Len(s), type, 0, writerTypes - 1, Len(t))
    <3> DEFINE from == Len(s)
               to == Len(t)
               max == writerTypes - 1
    <3>1. k \in Nat /\ k <= from /\ from \in Nat /\ to <= Len(t) /\ HoldsInt(t, from, type, 0, max, to)
      BY <2>3, <2>4
    <3>2. max \in IntMin..IntMax /\ 0 <= max
      BY <2>1
    <3> HIDE DEF from, to, max
    <3>3. HoldsInt(u, from, type, 0, max, to)
      BY <2>1, <2>4, <2>5, <3>1, <3>2, IntStays
    <3> QED
      BY <3>3 DEF from, to, max
  <2> QED
    BY <1>1, <2>3, <2>5 DEF TypeLaid, t
<1>2. CASE ~(writerTypes > 1)
  <2>1. t = s /\ type = 0
    BY <1>2 DEF WriteType, Setup
  <2> QED
    BY <1>2, <2>1, ExtendedSelf DEF TypeLaid
<1> QED
  BY <1>1, <1>2

(* What WritePacket writes, and what is left of it in anything alike. *)
LEMMA WrittenOK ==
    ASSUME Setup, NEW p \in Packets, p.type < writerTypes
    PROVE  LET w == Written(p)
           IN /\ w \in Seq(Bit) /\ Len(w) % ByteBits = 0 /\ PrefixBits <= Len(w)
              /\ \E h, t, e \in Nat :
                    /\ e <= Len(w) /\ Len(w) < e + ByteBits
                    /\ \A u : Alike(u, w, PrefixBits) => Layout(u, p, h, t, e)
<1> DEFINE prefix == [i \in 1..PrefixBits |-> 0]
           a == WriteAll(prefix, header)
           b == WriteType(a, p.type)
           c == WriteAll(b, Calls(p))
           w == WriteAlign(c)
<1>1. PrefixBits \in Nat /\ ByteBits \in Nat \ {0}
  BY PrefixFacts
<1>2. prefix \in Seq(Bit) /\ Len(prefix) = PrefixBits
  BY <1>1 DEF Bit
<1>3. LegalCalls(header) /\ LegalCalls(Calls(p)) /\ p.type \in 0..(writerTypes - 1)
  <2>1. LegalCalls(header)
    BY PacketCodecAssumption DEF Setup, LegalCalls
  <2>2. LegalCalls(Calls(p)) /\ p.type \in Registered
    BY CallsOK
  <2>3. p.type \in Nat
    BY <2>2 DEF Registered, TEST_PACKET_A, TEST_PACKET_B, TEST_PACKET_C,
          RUDP_CMD_CONNECTION_START_REQ, RUDP_CMD_CONNECTION_START_RSP,
          RUDP_CMD_CONNECTION_STOP_REQ, RUDP_CMD_CONNECTION_STOP_RSP, RUDP_CMD_HEARTBEAT
  <2> QED
    BY <2>1, <2>2, <2>3 DEF Setup
<1> HIDE DEF prefix
<1>4. /\ Extended(a, prefix)
      /\ \A u : \A k \in 0..Len(prefix) : Alike(u, a, k) => Laid(u, Len(prefix), header, Len(a))
  BY <1>2, <1>3, WriteAllOK
<1> HIDE DEF a
<1>5. a \in Seq(Bit) /\ Len(a) \in Nat /\ PrefixBits <= Len(a)
  BY <1>2, <1>4 DEF Extended
<1>6. /\ Extended(b, a)
      /\ \A u : \A k \in 0..Len(a) : Alike(u, b, k) => TypeLaid(u, Len(a), p.type, writerTypes, Len(b))
  BY <1>3, <1>5, WriteTypeOK
<1> HIDE DEF b
<1>7. b \in Seq(Bit) /\ Len(b) \in Nat /\ Len(a) <= Len(b)
  BY <1>5, <1>6 DEF Extended
<1>8. /\ Extended(c, b)
      /\ \A u : \A k \in 0..Len(b) : Alike(u, c, k) => Laid(u, Len(b), Calls(p), Len(c))
  BY <1>3, <1>7, WriteAllOK
<1> HIDE DEF c
<1>9. c \in Seq(Bit) /\ Len(c) \in Nat /\ Len(b) <= Len(c)
  BY <1>7, <1>8 DEF Extended
<1>10. Extended(w, c) /\ Len(w) = Len(c) + AlignBits(Len(c))
  BY <1>9, WriteAlignOK
<1> HIDE DEF w
<1>11. AlignBits(Len(c)) \in 0..(ByteBits - 1) /\ (Len(c) + AlignBits(Len(c))) % ByteBits = 0
  BY <1>9, AlignRange
<1>12. w \in Seq(Bit) /\ Len(w) % ByteBits = 0 /\ Len(c) <= Len(w) /\ Len(w) < Len(c) + ByteBits
  BY <1>1, <1>9, <1>10, <1>11 DEF Extended
<1>13. ASSUME NEW u, Alike(u, w, PrefixBits) PROVE Layout(u, p, Len(a), Len(b), Len(c))
  <2>1. Alike(u, c, PrefixBits)
    BY <1>1, <1>9, <1>10, <1>13, AlikeTwice
  <2>2. Alike(u, b, PrefixBits)
    BY <1>1, <1>7, <1>8, <2>1, AlikeTwice
  <2>3. Alike(u, a, PrefixBits)
    BY <1>1, <1>5, <1>6, <2>2, AlikeTwice
  <2>4. PrefixBits \in 0..Len(prefix) /\ PrefixBits \in 0..Len(a) /\ PrefixBits \in 0..Len(b)
    BY <1>1, <1>2, <1>5, <1>7
  <2>5. Laid(u, PrefixBits, header, Len(a))
    BY <1>2, <1>4, <2>3, <2>4
  <2>6. TypeLaid(u, Len(a), p.type, writerTypes, Len(b)) /\ Laid(u, Len(b), Calls(p), Len(c))
    BY <1>6, <1>8, <2>1, <2>2, <2>4
  <2> QED
    BY <1>5, <1>7, <1>9, <2>5, <2>6 DEF Layout
<1>14. w = Written(p)
  BY DEF Written, w, c, b, a, prefix
<1>15. PrefixBits <= Len(w)
  BY <1>1, <1>5, <1>7, <1>9, <1>12
<1> QED
  BY <1>5, <1>7, <1>9, <1>12, <1>13, <1>14, <1>15

(* The packet is one the factory makes, with every integer in its range. *)
SoundPacket(p) == /\ p \in PacketsRead
                  /\ Sound(p.values, Fields[p.type], Len(Fields[p.type]))

PassesSum(d) == d.sum = NoSum \/ d.sum = Checksum(Own, d.bits)

(* Whatever has come: a packet that is read is sound, and there is none otherwise. *)
LEMMA ReadIsSound ==
    ASSUME Setup, NEW d, d.bits \in Seq(Bit)
    PROVE  /\ Read(d).error \in Errors \ {"undefined"}
           /\ Read(d).error = "none" => PassesSum(d) /\ SoundPacket(Read(d).packet)
           /\ ~PassesSum(d) => Read(d).error = "crc32_mismatch"
<1> DEFINE r == ReadPrefix(d.bits)
           head == ReadAll(r, header).stream
           type == ReadType(head)
           v == type.value[1]
           body == ReadAll(type, Fields[v])
           x == Read(d)
<1>1. InData(r)
  BY ReadPrefixOK
<1>2. LegalCalls(header)
  BY PacketCodecAssumption DEF Setup, LegalCalls
<1> HIDE DEF r
<1>3. InData(head)
  BY <1>1, <1>2, ReadAllOK DEF Reading
<1> HIDE DEF head
<1>4. InData(type)
  BY <1>3, ReadTypeOK DEF Setup, Stepped
<1> HIDE DEF type, v
<1>5. v \in Registered => /\ body \in Reading
                          /\ body.stream.ok => Sound(body.values, Fields[v], Len(Fields[v]))
  <2> SUFFICES ASSUME v \in Registered
               PROVE  /\ body \in Reading
                      /\ body.stream.ok => Sound(body.values, Fields[v], Len(Fields[v]))
    OBVIOUS
  <2>1. LegalCalls(Fields[v])
    BY FieldsOK
  <2> QED
    BY <1>4, <2>1, ReadAllOK
<1>6. x = IF d.sum # NoSum /\ d.sum # Checksum(Own, d.bits) THEN Refused("crc32_mismatch")
          ELSE IF ~head.ok THEN Refused("serialize_header_failed")
          ELSE IF ~type.ok THEN Refused("invalid_packet_type")
          ELSE IF v \notin Registered THEN Refused("create_packet_failed")
          ELSE Fill(type, v)
  BY DEF Read, r, head, type, v
<1>7. Fill(type, v) = IF ~body.stream.ok THEN Refused("serialize_packet_failed")
                      ELSE IF body.stream.error THEN Refused("stream_overflow")
                      ELSE Result("none", [type |-> v, values |-> body.values])
  BY DEF Fill
<1> HIDE DEF x, body
<1> DEFINE y == [type |-> v, values |-> body.values]
<1>8. \A e : Refused(e).error = e
  BY DEF Refused, Result
<1>9. Result("none", y).error = "none" /\ Result("none", y).packet = y
  BY DEF Result
<1>10. v \in Registered /\ body.stream.ok => SoundPacket(y)
  <2> SUFFICES ASSUME v \in Registered, body.stream.ok PROVE SoundPacket(y)
    OBVIOUS
  <2>1. body.values \in Seq(Seq(Int))
    BY <1>5 DEF Reading
  <2>2. y \in PacketsRead /\ y.type = v /\ y.values = body.values
    BY <2>1 DEF PacketsRead
  <2> HIDE DEF y
  <2> QED
    BY <1>5, <2>2 DEF SoundPacket
<1> HIDE DEF y
<1>11. CASE ~PassesSum(d)
  <2>1. d.sum # NoSum /\ d.sum # Checksum(Own, d.bits)
    BY <1>11 DEF PassesSum
  <2>2. x.error = "crc32_mismatch"
    BY <1>6, <1>8, <2>1
  <2> QED
    BY <1>11, <2>2 DEF Errors, x
<1>12. CASE PassesSum(d)
  <2>1. ~(d.sum # NoSum /\ d.sum # Checksum(Own, d.bits))
    BY <1>12 DEF PassesSum
  <2>2. CASE ~head.ok \/ ~type.ok \/ v \notin Registered
    <3>1. \/ x = Refused("serialize_header_failed") \/ x = Refused("invalid_packet_type")
          \/ x = Refused("create_packet_failed")
      BY <1>6, <2>1, <2>2
    <3>2. x.error \in {"serialize_header_failed", "invalid_packet_type", "create_packet_failed"}
      BY <1>8, <3>1
    <3> QED
      BY <1>12, <3>2 DEF Errors, x
  <2>3. CASE head.ok /\ type.ok /\ v \in Registered
    <3>1. x = Fill(type, v)
      BY <1>6, <2>1, <2>3
    <3>2. CASE ~body.stream.ok \/ body.stream.error
      <4>1. x.error \in {"serialize_packet_failed", "stream_overflow"}
        BY <1>7, <1>8, <3>1, <3>2
      <4> QED
        BY <1>12, <4>1 DEF Errors, x
    <3>3. CASE body.stream.ok /\ ~body.stream.error
      <4>1. x = Result("none", y)
        BY <1>7, <3>1, <3>3 DEF y
      <4>2. x.error = "none" /\ SoundPacket(x.packet)
        BY <1>9, <1>10, <2>3, <3>3, <4>1
      <4> QED
        BY <1>12, <4>2 DEF Errors, x
    <3> QED
      BY <3>2, <3>3
  <2> QED
    BY <2>2, <2>3
<1> QED
  BY <1>11, <1>12

LEMMA SameSelf == \A cs : LegalCalls(cs) => SameCalls(cs, cs)
BY DEF SameCalls, SameReading

(* A datagram that begins like one with p in it: with all the bits of p it is *)
(* read as p, with fewer it is not read.                                      *)
LEMMA ReadsWhatIsThere ==
    ASSUME Setup, SameTypes, NEW p \in Packets, p.type < writerTypes,
           NEW d, d.bits \in Seq(Bit), PassesSum(d),
           NEW u, NEW h \in Nat, NEW t \in Nat, NEW e \in Nat, Layout(u, p, h, t, e), e <= IntMax,
           Len(d.bits) <= Len(u), \A i \in 1..Len(d.bits) : d.bits[i] = u[i]
    PROVE  IF e <= Len(d.bits) THEN Read(d).error = "none" /\ Read(d).packet = p
                               ELSE Read(d).error # "none"
<1> DEFINE L == Len(d.bits)
           r == ReadPrefix(d.bits)
           a == ReadAll(r, header)
           head == a.stream
           type == ReadType(head)
           v == type.value[1]
           body == ReadAll(type, Fields[v])
           x == Read(d)
           y == [type |-> v, values |-> body.values]
<1>0. L \in Nat /\ readerTypes \in 1..IntMax /\ writerTypes = readerTypes /\ h <= t /\ t <= e
      /\ h <= IntMax
  <2>1. h <= t /\ t <= e
    BY DEF Layout
  <2>2. h <= IntMax
    BY <2>1, IntRange
  <2> QED
    BY <2>1, <2>2 DEF Setup, SameTypes
<1>1. InData(r) /\ r.data = d.bits /\ At(r, PrefixBits)
  BY ReadPrefixOK
<1>2. LegalCalls(header) /\ SameCalls(header, header)
  BY PacketCodecAssumption, SameSelf DEF Setup, LegalCalls
<1>3. \A q : q.data = d.bits => BeginsLike(q, u)
  BY DEF BeginsLike
<1>4. /\ Laid(u, PrefixBits, header, h) /\ TypeLaid(u, h, p.type, readerTypes, t)
      /\ Laid(u, t, Calls(p), e)
  BY <1>0 DEF Layout
<1>5. /\ p \in PacketsRead /\ p.type \in Registered /\ Len(Fields[p.type]) \in Nat
      /\ LegalCalls(Calls(p)) /\ SameCalls(Fields[p.type], Calls(p))
      /\ Len(p.values) = Len(Fields[p.type])
      /\ \A i \in 1..Len(Fields[p.type]) : Got(Calls(p)[i]) = p.values[i]
  BY CallsOK
<1>6. p.type \in 0..(readerTypes - 1)
  <2>1. p.type \in Nat
    BY <1>5 DEF Registered, TEST_PACKET_A, TEST_PACKET_B, TEST_PACKET_C,
          RUDP_CMD_CONNECTION_START_REQ, RUDP_CMD_CONNECTION_START_RSP,
          RUDP_CMD_CONNECTION_STOP_REQ, RUDP_CMD_CONNECTION_STOP_RSP, RUDP_CMD_HEARTBEAT
  <2> QED
    BY <1>0, <2>1
<1> HIDE DEF L, r
<1>7. BeginsLike(r, u)
  BY <1>1, <1>3
<1>8. a \in Reading /\ head.data = r.data /\ At(head, h) /\ (h <= Len(r.data) => head.ok)
  BY <1>0, <1>1, <1>2, <1>4, <1>7, ReadAllOK
<1>9. InData(head) /\ head.data = d.bits /\ At(head, h) /\ (h <= L => head.ok)
  BY <1>1, <1>8 DEF Reading, L
<1> HIDE DEF a
<1>10. Stepped(head, type) /\ At(type, t) /\ (t <= Len(head.data) => type.ok /\ type.value = <<p.type>>)
  <2>1. BeginsLike(head, u)
    BY <1>3, <1>9
  <2> QED
    BY <1>0, <1>4, <1>6, <1>9, <2>1, ReadTypeOK
<1>11. /\ InData(type) /\ type.data = d.bits /\ At(type, t)
       /\ t <= L => type.ok /\ type.value = <<p.type>>
  BY <1>9, <1>10 DEF Stepped, L
<1>12. t <= L => v = p.type
  BY <1>11
<1>13. x = IF d.sum # NoSum /\ d.sum # Checksum(Own, d.bits) THEN Refused("crc32_mismatch")
           ELSE IF ~head.ok THEN Refused("serialize_header_failed")
           ELSE IF ~type.ok THEN Refused("invalid_packet_type")
           ELSE IF v \notin Registered THEN Refused("create_packet_failed")
           ELSE Fill(type, v)
  BY DEF Read, r, a
<1>14. Fill(type, v) = IF ~body.stream.ok THEN Refused("serialize_packet_failed")
                       ELSE IF body.stream.error THEN Refused("stream_overflow")
                       ELSE Result("none", y)
  BY DEF Fill
<1>15. v \in Registered => /\ body \in Reading /\ body.stream.data = type.data
                           /\ (type.error => body.stream.error)
  <2> SUFFICES ASSUME v \in Registered
               PROVE  /\ body \in Reading /\ body.stream.data = type.data
                      /\ (type.error => body.stream.error)
    OBVIOUS
  <2>1. LegalCalls(Fields[v])
    BY FieldsOK
  <2> HIDE DEF type, v
  <2> QED
    BY <1>11, <2>1, ReadAllOK
<1>16. t <= L => /\ At(body.stream, e)
                 /\ e <= L => body.stream.ok /\ Same(body.values, Calls(p), Len(Fields[p.type]))
  <2> SUFFICES ASSUME t <= L
               PROVE  /\ At(body.stream, e)
                      /\ e <= L => body.stream.ok /\ Same(body.values, Calls(p), Len(Fields[p.type]))
    OBVIOUS
  <2>1. LegalCalls(Fields[p.type]) /\ body = ReadAll(type, Fields[p.type])
    BY <1>5, <1>12, FieldsOK
  <2>2. BeginsLike(type, u) /\ Len(type.data) = L
    BY <1>3, <1>11 DEF L
  <2> HIDE DEF type, v, body
  <2> QED
    BY <1>4, <1>5, <1>11, <2>1, <2>2, ReadAllOK
<1> HIDE DEF type, v, body, x
<1>17. ~(d.sum # NoSum /\ d.sum # Checksum(Own, d.bits))
  BY DEF PassesSum
<1>18. \A f : Refused(f).error = f
  BY DEF Refused, Result
<1>19. Result("none", y).error = "none" /\ Result("none", y).packet = y
  BY DEF Result
<1>20. CASE e <= L
  <2>1. t <= L /\ h <= L
    BY <1>0, <1>20
  <2>2. head.ok /\ type.ok /\ v = p.type /\ v \in Registered /\ body \in Reading
    BY <1>5, <1>9, <1>11, <1>12, <1>15, <2>1
  <2>3. body.stream.ok /\ Same(body.values, Calls(p), Len(Fields[p.type])) /\ At(body.stream, e)
    BY <1>16, <1>20, <2>1
  <2>4. ~body.stream.error
    BY <1>11, <1>15, <1>20, <2>2, <2>3 DEF At, L
  <2>5. x = Result("none", y)
    BY <1>13, <1>14, <1>17, <2>2, <2>3, <2>4
  <2>6. body.values = p.values
    <3> DEFINE vs == body.values
               ws == p.values
               N == Len(Fields[p.type])
    <3>1. vs \in Seq(Seq(Int)) /\ ws \in Seq(Seq(Int))
      BY <1>5, <2>2 DEF Reading, PacketsRead
    <3>2. Len(vs) = N /\ Len(ws) = N /\ N \in Nat /\ \A i \in 1..N : vs[i] = ws[i]
      BY <1>5, <2>3 DEF Same
    <3> HIDE DEF vs, ws, N
    <3>3. vs = ws
      BY <3>1, <3>2
    <3> QED
      BY <3>3 DEF vs, ws
  <2>7. y = p
    <3>1. y = [type |-> p.type, values |-> p.values]
      BY <2>2, <2>6
    <3>2. p = [type |-> p.type, values |-> p.values]
      BY <1>5 DEF PacketsRead
    <3> HIDE DEF y
    <3> QED
      BY <3>1, <3>2
  <2> HIDE DEF y
  <2> QED
    BY <1>19, <1>20, <2>5, <2>7 DEF x, L
<1>21. CASE ~(e <= L)
  <2> SUFFICES ASSUME x.error = "none" PROVE FALSE
    BY <1>21 DEF x, L
  <2>1. /\ "crc32_mismatch" # "none" /\ "serialize_header_failed" # "none" /\ "invalid_packet_type" # "none"
        /\ "create_packet_failed" # "none" /\ "serialize_packet_failed" # "none"
        /\ "stream_overflow" # "none"
    OBVIOUS
  <2>2. v \in Registered /\ ~body.stream.error
    BY <1>13, <1>14, <1>17, <1>18, <2>1
  <2>3. CASE t <= L
    <3>1. body.stream.error
      BY <1>11, <1>15, <1>16, <1>21, <2>2, <2>3 DEF At, L
    <3> QED
      BY <2>2, <3>1
  <2>4. CASE ~(t <= L)
    <3>1. type.error
      BY <1>11, <2>4 DEF At, L
    <3> QED
      BY <1>15, <2>2, <3>1
  <2> QED
    BY <2>3, <2>4
<1> QED
  BY <1>20, <1>21

-----------------------------------------------------------------------------
\* What becomes of a datagram on its way.

Datagram(p, id) == [bits |-> Written(p), id |-> id, sum |-> Stamp(id, Written(p))]

LEMMA RestAlike ==
    ASSUME NEW s \in Seq(Bit), NEW u \in Seq(Bit), PrefixBits <= Len(s), PrefixBits <= Len(u),
           Rest(u) = Rest(s)
    PROVE  Len(u) = Len(s) /\ Alike(u, s, PrefixBits)
<1> DEFINE k == PrefixBits
<1>1. k \in Nat /\ Len(s) \in Nat /\ Len(u) \in Nat
  BY PrefixFacts
<1> HIDE DEF k
<1>2. SubSeq(u, k + 1, Len(u)) = SubSeq(s, k + 1, Len(s)) /\ k <= Len(s) /\ k <= Len(u)
  BY DEF Rest, k
<1>3. Len(SubSeq(u, k + 1, Len(u))) = Len(u) - k /\ Len(SubSeq(s, k + 1, Len(s))) = Len(s) - k
  BY <1>1, <1>2
<1>4. Len(u) = Len(s)
  BY <1>1, <1>2, <1>3
<1>5. ASSUME NEW i \in (k + 1)..Len(s) PROVE u[i] = s[i]
  <2>1. i - k \in 1..(Len(s) - k) /\ (k + 1) + (i - k) - 1 = i
    BY <1>1
  <2>2. SubSeq(u, k + 1, Len(u))[i - k] = u[i] /\ SubSeq(s, k + 1, Len(s))[i - k] = s[i]
    BY <1>1, <1>2, <1>4, <2>1
  <2> QED
    BY <1>2, <2>2
<1> QED
  BY <1>1, <1>4, <1>5 DEF Alike, k

(* A checksum passes only over the packet it was made of. *)
LEMMA SumPasses ==
    ASSUME Setup, SameTypes, ~rawFormat, NEW p \in Packets, p.type < writerTypes,
           NEW id \in {Own, Foreign}, NEW d, d.bits \in Seq(Bit), PrefixBits <= Len(d.bits),
           d.sum = Stamp(id, Written(p)), PassesSum(d), Len(Written(p)) <= IntMax
    PROVE  /\ id = Own /\ Len(d.bits) = Len(Written(p))
           /\ Read(d).error = "none" /\ Read(d).packet = p
<1> DEFINE w == Written(p)
<1>1. w \in Seq(Bit) /\ PrefixBits <= Len(w)
  BY WrittenOK
<1>2. PICK h \in Nat, t \in Nat, e \in Nat :
         /\ e <= Len(w)
         /\ \A u : Alike(u, w, PrefixBits) => Layout(u, p, h, t, e)
  BY WrittenOK
<1>11. e <= IntMax
  BY <1>1, <1>2, IntRange
<1>3. d.sum = <<id, Rest(w)>>
  BY DEF Stamp, Checksum
<1> HIDE DEF w
<1>4. d.sum # NoSum
  BY <1>3 DEF NoSum
<1>5. <<id, Rest(w)>> = <<Own, Rest(d.bits)>>
  BY <1>3, <1>4 DEF PassesSum, Checksum
<1>6. id = Own /\ Rest(d.bits) = Rest(w)
  BY <1>5
<1>7. Len(d.bits) = Len(w) /\ Alike(d.bits, w, PrefixBits)
  BY <1>1, <1>6, RestAlike
<1>8. Layout(d.bits, p, h, t, e) /\ e <= Len(d.bits) /\ Len(d.bits) <= Len(d.bits)
  BY <1>1, <1>2, <1>7
<1>9. Read(d).error = "none" /\ Read(d).packet = p
  <2> DEFINE u == d.bits
  <2>1. Layout(u, p, h, t, e) /\ Len(d.bits) <= Len(u) /\ \A i \in 1..Len(d.bits) : d.bits[i] = u[i]
    BY <1>8
  <2> HIDE DEF u
  <2> QED
    BY <1>8, <1>11, <2>1, ReadsWhatIsThere
<1> QED
  BY <1>6, <1>7, <1>9 DEF w

(* What a datagram is like when it arrives. *)
LEMMA Arrived ==
    ASSUME Setup, NEW p \in Packets, p.type < writerTypes, NEW id \in {Own, Foreign},
           NEW a \in Arrivals(Datagram(p, id))
    PROVE  /\ a.d.id = id /\ a.d.bits \in Seq(Bit)
           /\ \/ a.how = "whole" /\ a.d.bits = Written(p) /\ a.d.sum = Stamp(id, Written(p))
              \/ /\ a.how = "altered" /\ (~rawFormat => PrefixBits <= Len(a.d.bits))
                 /\ \/ a.d.sum = Stamp(id, Written(p))
                    \/ ~rawFormat /\ a.d.sum = Garbled
              \/ /\ a.how = "cut" /\ a.d.sum = Stamp(id, Written(p))
                 /\ ~rawFormat => PrefixBits <= Len(a.d.bits)
                 /\ Len(a.d.bits) + ByteBits <= Len(Written(p))
                 /\ \A i \in 1..Len(a.d.bits) : a.d.bits[i] = Written(p)[i]
<1> DEFINE w == Written(p)
           sum == Stamp(id, w)
           S == {sum, Garbled}
           D == [bits : Seq(Bit), id : {id}, sum : S]
           d == Datagram(p, id)
           B == ByteBits
<1>1. w \in Seq(Bit) /\ PrefixBits <= Len(w) /\ Len(w) % B = 0
  BY WrittenOK
<1>2. d = [bits |-> w, id |-> id, sum |-> sum]
  BY DEF Datagram
<1>b. B \in Nat \ {0} /\ PrefixBytes \in Nat /\ PrefixBits = PrefixBytes * B /\ PrefixBits \in Nat
      /\ Len(w) \in Nat
  BY <1>1, PrefixFacts DEF PrefixBits
<1> HIDE DEF w, sum, d, B
<1>3. d \in D /\ d.bits = w /\ d.id = id /\ d.sum = sum
  BY <1>1, <1>2
<1>4. \/ a = [how |-> "whole", d |-> d]
      \/ \E x \in Alter(d) : a = [how |-> "altered", d |-> x]
      \/ \E x \in Cut(d) : a = [how |-> "cut", d |-> x]
  BY DEF Arrivals, d
<1>5. CASE a = [how |-> "whole", d |-> d]
  <2>1. a.how = "whole" /\ a.d = d
    BY <1>5
  <2> QED
    BY <1>1, <1>3, <2>1 DEF w, sum
<1>6. ASSUME NEW x \in Alter(d), a = [how |-> "altered", d |-> x]
      PROVE  /\ a.d.id = id /\ a.d.bits \in Seq(Bit) /\ a.how = "altered"
             /\ PrefixBits <= Len(a.d.bits)
             /\ a.d.sum = sum \/ (~rawFormat /\ a.d.sum = Garbled)
  <2>1. a.how = "altered" /\ a.d = x
    BY <1>6
  <2>2. \/ \E i \in DOMAIN w : x = [d EXCEPT !.bits[i] = 1 - @]
        \/ ~rawFormat /\ x = [d EXCEPT !.sum = Garbled]
    BY <1>3, <1>6 DEF Alter
  <2>3. CASE \E i \in DOMAIN w : x = [d EXCEPT !.bits[i] = 1 - @]
    <3>1. PICK i \in DOMAIN w : x = [d EXCEPT !.bits[i] = 1 - @]
      BY <2>3
    <3> DEFINE f == [w EXCEPT ![i] = 1 - @]
    <3>2. f \in Seq(Bit) /\ Len(f) = Len(w)
      BY <1>1, <3>1 DEF Bit
    <3>3. x = [d EXCEPT !.bits = f]
      BY <1>3, <3>1
    <3> HIDE DEF f
    <3>4. x.bits = f /\ x.id = id /\ x.sum = sum
      BY <1>3, <3>3
    <3> QED
      BY <1>1, <2>1, <3>2, <3>4
  <2>4. CASE ~rawFormat /\ x = [d EXCEPT !.sum = Garbled]
    <3>1. x.bits = w /\ x.id = id /\ x.sum = Garbled
      BY <1>3, <2>4
    <3> QED
      BY <1>1, <2>1, <2>4, <3>1
  <2> QED
    BY <2>2, <2>3, <2>4
<1>7. ASSUME NEW x \in Cut(d), a = [how |-> "cut", d |-> x]
      PROVE  /\ a.d.id = id /\ a.d.bits \in Seq(Bit) /\ a.how = "cut" /\ a.d.sum = sum
             /\ ~rawFormat => PrefixBits <= Len(a.d.bits)
             /\ Len(a.d.bits) + B <= Len(w)
             /\ \A i \in 1..Len(a.d.bits) : a.d.bits[i] = w[i]
  <2> DEFINE bytes == Len(w) \div B
  <2>1. PICK n \in (IF rawFormat THEN 1 ELSE PrefixBytes)..(bytes - 1) :
           x = [d EXCEPT !.bits = SubSeq(@, 1, n * B)]
    BY <1>3, <1>7 DEF Cut, B
  <2>2. bytes \in Nat /\ Len(w) = bytes * B
    <3>1. Len(w) \in Int /\ Len(w) >= 0
      BY <1>b
    <3>2. bytes \in Int /\ Len(w) = (bytes * B) + (Len(w) % B) /\ bytes >= 0
      BY <1>b, <3>1, Quotient
    <3>3. bytes * B \in Int
      BY <1>b, <3>2
    <3> QED
      BY <1>1, <1>b, <3>2, <3>3
  <2> HIDE DEF bytes
  <2>3. n \in Nat /\ n < bytes /\ (~rawFormat => PrefixBytes <= n)
    BY <1>b, <2>1, <2>2
  <2> DEFINE m == n * B
  <2>4. m \in Nat /\ m + B <= Len(w) /\ (~rawFormat => PrefixBits <= m)
    <3>1. m \in Nat /\ m + B <= bytes * B
      BY <1>b, <2>2, <2>3, Multiples
    <3>2. ~rawFormat => PrefixBytes * B <= m
      BY <1>b, <2>3, Multiples
    <3> QED
      BY <1>b, <2>2, <3>1, <3>2
  <2>5. x = [d EXCEPT !.bits = SubSeq(w, 1, m)]
    BY <1>3, <2>1
  <2> HIDE DEF m
  <2> DEFINE f == SubSeq(w, 1, m)
  <2>6. f \in Seq(Bit) /\ Len(f) = m /\ \A i \in 1..m : f[i] = w[i]
    BY <1>1, <1>b, <2>4
  <2>7. x = [d EXCEPT !.bits = f]
    BY <2>5
  <2> HIDE DEF f
  <2>8. x.bits = f /\ x.id = id /\ x.sum = sum
    BY <1>3, <2>7
  <2>9. a.how = "cut" /\ a.d = x
    BY <1>7
  <2> QED
    BY <2>4, <2>6, <2>8, <2>9
<1> QED
  BY <1>4, <1>5, <1>6, <1>7 DEF w, sum, B

(* What may be made of it. *)
LEMMA ArrivalRead ==
    ASSUME Setup, NEW p \in Packets, p.type < writerTypes, NEW id \in {Own, Foreign},
           Len(Written(p)) <= IntMax, NEW a \in Arrivals(Datagram(p, id))
    PROVE  LET x == Read(a.d)
           IN /\ a.d.id = id /\ a.how \in {"whole", "altered", "cut"}
              /\ x.error \in Errors \ {"undefined"}
              /\ x.error = "none" => SoundPacket(x.packet)
              /\ SameTypes =>
                    /\ a.how = "whole" /\ (id = Own \/ rawFormat) => x.error = "none"
                    /\ a.how = "cut" => x.error # "none"
                    /\ ~rawFormat => /\ x.error \in {"none", "crc32_mismatch"}
                                     /\ x.error = "none" => id = Own /\ x.packet = p
<1> DEFINE w == Written(p)
           sum == Stamp(id, w)
           d == a.d
           x == Read(d)
<1>1. w \in Seq(Bit) /\ PrefixBits <= Len(w)
  BY WrittenOK
<1>2. PICK h \in Nat, t \in Nat, e \in Nat :
         /\ e <= Len(w) /\ Len(w) < e + ByteBits
         /\ \A u : Alike(u, w, PrefixBits) => Layout(u, p, h, t, e)
  BY WrittenOK
<1>3. /\ d.id = id /\ d.bits \in Seq(Bit)
      /\ \/ a.how = "whole" /\ d.bits = w /\ d.sum = sum
         \/ /\ a.how = "altered" /\ (~rawFormat => PrefixBits <= Len(d.bits))
            /\ d.sum = sum \/ (~rawFormat /\ d.sum = Garbled)
         \/ /\ a.how = "cut" /\ d.sum = sum /\ (~rawFormat => PrefixBits <= Len(d.bits))
            /\ Len(d.bits) + ByteBits <= Len(w)
            /\ \A i \in 1..Len(d.bits) : d.bits[i] = w[i]
  BY Arrived
<1>4. PrefixBits \in Nat /\ ByteBits \in Nat \ {0} /\ Len(w) \in Nat /\ Len(d.bits) \in Nat
  BY <1>1, <1>3, PrefixFacts
<1>5. /\ x.error \in Errors \ {"undefined"}
      /\ x.error = "none" => PassesSum(d) /\ SoundPacket(x.packet)
      /\ ~PassesSum(d) => x.error = "crc32_mismatch"
  BY <1>3, ReadIsSound
<1>20. e <= IntMax
  BY <1>1, <1>2, IntRange
<1> HIDE DEF d
<1>6. ASSUME ~rawFormat, d.sum = Garbled PROVE ~PassesSum(d)
  BY <1>6 DEF PassesSum, Garbled, NoSum, Checksum
<1>7. ASSUME SameTypes, ~rawFormat, d.sum = sum, PrefixBits <= Len(d.bits), PassesSum(d)
      PROVE  id = Own /\ Len(d.bits) = Len(w) /\ x.error = "none" /\ x.packet = p
  BY <1>3, <1>7, SumPasses
<1>8. ASSUME d.sum = sum, d.bits = w, id = Own \/ rawFormat PROVE PassesSum(d)
  BY <1>8 DEF PassesSum, Stamp
<1>9. ASSUME SameTypes, a.how = "whole", id = Own \/ rawFormat PROVE x.error = "none"
  <2>1. d.bits = w /\ PassesSum(d)
    BY <1>3, <1>8, <1>9
  <2>2. Alike(w, w, PrefixBits)
    BY <1>1, <1>4 DEF Alike
  <2>3. Layout(w, p, h, t, e) /\ e <= Len(d.bits) /\ Len(d.bits) <= Len(w)
    BY <1>2, <1>4, <2>1, <2>2
  <2>4. \A i \in 1..Len(d.bits) : d.bits[i] = w[i]
    BY <2>1
  <2> HIDE DEF w, x
  <2>5. Read(d).error = "none"
    BY <1>3, <1>9, <1>20, <2>1, <2>3, <2>4, ReadsWhatIsThere
  <2> QED
    BY <2>5 DEF x
<1>10. ASSUME SameTypes, a.how = "cut" PROVE x.error # "none"
  <2>1. CASE ~PassesSum(d)
    <3>1. "crc32_mismatch" # "none"
      OBVIOUS
    <3> HIDE DEF x
    <3> QED
      BY <1>5, <2>1, <3>1
  <2>2. CASE PassesSum(d)
    <3>1. Len(d.bits) + ByteBits <= Len(w) /\ \A i \in 1..Len(d.bits) : d.bits[i] = w[i]
      BY <1>3, <1>10
    <3>2. Alike(w, w, PrefixBits)
      BY <1>1, <1>4 DEF Alike
    <3>3. Layout(w, p, h, t, e) /\ ~(e <= Len(d.bits)) /\ Len(d.bits) <= Len(w)
      BY <1>2, <1>4, <3>1, <3>2
    <3> HIDE DEF w, x
    <3>4. Read(d).error # "none"
      BY <1>3, <1>10, <1>20, <2>2, <3>1, <3>3, ReadsWhatIsThere
    <3> QED
      BY <3>4 DEF x
  <2> QED
    BY <2>1, <2>2
<1> HIDE DEF x, w, sum
<1>11. ASSUME SameTypes, ~rawFormat
       PROVE  /\ x.error \in {"none", "crc32_mismatch"}
              /\ x.error = "none" => id = Own /\ x.packet = p
  <2>1. CASE ~PassesSum(d)
    BY <1>5, <2>1
  <2>2. CASE PassesSum(d)
    <3>1. d.sum = sum /\ PrefixBits <= Len(d.bits)
      BY <1>1, <1>3, <1>6, <1>11, <2>2
    <3> QED
      BY <1>7, <1>11, <2>2, <3>1
  <2> QED
    BY <2>1, <2>2
<1>12. a.how \in {"whole", "altered", "cut"}
  BY <1>3
<1> QED
  BY <1>3, <1>5, <1>9, <1>10, <1>11, <1>12 DEF x, d

-----------------------------------------------------------------------------
\* The programs: the inductive invariant.

(* Every datagram is one that WritePacket makes; those of the reader's *)
(* protocol hold packets that count as sent.                           *)
Honest(w) == \E p \in Packets, id \in {Own, Foreign} :
                /\ w = Datagram(p, id) /\ p.type < writerTypes /\ Len(w.bits) <= IntMax
                /\ id = Own => p \in sent

Network == /\ written \in Seq([bits : Seq(Bit), id : {Own, Foreign}, sum : Seq({Own, Foreign} \cup Seq(Bit))])
           /\ Len(written) <= WriteMax /\ sent \subseteq Packets
           /\ \A i \in 1..Len(written) : Honest(written[i])

Programs == header \in Headers /\ rawFormat \in BOOLEAN
            /\ writerTypes \in TypeCounts /\ readerTypes \in TypeCounts

(* The packets alive are those the application has, each of them sound, and *)
(* none of them made up when there is a checksum.                           *)
Memory == /\ heap \in [1..HeapMax -> PacketsRead \cup {NoPacket}] /\ held \subseteq 1..HeapMax
          /\ \A o \in 1..HeapMax : o \in held <=> heap[o] # NoPacket
          /\ \A o \in held : SoundPacket(heap[o])
          /\ ~rawFormat /\ SameTypes => \A o \in held : heap[o] \in sent

LastRead == /\ last.how \in {"nothing", "whole", "altered", "cut"} /\ last.error \in Errors
            /\ last.how = "cut" /\ SameTypes => last.error # "none"
            /\ IntactIsRead

CodecInv == Programs /\ Network /\ Memory /\ LastRead

LEMMA ProgramsSetup == Programs => Setup
BY PacketCodecAssumption DEF Programs, Setup

LEMMA SoundIsPacket == \A p : SoundPacket(p) => p \in PacketsRead /\ p # NoPacket
<1> SUFFICES ASSUME NEW p, SoundPacket(p) PROVE p \in PacketsRead /\ p # NoPacket
  OBVIOUS
<1>1. p \in PacketsRead /\ p.type \in Registered
  BY DEF SoundPacket, PacketsRead
<1>2. -1 \notin Registered
  BY DEF Registered, TEST_PACKET_A, TEST_PACKET_B, TEST_PACKET_C,
         RUDP_CMD_CONNECTION_START_REQ, RUDP_CMD_CONNECTION_START_RSP,
         RUDP_CMD_CONNECTION_STOP_REQ, RUDP_CMD_CONNECTION_STOP_RSP, RUDP_CMD_HEARTBEAT
<1>3. NoPacket.type = -1
  BY DEF NoPacket
<1> QED
  BY <1>1, <1>2, <1>3

LEMMA SameProgram ==
    ASSUME UNCHANGED setup, Programs
    PROVE  /\ Programs' /\ SameTypes' = SameTypes
           /\ \A p, id : Datagram(p, id)' = Datagram(p, id)
<1>1. rawFormat' = rawFormat /\ header' = header /\ writerTypes' = writerTypes /\ readerTypes' = readerTypes
  BY DEF setup
<1>2. Programs' /\ SameTypes' = SameTypes
  BY <1>1 DEF Programs, SameTypes
<1>3. ASSUME NEW p, NEW id PROVE Datagram(p, id)' = Datagram(p, id)
  <2>1. Written(p)' = Written(p)
    BY <1>1 DEF Written, WriteType
  <2> QED
    BY <1>1, <2>1 DEF Datagram, Stamp
<1> QED
  BY <1>2, <1>3

LEMMA NetworkKept ==
    ASSUME Programs, Network, UNCHANGED <<setup, written>>, sent' = sent
    PROVE  Network'
<1>1. \A p, id : Datagram(p, id)' = Datagram(p, id)
  BY SameProgram
<1>2. writerTypes' = writerTypes
  BY DEF setup
<1>3. ASSUME NEW i \in 1..Len(written) PROVE Honest(written[i])'
  <2>1. PICK p \in Packets, id \in {Own, Foreign} :
           /\ written[i] = Datagram(p, id) /\ p.type < writerTypes /\ (id = Own => p \in sent)
           /\ Len(written[i].bits) <= IntMax
    BY DEF Network, Honest
  <2>2. written'[i] = Datagram(p, id)'
    BY <1>1, <2>1
  <2>3. p.type < writerTypes' /\ (id = Own => p \in sent') /\ Len(written'[i].bits) <= IntMax
    BY <1>2, <2>1
  <2> QED
    BY <2>2, <2>3 DEF Honest
<1> QED
  BY <1>3 DEF Network

LEMMA InitCodec == Init => CodecInv
<1> SUFFICES ASSUME Init PROVE CodecInv
  OBVIOUS
<1>1. Programs
  BY DEF Init, Programs
<1>2. Network
  <2>1. written = << >> /\ sent = {} /\ WriteMax \in Nat
    BY PacketCodecAssumption DEF Init
  <2> QED
    BY <2>1 DEF Network
<1>3. Memory
  <2>1. heap \in [1..HeapMax -> PacketsRead \cup {NoPacket}] /\ held = {} /\ \A o \in 1..HeapMax : heap[o] = NoPacket
    BY DEF Init
  <2> QED
    BY <2>1 DEF Memory
<1>4. LastRead
  <2>1. last.how = "nothing" /\ last.error = "none"
    BY DEF Init
  <2> QED
    BY <2>1 DEF LastRead, IntactIsRead, Errors
<1> QED
  BY <1>1, <1>2, <1>3, <1>4 DEF CodecInv

LEMMA LastKept == LastRead /\ UNCHANGED <<setup, last>> => LastRead'
BY DEF LastRead, IntactIsRead, SameTypes, setup

LEMMA WriteKeeps ==
    ASSUME CodecInv, NEW p \in Packets, NEW id \in {Own, Foreign}, WritePacket(p, id)
    PROVE  CodecInv'
<1> DEFINE d == Datagram(p, id)
           w == Written(p)
           Types == [bits : Seq(Bit), id : {Own, Foreign}, sum : Seq({Own, Foreign} \cup Seq(Bit))]
<1>1. Programs /\ Network /\ Memory /\ LastRead /\ Setup
  BY ProgramsSetup DEF CodecInv
<1>2. /\ p.type < writerTypes /\ Len(written) < WriteMax /\ written' = Append(written, d)
      /\ sent' = (IF id = Own THEN sent \cup {p} ELSE sent)
      /\ UNCHANGED <<setup, heap, held, last>>
  BY DEF WritePacket, Datagram
<1>3. /\ Programs' /\ SameTypes' = SameTypes /\ UNCHANGED setup
      /\ \A q, j : Datagram(q, j)' = Datagram(q, j)
  BY <1>1, <1>2, SameProgram
<1>4. d \in Types
  <2>1. w \in Seq(Bit) /\ PrefixBits <= Len(w)
    BY <1>1, <1>2, WrittenOK
  <2>2. Rest(w) \in Seq(Bit)
    <3>1. PrefixBits \in Nat /\ Len(w) \in Nat
      BY <2>1, PrefixFacts
    <3> HIDE DEF w
    <3> QED
      BY <2>1, <3>1 DEF Rest
  <2>3. Stamp(id, w) \in Seq({Own, Foreign} \cup Seq(Bit))
    <3> DEFINE v == Rest(w)
    <3> HIDE DEF v
    <3>1. v \in Seq(Bit)
      BY <2>2 DEF v
    <3>2. Stamp(id, w) = << >> \/ Stamp(id, w) = <<id, v>>
      BY DEF Stamp, NoSum, Checksum, v
    <3> DEFINE T == {Own, Foreign} \cup Seq(Bit)
    <3>3. id \in T /\ v \in T
      BY <3>1
    <3> HIDE DEF T
    <3>4. << >> \in Seq(T) /\ <<id, v>> \in Seq(T)
      BY <3>3
    <3> QED
      BY <3>2, <3>4 DEF T
  <2>4. d = [bits |-> w, id |-> id, sum |-> Stamp(id, w)]
    BY DEF Datagram
  <2> DEFINE sum == Stamp(id, w)
  <2> HIDE DEF w, d, sum
  <2> QED
    BY <2>1, <2>3, <2>4 DEF sum
<1>5. sent \subseteq sent' /\ sent' \subseteq Packets
  BY <1>1, <1>2 DEF Network
<1>9. Len(d.bits) <= IntMax
  BY DEF WritePacket, Datagram
<1> HIDE DEF d
<1>6. Network'
  <2>1. written \in Seq(Types) /\ Len(written) \in Nat /\ WriteMax \in Nat
    BY <1>1, PacketCodecAssumption DEF Network
  <2>2. /\ written' \in Seq(Types) /\ Len(written') = Len(written) + 1
        /\ written'[Len(written) + 1] = d
        /\ \A i \in 1..Len(written) : written'[i] = written[i]
    <3> HIDE DEF Types
    <3> QED
      BY <1>2, <1>4, <2>1
  <2>3. writerTypes' = writerTypes
    BY <1>3 DEF setup
  <2>4. ASSUME NEW i \in 1..Len(written') PROVE Honest(written[i])'
    <3>1. CASE i = Len(written) + 1
      <4>1. written'[i] = Datagram(p, id)'
        BY <1>3, <2>2, <3>1 DEF d
      <4>3. Len(written'[i].bits) <= IntMax
        BY <1>9, <2>2, <3>1
      <4>2. p.type < writerTypes' /\ (id = Own => p \in sent')
        BY <1>2, <2>3
      <4> QED
        BY <4>1, <4>2, <4>3 DEF Honest
    <3>2. CASE i # Len(written) + 1
      <4>1. i \in 1..Len(written)
        BY <2>1, <2>2, <3>2
      <4>2. PICK q \in Packets, j \in {Own, Foreign} :
               /\ written[i] = Datagram(q, j) /\ q.type < writerTypes /\ (j = Own => q \in sent)
               /\ Len(written[i].bits) <= IntMax
        BY <1>1, <4>1 DEF Network, Honest
      <4>3. written'[i] = Datagram(q, j)' /\ Len(written'[i].bits) <= IntMax
        BY <1>3, <2>2, <4>1, <4>2
      <4>4. q.type < writerTypes' /\ (j = Own => q \in sent')
        BY <1>5, <2>3, <4>2
      <4> QED
        BY <4>3, <4>4 DEF Honest
    <3> QED
      BY <3>1, <3>2
  <2>5. Len(written') <= WriteMax
    BY <1>2, <2>1, <2>2
  <2> QED
    BY <1>5, <2>2, <2>4, <2>5 DEF Network
<1>7. Memory'
  <2>1. heap' = heap /\ held' = held /\ rawFormat' = rawFormat
    BY <1>2 DEF setup
  <2> QED
    BY <1>1, <1>3, <1>5, <2>1 DEF Memory, SoundPacket
<1>8. LastRead'
  BY <1>1, <1>2, <1>3, LastKept
<1> QED
  BY <1>3, <1>6, <1>7, <1>8 DEF CodecInv

(* What a read datagram was: one that was written, and what ArrivalRead says. *)
LEMMA ReadOfWritten ==
    ASSUME CodecInv, NEW i \in DOMAIN written, NEW a \in Arrivals(written[i])
    PROVE  LET x == Read(a.d)
               own == a.d.id = Own
           IN /\ a.how \in {"whole", "altered", "cut"} /\ x.error \in Errors \ {"undefined"}
              /\ x.error = "none" => SoundPacket(x.packet)
              /\ SameTypes =>
                    /\ a.how = "whole" /\ (own \/ rawFormat) => x.error = "none"
                    /\ a.how = "cut" => x.error # "none"
                    /\ ~rawFormat => /\ x.error \in {"none", "crc32_mismatch"}
                                     /\ x.error = "none" => x.packet \in sent
<1>1. Setup /\ i \in 1..Len(written) /\ Honest(written[i])
  BY ProgramsSetup DEF CodecInv, Network
<1>2. PICK p \in Packets, id \in {Own, Foreign} :
         /\ written[i] = Datagram(p, id) /\ p.type < writerTypes /\ (id = Own => p \in sent)
         /\ Len(written[i].bits) <= IntMax
  BY <1>1 DEF Honest
<1>3. a \in Arrivals(Datagram(p, id)) /\ Len(Written(p)) <= IntMax
  BY <1>2 DEF Datagram
<1> DEFINE x == Read(a.d)
<1>4. /\ a.d.id = id /\ a.how \in {"whole", "altered", "cut"}
      /\ x.error \in Errors \ {"undefined"}
      /\ x.error = "none" => SoundPacket(x.packet)
      /\ SameTypes =>
            /\ a.how = "whole" /\ (id = Own \/ rawFormat) => x.error = "none"
            /\ a.how = "cut" => x.error # "none"
            /\ ~rawFormat => /\ x.error \in {"none", "crc32_mismatch"}
                             /\ x.error = "none" => id = Own /\ x.packet = p
  BY <1>1, <1>2, <1>3, ArrivalRead
<1> HIDE DEF x
<1>5. x.error = "none" /\ ~rawFormat /\ SameTypes => x.packet \in sent
  BY <1>2, <1>4
<1> QED
  BY <1>4, <1>5 DEF x

LEMMA ReadKeeps ==
    ASSUME CodecInv, NEW i \in DOMAIN written, NEW a \in Arrivals(written[i]), NEW o \in 1..HeapMax,
           ReadPacket(i, a, o)
    PROVE  CodecInv'
<1> DEFINE x == Read(a.d)
           own == a.d.id = Own
<1>1. Programs /\ Network /\ Memory /\ LastRead
  BY DEF CodecInv
<1>2. /\ a.how \in {"whole", "altered", "cut"} /\ x.error \in Errors \ {"undefined"}
      /\ x.error = "none" => SoundPacket(x.packet)
      /\ SameTypes =>
            /\ a.how = "whole" /\ (own \/ rawFormat) => x.error = "none"
            /\ a.how = "cut" => x.error # "none"
            /\ ~rawFormat => /\ x.error \in {"none", "crc32_mismatch"}
                             /\ x.error = "none" => x.packet \in sent
  BY ReadOfWritten
<1>3. /\ heap[o] = NoPacket /\ last' = [how |-> a.how, error |-> x.error, own |-> own]
      /\ heap' = (IF x.error = "none" THEN CreatePacket(o, x.packet)
                  ELSE IF CreatedInVain(x) THEN Discard(o, x) ELSE heap)
      /\ held' = (IF x.error = "none" THEN held \cup {o} ELSE held)
      /\ UNCHANGED <<setup, written, sent>>
  BY DEF ReadPacket
<1>4. Programs' /\ SameTypes' = SameTypes /\ rawFormat' = rawFormat /\ sent' = sent
  BY <1>1, <1>3, SameProgram DEF setup
<1>5. Network'
  BY <1>1, <1>3, NetworkKept
<1> HIDE DEF x, own
<1>6. LastRead'
  <2>1. last'.how = a.how /\ last'.error = x.error /\ last'.own = own
    BY <1>3
  <2> QED
    BY <1>2, <1>4, <2>1 DEF LastRead, IntactIsRead
<1>7. heap \in [1..HeapMax -> PacketsRead \cup {NoPacket}] /\ o \notin held
  BY <1>1, <1>3 DEF Memory
<1>8. CASE x.error = "none"
  <2>1. heap' = [heap EXCEPT ![o] = x.packet] /\ held' = held \cup {o}
    BY <1>3, <1>8 DEF CreatePacket
  <2>2. SoundPacket(x.packet) /\ x.packet \in PacketsRead /\ x.packet # NoPacket
    BY <1>2, <1>8, SoundIsPacket
  <2>3. heap' \in [1..HeapMax -> PacketsRead \cup {NoPacket}] /\ heap'[o] = x.packet
        /\ \A j \in 1..HeapMax : j # o => heap'[j] = heap[j]
    BY <1>7, <2>1, <2>2
  <2>4. \A j \in 1..HeapMax : j \in held' <=> heap'[j] # NoPacket
    BY <1>1, <2>1, <2>2, <2>3 DEF Memory
  <2>5. \A j \in held' : SoundPacket(heap'[j])
    BY <1>1, <2>1, <2>2, <2>3 DEF Memory
  <2>6. ~rawFormat /\ SameTypes => \A j \in held' : heap'[j] \in sent
    BY <1>1, <1>2, <1>8, <2>1, <2>3 DEF Memory
  <2>7. held' \subseteq 1..HeapMax
    BY <1>1, <2>1 DEF Memory
  <2>8. Memory'
    BY <1>4, <2>3, <2>4, <2>5, <2>6, <2>7 DEF Memory, SoundPacket
  <2> QED
    BY <1>4, <1>5, <1>6, <2>8 DEF CodecInv
<1>9. CASE x.error # "none"
  <2>1. [[heap EXCEPT ![o] = x.packet] EXCEPT ![o] = NoPacket] = heap
    BY <1>3, <1>7
  <2>2. heap' = heap /\ held' = held
    BY <1>3, <1>9, <2>1 DEF Discard, DestroyPacket, CreatePacket
  <2>3. Memory'
    BY <1>1, <1>4, <2>2 DEF Memory, SoundPacket
  <2> QED
    BY <1>4, <1>5, <1>6, <2>3 DEF CodecInv
<1> QED
  BY <1>8, <1>9

LEMMA ReleaseKeeps ==
    ASSUME CodecInv, NEW o \in 1..HeapMax, Release(o)
    PROVE  CodecInv'
<1>1. Programs /\ Network /\ Memory /\ LastRead
  BY DEF CodecInv
<1>2. /\ o \in held /\ heap' = [heap EXCEPT ![o] = NoPacket] /\ held' = held \ {o}
      /\ UNCHANGED <<setup, written, sent, last>>
  BY DEF Release, DestroyPacket
<1>3. Programs' /\ SameTypes' = SameTypes /\ rawFormat' = rawFormat /\ sent' = sent
  BY <1>1, <1>2, SameProgram DEF setup
<1>4. Network' /\ LastRead'
  BY <1>1, <1>2, NetworkKept, LastKept
<1>5. Memory'
  <2>1. heap \in [1..HeapMax -> PacketsRead \cup {NoPacket}]
    BY <1>1 DEF Memory
  <2>2. heap' \in [1..HeapMax -> PacketsRead \cup {NoPacket}] /\ heap'[o] = NoPacket
        /\ \A j \in 1..HeapMax : j # o => heap'[j] = heap[j]
    BY <1>2, <2>1
  <2> QED
    BY <1>1, <1>2, <1>3, <2>2 DEF Memory, SoundPacket
<1> QED
  BY <1>3, <1>4, <1>5 DEF CodecInv

LEMMA NextCodec == CodecInv /\ [Next]_codecVars => CodecInv'
<1> SUFFICES ASSUME CodecInv, [Next]_codecVars PROVE CodecInv'
  OBVIOUS
<1>1. Programs /\ Network /\ Memory /\ LastRead
  BY DEF CodecInv
<1>2. ASSUME NEW p \in Packets, NEW id \in {Own, Foreign}, WritePacket(p, id) PROVE CodecInv'
  BY <1>2, WriteKeeps
<1>3. ASSUME NEW i \in DOMAIN written, NEW a \in Arrivals(written[i]), NEW o \in 1..HeapMax,
             ReadPacket(i, a, o)
      PROVE  CodecInv'
  BY <1>3, ReadKeeps
<1>4. ASSUME NEW i \in DOMAIN written, ReadTooShort(i) PROVE CodecInv'
  <2>1. /\ last'.how = "cut" /\ last'.error = "undefined" /\ ~rawFormat
        /\ UNCHANGED <<setup, written, sent, heap, held>>
    BY <1>4 DEF ReadTooShort
  <2>2. Programs' /\ Network' /\ SameTypes' = SameTypes /\ rawFormat' = rawFormat
    BY <1>1, <2>1, SameProgram, NetworkKept DEF setup
  <2>3. LastRead'
    BY <2>1, <2>2 DEF LastRead, IntactIsRead, Errors
  <2>4. Memory'
    BY <1>1, <2>1, <2>2 DEF Memory, SoundPacket
  <2> QED
    BY <2>2, <2>3, <2>4 DEF CodecInv
<1>5. ASSUME NEW o \in 1..HeapMax, Release(o) PROVE CodecInv'
  BY <1>5, ReleaseKeeps
<1>6. CASE UNCHANGED codecVars
  <2>1. UNCHANGED <<setup, written, sent, heap, held, last>>
    BY <1>6 DEF codecVars, setup
  <2>2. Programs' /\ Network' /\ LastRead' /\ SameTypes' = SameTypes /\ rawFormat' = rawFormat
    BY <1>1, <2>1, SameProgram, NetworkKept, LastKept DEF setup
  <2>3. Memory'
    BY <1>1, <2>1, <2>2 DEF Memory, SoundPacket
  <2> QED
    BY <2>2, <2>3 DEF CodecInv
<1> QED
  BY <1>2, <1>3, <1>4, <1>5, <1>6 DEF Next

LEMMA CodecInvariant == Spec => []CodecInv
<1>1. Init => CodecInv
  BY InitCodec
<1>2. CodecInv /\ [Next]_codecVars => CodecInv'
  BY NextCodec
<1> QED
  BY <1>1, <1>2, PTL DEF Spec

-----------------------------------------------------------------------------
\* What follows from it.

(* TypeOK always holds: every datagram is whole bytes long, whatever header *)
(* and fields it has, and ends in what WriteAlign adds.                     *)
THEOREM CodecTypeCorrect == Spec => []TypeOK
<1>1. CodecInv => TypeOK
  <2> SUFFICES ASSUME CodecInv PROVE TypeOK
    OBVIOUS
  <2>1. Programs /\ Network /\ Memory /\ LastRead /\ Setup
    BY ProgramsSetup DEF CodecInv
  <2>2. ASSUME NEW i \in DOMAIN written PROVE Len(written[i].bits) % ByteBits = 0
    <3>1. i \in 1..Len(written)
      BY <2>1 DEF Network
    <3>2. PICK p \in Packets, id \in {Own, Foreign} : written[i] = Datagram(p, id) /\ p.type < writerTypes
      BY <2>1, <3>1 DEF Network, Honest
    <3>3. written[i].bits = Written(p)
      BY <3>2 DEF Datagram
    <3> QED
      BY <2>1, <3>2, <3>3, WrittenOK
  <2> QED
    BY <2>1, <2>2 DEF TypeOK, Programs, Network, Memory, LastRead
<1> QED
  BY <1>1, CodecInvariant, PTL

(* A packet is alive exactly while the application has it: whichever way    *)
(* ReadPacket fails, it destroys the packet it has created.                 *)
THEOREM NothingLeaks == Spec => []NoLeak
<1>1. CodecInv => NoLeak
  BY DEF CodecInv, Memory, NoLeak
<1> QED
  BY <1>1, CodecInvariant, PTL

(* Of whatever arrives, and whatever the two programs take for the number   *)
(* of types, no packet comes through with an integer out of its range; and  *)
(* with the same types nothing that was cut comes through.                  *)
THEOREM AlwaysAcceptedSound == Spec => []AcceptedIsSound
<1>1. CodecInv => AcceptedIsSound
  <2> SUFFICES ASSUME CodecInv PROVE AcceptedIsSound
    OBVIOUS
  <2>1. Memory /\ LastRead
    BY DEF CodecInv
  <2>2. ASSUME NEW o \in held, NEW i \in DOMAIN Fields[heap[o].type], Fields[heap[o].type][i].op = "int"
        PROVE  heap[o].values[i][1] \in Fields[heap[o].type][i].min..Fields[heap[o].type][i].max
    <3>1. SoundPacket(heap[o])
      BY <2>1 DEF Memory
    <3>2. heap[o].type \in Registered
      BY <3>1 DEF SoundPacket, PacketsRead
    <3>3. i \in 1..Len(Fields[heap[o].type])
      BY <3>2, FieldsOK
    <3> QED
      BY <2>2, <3>1, <3>3 DEF SoundPacket, Sound
  <2> QED
    BY <2>1, <2>2 DEF AcceptedIsSound, LastRead
<1> QED
  BY <1>1, CodecInvariant, PTL

(* With the same types, a datagram that arrives as it was written is read,  *)
(* unless it has a checksum of another protocol; and with a checksum no     *)
(* reading fails but at the checksum.                                       *)
THEOREM IntactAlwaysRead == Spec => []IntactIsRead
<1>1. CodecInv => IntactIsRead
  BY DEF CodecInv, LastRead
<1> QED
  BY <1>1, CodecInvariant, PTL

(* A program's packet cannot be told from one that was sent: with a checksum *)
(* and the same types, WritePacket is Send, a reading that succeeds is       *)
(* Deliver of the very packet that was written, DestroyPacket of the         *)
(* application's is Release, and everything else is nothing to the promise.  *)
THEOREM TransportImplemented == Spec => DeliversOnlySent
<1> DEFINE box == IF rawFormat \/ ~SameTypes THEN {} ELSE {heap[o] : o \in held}
<1>1. Init => Transport!Init
  BY DEF Init, Transport!Init
<1>2. CodecInv /\ [Next]_codecVars => [Transport!Next]_<<sent, box>>
  <2> SUFFICES ASSUME CodecInv, [Next]_codecVars PROVE [Transport!Next]_<<sent, box>>
    OBVIOUS
  <2>1. Programs /\ Network /\ Memory
    BY DEF CodecInv
  <2>2. ASSUME UNCHANGED setup PROVE rawFormat' = rawFormat /\ SameTypes' = SameTypes
    BY <2>1, <2>2, SameProgram DEF setup
  <2>3. ASSUME UNCHANGED <<setup, sent, heap, held>> PROVE UNCHANGED <<sent, box>>
    BY <2>2, <2>3
  <2>4. ASSUME NEW p \in Packets, NEW id \in {Own, Foreign}, WritePacket(p, id)
        PROVE  [Transport!Next]_<<sent, box>>
    <3>1. UNCHANGED <<setup, heap, held>> /\ sent' = (IF id = Own THEN sent \cup {p} ELSE sent)
      BY <2>4 DEF WritePacket
    <3>2. box' = box
      BY <2>2, <3>1
    <3>3. CASE id = Own
      <4>1. Transport!Send(p)
        BY <3>1, <3>2, <3>3 DEF Transport!Send
      <4> QED
        BY <4>1 DEF Transport!Next
    <3>4. CASE id # Own
      BY <3>1, <3>2, <3>4
    <3> QED
      BY <3>3, <3>4
  <2>5. ASSUME NEW i \in DOMAIN written, NEW a \in Arrivals(written[i]), NEW o \in 1..HeapMax,
               ReadPacket(i, a, o)
        PROVE  [Transport!Next]_<<sent, box>>
    <3> DEFINE x == Read(a.d)
    <3>1. /\ heap[o] = NoPacket /\ UNCHANGED <<setup, sent>>
          /\ heap' = (IF x.error = "none" THEN CreatePacket(o, x.packet)
                      ELSE IF CreatedInVain(x) THEN Discard(o, x) ELSE heap)
          /\ held' = (IF x.error = "none" THEN held \cup {o} ELSE held)
      BY <2>5 DEF ReadPacket
    <3>2. SameTypes /\ ~rawFormat /\ x.error = "none" => x.packet \in sent
      BY ReadOfWritten
    <3>3. rawFormat' = rawFormat /\ SameTypes' = SameTypes
      BY <2>2, <3>1
    <3>4. heap \in [1..HeapMax -> PacketsRead \cup {NoPacket}] /\ o \notin held /\ held \subseteq 1..HeapMax
      BY <2>1, <3>1 DEF Memory
    <3> HIDE DEF x
    <3>5. CASE x.error = "none" /\ SameTypes /\ ~rawFormat
      <4>1. heap' = [heap EXCEPT ![o] = x.packet] /\ held' = held \cup {o}
        BY <3>1, <3>5 DEF CreatePacket
      <4>2. heap'[o] = x.packet /\ \A j \in held : heap'[j] = heap[j]
        BY <3>4, <4>1
      <4>3. {heap'[j] : j \in held'} = {heap[j] : j \in held} \cup {x.packet}
        BY <4>1, <4>2
      <4>4. box' = box \cup {x.packet}
        BY <3>3, <3>5, <4>3
      <4>5. x.packet \in sent /\ x.packet \in Packets
        BY <2>1, <3>2, <3>5 DEF Network
      <4>6. PICK q \in Packets : q = x.packet
        BY <4>5
      <4>7. Transport!Deliver(q)
        BY <3>1, <4>4, <4>5, <4>6 DEF Transport!Deliver
      <4> QED
        BY <4>7 DEF Transport!Next
    <3>6. CASE rawFormat \/ ~SameTypes
      BY <3>1, <3>3, <3>6
    <3>7. CASE x.error # "none"
      <4>1. [[heap EXCEPT ![o] = x.packet] EXCEPT ![o] = NoPacket] = heap
        BY <3>1, <3>4
      <4>2. heap' = heap /\ held' = held
        BY <3>1, <3>7, <4>1 DEF Discard, DestroyPacket, CreatePacket
      <4> QED
        BY <2>3, <3>1, <4>2
    <3> QED
      BY <3>5, <3>6, <3>7
  <2>6. ASSUME NEW i \in DOMAIN written, ReadTooShort(i) PROVE [Transport!Next]_<<sent, box>>
    BY <2>3, <2>6 DEF ReadTooShort
  <2>7. ASSUME NEW o \in 1..HeapMax, Release(o) PROVE [Transport!Next]_<<sent, box>>
    <3>1. /\ o \in held /\ heap' = [heap EXCEPT ![o] = NoPacket] /\ held' = held \ {o}
          /\ UNCHANGED <<setup, sent>>
      BY <2>7 DEF Release, DestroyPacket
    <3>2. rawFormat' = rawFormat /\ SameTypes' = SameTypes
      BY <2>2, <3>1
    <3>3. heap \in [1..HeapMax -> PacketsRead \cup {NoPacket}] /\ held \subseteq 1..HeapMax
      BY <2>1 DEF Memory
    <3>4. CASE rawFormat \/ ~SameTypes
      BY <3>1, <3>2, <3>4
    <3>5. CASE SameTypes /\ ~rawFormat
      <4>1. \A j \in held' : heap'[j] = heap[j]
        BY <3>1, <3>3
      <4>2. heap[o] \in sent /\ heap[o] \in Packets
        BY <2>1, <3>1, <3>5 DEF Memory, Network
      <4>3. {heap'[j] : j \in held'} = {heap[j] : j \in held \ {o}}
        BY <3>1, <4>1
      <4>4. CASE \E j \in held \ {o} : heap[j] = heap[o]
        <5>1. {heap[j] : j \in held \ {o}} = {heap[j] : j \in held}
          BY <3>1, <4>4
        <5> QED
          BY <3>1, <3>2, <3>5, <4>3, <5>1
      <4>5. CASE ~ \E j \in held \ {o} : heap[j] = heap[o]
        <5>1. {heap[j] : j \in held \ {o}} = {heap[j] : j \in held} \ {heap[o]}
          BY <3>1, <4>5
        <5>2. PICK q \in Packets : q = heap[o]
          BY <4>2
        <5>3. Transport!Release(q)
          BY <3>1, <3>2, <3>5, <4>3, <5>1, <5>2 DEF Transport!Release
        <5> QED
          BY <5>3 DEF Transport!Next
      <4> QED
        BY <4>4, <4>5
    <3> QED
      BY <3>4, <3>5
  <2>8. CASE UNCHANGED codecVars
    BY <2>3, <2>8 DEF codecVars, setup
  <2> QED
    BY <2>4, <2>5, <2>6, <2>7, <2>8 DEF Next
<1> QED
  BY <1>1, <1>2, CodecInvariant, PTL DEF Spec, DeliversOnlySent, Transport!Spec
=============================================================================
