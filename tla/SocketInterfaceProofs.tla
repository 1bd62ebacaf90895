------------------------ MODULE SocketInterfaceProofs ------------------------
(* Proofs about SocketInterface, for queues of any size and any number of      *)
(* packets, calls and datagrams.                                               *)
EXTENDS SocketInterface, FiniteSetTheorems, TLAPS

\* Allocated packets that no queue holds and the application cannot reach.
Leaked == live \ (held \cup InQueue(m_sendQueue) \cup InQueue(m_receiveQueue))

LeaksCounted == IsFiniteSet(Leaked) /\ Cardinality(Leaked) = m_counters["WRITE_FAILURES"]

IInv == /\ TypeOK
        /\ OneOwner
        /\ NeverSentOnError
        /\ CountersBalance
        /\ LeaksCounted

-----------------------------------------------------------------------------
\* The two queues: what a pop and a push do to the packets in a queue.

LEMMA Popped ==
  ASSUME NEW q \in Seq(Packet), q # << >>, NoRepeat(q)
  PROVE  /\ Head(q) \in InQueue(q) /\ Head(q) \in Packet
         /\ InQueue(Tail(q)) = InQueue(q) \ {Head(q)}
         /\ NoRepeat(Tail(q))
         /\ Tail(q) \in Seq(Packet) /\ Len(Tail(q)) = Len(q) - 1
  <1>1. Len(q) \in Nat \ {0} /\ Head(q) = q[1] /\ Tail(q) \in Seq(Packet)
        /\ Len(Tail(q)) = Len(q) - 1
    OBVIOUS
  <1>2. DOMAIN q = 1 .. Len(q) /\ DOMAIN Tail(q) = 1 .. (Len(q) - 1)
    BY <1>1
  <1>3. \A i \in 1 .. (Len(q) - 1) : Tail(q)[i] = q[i + 1]
    BY <1>1
  <1>4. NoRepeat(Tail(q))
    BY <1>1, <1>2, <1>3 DEF NoRepeat
  <1>5. \A i \in 2 .. Len(q) : q[i] # Head(q) /\ q[i] = Tail(q)[i - 1]
    BY <1>1, <1>2, <1>3 DEF NoRepeat
  <1>6. InQueue(Tail(q)) \subseteq InQueue(q) \ {Head(q)}
    BY <1>1, <1>2, <1>3, <1>5 DEF InQueue
  <1>7. ASSUME NEW x \in InQueue(q), x # Head(q) PROVE x \in InQueue(Tail(q))
    <2>1. PICK i \in 2 .. Len(q) : x = q[i]
      BY <1>1, <1>2, <1>7 DEF InQueue
    <2>2. i - 1 \in DOMAIN Tail(q)
      BY <1>1, <1>2
    <2> QED
      BY <2>1, <2>2, <1>5 DEF InQueue
  <1>8. 1 \in DOMAIN q /\ q[1] \in Packet
    BY <1>1, <1>2
  <1>9. Head(q) \in InQueue(q)
    BY <1>1, <1>8 DEF InQueue
  <1> QED
    BY <1>1, <1>4, <1>6, <1>7, <1>8, <1>9

LEMMA Pushed ==
  ASSUME NEW q \in Seq(Packet), NEW p \in Packet
  PROVE  /\ InQueue(Append(q, p)) = InQueue(q) \cup {p}
         /\ NoRepeat(q) /\ p \notin InQueue(q) => NoRepeat(Append(q, p))
         /\ Append(q, p) \in Seq(Packet) /\ Len(Append(q, p)) = Len(q) + 1
  <1>1. Append(q, p) \in Seq(Packet) /\ Len(Append(q, p)) = Len(q) + 1 /\ Len(q) \in Nat
    OBVIOUS
  <1>2. DOMAIN q = 1 .. Len(q) /\ DOMAIN Append(q, p) = 1 .. (Len(q) + 1)
    BY <1>1
  <1>3. /\ \A i \in 1 .. Len(q) : Append(q, p)[i] = q[i]
        /\ Append(q, p)[Len(q) + 1] = p
    BY <1>1
  <1>4. \A i \in 1 .. (Len(q) + 1) : i \in 1 .. Len(q) \/ i = Len(q) + 1
    BY <1>1
  <1>5. InQueue(Append(q, p)) \subseteq InQueue(q) \cup {p}
    BY <1>2, <1>3, <1>4 DEF InQueue
  <1>6. InQueue(q) \cup {p} \subseteq InQueue(Append(q, p))
    BY <1>1, <1>2, <1>3 DEF InQueue
  <1>7. NoRepeat(q) /\ p \notin InQueue(q) => NoRepeat(Append(q, p))
    BY <1>1, <1>2, <1>3, <1>4 DEF NoRepeat, InQueue
  <1> QED
    BY <1>1, <1>5, <1>6, <1>7

LEMMA EmptyQueue == InQueue(<< >>) = {} /\ NoRepeat(<< >>)
  BY DEF InQueue, NoRepeat

-----------------------------------------------------------------------------
\* The parts of the invariant, one after the other.

LEMMA InitIInv == Init => IInv
  <1> SUFFICES ASSUME Init PROVE IInv
    OBVIOUS
  <1> USE InterfaceAssumption
  <1>1. TypeOK
    BY DEF Init, TypeOK, Counter
  <1>2. OneOwner
    BY EmptyQueue DEF Init, OneOwner
  <1>3. NeverSentOnError /\ CountersBalance
    BY DEF Init, NeverSentOnError, CountersBalance, Counter
  <1>4. LeaksCounted
    <2>1. Leaked = {} /\ m_counters["WRITE_FAILURES"] = 0
      BY DEF Init, Leaked, Counter
    <2> QED
      BY <2>1, FS_EmptySet DEF LeaksCounted
  <1> QED
    BY <1>1, <1>2, <1>3, <1>4 DEF IInv

LEMMA TypeKept == TypeOK /\ [Next]_ifVars => TypeOK'
  <1> SUFFICES ASSUME TypeOK, [Next]_ifVars PROVE TypeOK'
    OBVIOUS
  <1>a. ASSUME calls \in [send : Nat, arrive : Nat, empty : Nat]
        PROVE /\ [calls EXCEPT !.send = @ + 1] \in [send : Nat, arrive : Nat, empty : Nat]
              /\ [calls EXCEPT !.arrive = @ + 1] \in [send : Nat, arrive : Nat, empty : Nat]
              /\ [calls EXCEPT !.empty = @ + 1] \in [send : Nat, arrive : Nat, empty : Nat]
    BY <1>a
  <1>c. ASSUME NEW c \in Counter, Count(c) PROVE m_counters' \in [Counter -> Nat]
    BY <1>c DEF Count, TypeOK
  <1> USE InterfaceAssumption DEF TypeOK
  <1>1. CASE UNCHANGED ifVars
    BY <1>1 DEF ifVars
  <1>2. ASSUME NEW p \in Packet, CreatePacket(p) \/ DestroyPacket(p) PROVE TypeOK'
    BY <1>2 DEF CreatePacket, DestroyPacket
  <1>3. ASSUME NEW p \in Packet, SendPacket(p) PROVE TypeOK'
    <2>1. calls' \in [send : Nat, arrive : Nat, empty : Nat]
      BY <1>a, <1>3 DEF SendPacket
    <2>2. Enqueue(p)
      BY <1>3 DEF SendPacket
    <2>3. /\ m_counters' \in [Counter -> Nat] /\ live' \subseteq Packet
          /\ m_sendQueue' \in Seq(Packet) /\ Len(m_sendQueue') <= SendQueueSize
      <3>1. CASE UNCHANGED <<m_sendQueue, m_counters>> /\ live' = live \ {p}
        BY <3>1
      <3>2. CASE UNCHANGED m_sendQueue /\ live' = live \ {p} /\ Count("SEND_QUEUE_OVERFLOW")
        BY <1>c, <3>2 DEF Counter
      <3>3. CASE /\ m_sendQueue' = Append(m_sendQueue, p) /\ UNCHANGED live /\ Count("SENT")
                 /\ ~(Len(m_sendQueue) >= SendQueueSize)
        <4>1. m_counters' \in [Counter -> Nat]
          BY <1>c, <3>3 DEF Counter
        <4> QED
          BY <4>1, <3>3, Pushed
      <3> QED
        BY <2>2, <3>1, <3>2, <3>3 DEF Enqueue
    <2>4. UNCHANGED <<socket, pc, m_receiveQueue, inbox>> /\ held' \subseteq Packet
      BY <1>3 DEF SendPacket
    <2> QED
      BY <2>1, <2>2, <2>3, <2>4
  <1>4. ASSUME NEW p \in Packet, ReadOne(p) PROVE TypeOK'
    <2>1. m_counters' \in [Counter -> Nat]
      BY <1>c, <1>4 DEF Counter, ReadOne
    <2> QED
      BY <1>4, <2>1 DEF ReadOne, Full
  <1>5. CASE ReceivePacket
    <2>1. m_counters' \in [Counter -> Nat]
      BY <1>c, <1>5 DEF Counter, ReceivePacket
    <2> QED
      BY <1>5, <2>1 DEF ReceivePacket
  <1>6. CASE WritePackets \/ WriteDone \/ ReadPackets \/ ReadDone
    BY <1>6 DEF WritePackets, WriteDone, ReadPackets, ReadDone
  <1>7. CASE WriteOne
    <2>1. m_counters' \in [Counter -> Nat]
      BY <1>c, <1>7 DEF Counter, WriteOne
    <2> QED
      BY <1>7, <2>1 DEF WriteOne
  <1>8. CASE WriteFails
    <2>1. m_counters' \in [Counter -> Nat]
      BY <1>c, <1>8 DEF Counter, WriteFails
    <2> QED
      BY <1>8, <2>1 DEF WriteFails
  <1>9. CASE Arrive
    <2>1. calls' \in [send : Nat, arrive : Nat, empty : Nat]
      BY <1>a, <1>9, Zenon DEF Arrive
    <2>2. UNCHANGED <<socket, pc, m_sendQueue, m_receiveQueue, live, held, m_counters>>
          /\ inbox' = inbox + 1
      BY <1>9 DEF Arrive
    <2> QED
      BY <2>1, <2>2
  <1>10. CASE ReadOverflows \/ ReadFails
    <2>1. m_counters' \in [Counter -> Nat]
      BY <1>10, <1>c DEF Counter, ReadOverflows, ReadFails
    <2>2. inbox' \in Nat /\ pc' \in {"idle", pc}
      BY <1>10 DEF ReadOverflows, ReadFails
    <2>3. UNCHANGED <<socket, m_sendQueue, m_receiveQueue, live, held, calls>>
      BY <1>10 DEF ReadOverflows, ReadFails
    <2> QED
      BY <2>1, <2>2, <2>3
  <1>11. CASE Destructor
    BY <1>11 DEF Destructor
  <1>12. CASE ReadEmpty
    <2>1. calls' \in [send : Nat, arrive : Nat, empty : Nat]
      BY <1>a, <1>12, Zenon DEF ReadEmpty
    <2>2. UNCHANGED <<socket, m_sendQueue, m_receiveQueue, live, held, m_counters>>
          /\ inbox > 0 /\ inbox' = inbox - 1 /\ pc' = "idle"
      BY <1>12 DEF ReadEmpty
    <2> QED
      BY <2>1, <2>2
  <1> QED
    BY <1>1, <1>2, <1>3, <1>4, <1>5, <1>6, <1>7, <1>8, <1>9, <1>10, <1>11, <1>12 DEF Next

LEMMA OwnerKept == TypeOK /\ OneOwner /\ [Next]_ifVars => OneOwner'
  <1> SUFFICES ASSUME TypeOK, OneOwner, [Next]_ifVars PROVE OneOwner'
    OBVIOUS
  <1>1. m_sendQueue \in Seq(Packet) /\ m_receiveQueue \in Seq(Packet)
    BY DEF TypeOK
  <1>2. CASE UNCHANGED ifVars
    BY <1>2 DEF ifVars, OneOwner, InQueue, NoRepeat
  <1>3. ASSUME NEW p \in Packet, CreatePacket(p) \/ DestroyPacket(p) PROVE OneOwner'
    BY <1>3 DEF CreatePacket, DestroyPacket, OneOwner
  <1>4. ASSUME NEW p \in Packet, SendPacket(p) PROVE OneOwner'
    <2>1. CASE UNCHANGED m_sendQueue /\ live' = live \ {p}
      BY <1>4, <2>1 DEF SendPacket, OneOwner
    <2>2. CASE m_sendQueue' = Append(m_sendQueue, p) /\ UNCHANGED live
      BY <1>1, <1>4, <2>2, Pushed DEF SendPacket, OneOwner
    <2> QED
      BY <1>4, <2>1, <2>2 DEF SendPacket, Enqueue
  <1>5. ASSUME NEW p \in Packet, ReadOne(p) PROVE OneOwner'
    BY <1>1, <1>5, Pushed DEF ReadOne, OneOwner
  <1>6. CASE ReceivePacket
    BY <1>1, <1>6, Popped DEF ReceivePacket, OneOwner
  <1>7. CASE WriteOne \/ WriteFails
    BY <1>1, <1>7, Popped DEF WriteOne, WriteFails, OneOwner
  <1>8. CASE Destructor
    BY <1>8, EmptyQueue DEF Destructor, OneOwner
  <1>9. CASE WritePackets \/ WriteDone \/ Arrive \/ ReadPackets \/ ReadOverflows \/ ReadFails
             \/ ReadEmpty \/ ReadDone
    BY <1>9 DEF WritePackets, WriteDone, Arrive, ReadPackets, ReadOverflows, ReadFails,
                ReadEmpty, ReadDone, OneOwner
  <1> QED
    BY <1>2, <1>3, <1>4, <1>5, <1>6, <1>7, <1>8, <1>9 DEF Next

LEMMA ErrorKept == TypeOK /\ NeverSentOnError /\ [Next]_ifVars => NeverSentOnError'
  <1> SUFFICES ASSUME TypeOK, NeverSentOnError, [Next]_ifVars PROVE NeverSentOnError'
    OBVIOUS
  <1> USE DEF TypeOK, NeverSentOnError, Count, Counter
  <1>1. CASE UNCHANGED ifVars
    BY <1>1 DEF ifVars
  <1>2. ASSUME NEW p \in Packet, CreatePacket(p) \/ DestroyPacket(p) \/ SendPacket(p) \/ ReadOne(p)
        PROVE NeverSentOnError'
    BY <1>2 DEF CreatePacket, DestroyPacket, SendPacket, Enqueue, ReadOne
  <1>3. CASE ReceivePacket \/ Destructor
    BY <1>3 DEF ReceivePacket, Destructor
  <1>4. CASE WritePackets \/ WriteOne \/ WriteFails \/ WriteDone
    BY <1>4 DEF WritePackets, WriteOne, WriteFails, WriteDone
  <1>5. CASE Arrive \/ ReadPackets \/ ReadOverflows \/ ReadFails \/ ReadEmpty \/ ReadDone
    BY <1>5 DEF Arrive, ReadPackets, ReadOverflows, ReadFails, ReadEmpty, ReadDone
  <1> QED
    BY <1>1, <1>2, <1>3, <1>4, <1>5 DEF Next

\* By how much a step raises the counters of the one side and of the other.
SendSide(s, w, f) ==
    /\ m_counters'["SENT"] = m_counters["SENT"] + s
    /\ m_counters'["WRITTEN"] = m_counters["WRITTEN"] + w
    /\ m_counters'["WRITE_FAILURES"] = m_counters["WRITE_FAILURES"] + f

ReadSide(r, v, f, o) ==
    /\ m_counters'["READ"] = m_counters["READ"] + r
    /\ m_counters'["RECEIVED"] = m_counters["RECEIVED"] + v
    /\ m_counters'["READ_FAILURES"] = m_counters["READ_FAILURES"] + f
    /\ m_counters'["RECEIVE_QUEUE_OVERFLOW"] = m_counters["RECEIVE_QUEUE_OVERFLOW"] + o

Counted == /\ m_counters["SENT"] \in Nat /\ m_counters["WRITTEN"] \in Nat
           /\ m_counters["WRITE_FAILURES"] \in Nat
           /\ m_counters["READ"] \in Nat /\ m_counters["RECEIVED"] \in Nat
           /\ m_counters["READ_FAILURES"] \in Nat
           /\ m_counters["RECEIVE_QUEUE_OVERFLOW"] \in Nat

LEMMA CountRaises ==
  ASSUME TypeOK
  PROVE  /\ Counted
         /\ Count("SENT") => SendSide(1, 0, 0) /\ ReadSide(0, 0, 0, 0)
         /\ Count("WRITTEN") => SendSide(0, 1, 0) /\ ReadSide(0, 0, 0, 0)
         /\ Count("WRITE_FAILURES") => SendSide(0, 0, 1) /\ ReadSide(0, 0, 0, 0)
         /\ Count("SEND_QUEUE_OVERFLOW") => SendSide(0, 0, 0) /\ ReadSide(0, 0, 0, 0)
         /\ Count("READ") => SendSide(0, 0, 0) /\ ReadSide(1, 0, 0, 0)
         /\ Count("RECEIVED") => SendSide(0, 0, 0) /\ ReadSide(0, 1, 0, 0)
         /\ Count("READ_FAILURES") => SendSide(0, 0, 0) /\ ReadSide(0, 0, 1, 0)
         /\ Count("RECEIVE_QUEUE_OVERFLOW") => SendSide(0, 0, 0) /\ ReadSide(0, 0, 0, 1)
  <1>1. m_counters \in [Counter -> Nat]
    BY DEF TypeOK
  <1>2. Counted
    BY <1>1 DEF Counted, Counter
  <1> USE <1>1, <1>2 DEF Count, Counter, Counted
  <1>3. ASSUME NEW c \in {"SENT", "WRITTEN", "WRITE_FAILURES", "SEND_QUEUE_OVERFLOW"}, Count(c)
        PROVE ReadSide(0, 0, 0, 0)
    BY <1>3 DEF ReadSide
  <1>4. ASSUME NEW c \in {"READ", "RECEIVED", "READ_FAILURES", "RECEIVE_QUEUE_OVERFLOW",
                          "SEND_QUEUE_OVERFLOW"}, Count(c)
        PROVE SendSide(0, 0, 0)
    BY <1>4 DEF SendSide
  <1>5. Count("SENT") => SendSide(1, 0, 0)
    BY DEF SendSide
  <1>6. Count("WRITTEN") => SendSide(0, 1, 0)
    BY DEF SendSide
  <1>7. Count("WRITE_FAILURES") => SendSide(0, 0, 1)
    BY DEF SendSide
  <1>8. Count("READ") => ReadSide(1, 0, 0, 0)
    BY DEF ReadSide
  <1>9. Count("RECEIVED") => ReadSide(0, 1, 0, 0)
    BY DEF ReadSide
  <1>10. Count("READ_FAILURES") => ReadSide(0, 0, 1, 0)
    BY DEF ReadSide
  <1>11. Count("RECEIVE_QUEUE_OVERFLOW") => ReadSide(0, 0, 0, 1)
    BY DEF ReadSide
  <1> HIDE DEF Count, Counter, Counted
  <1> QED
    BY <1>2, <1>3, <1>4, <1>5, <1>6, <1>7, <1>8, <1>9, <1>10, <1>11

LEMMA BalanceKept == TypeOK /\ OneOwner /\ CountersBalance /\ [Next]_ifVars => CountersBalance'
  <1> SUFFICES ASSUME TypeOK, OneOwner, CountersBalance, [Next]_ifVars PROVE CountersBalance'
    OBVIOUS
  <1>n. inbox \in Nat /\ calls.arrive \in Nat /\ calls.empty \in Nat /\ Counted
    BY CountRaises DEF TypeOK
  <1>0. /\ m_sendQueue \in Seq(Packet) /\ m_receiveQueue \in Seq(Packet)
        /\ NoRepeat(m_sendQueue) /\ NoRepeat(m_receiveQueue)
    BY DEF TypeOK, OneOwner
  <1>1. Len(m_sendQueue) \in Nat /\ Len(m_receiveQueue) \in Nat
    BY <1>0
  <1> DEFINE s == Len(m_sendQueue)
             r == Len(m_receiveQueue)
  \* How the counters and the lengths may move together.
  <1>2. ASSUME pc # "gone", calls'.arrive = calls.arrive, calls'.empty = calls.empty,
               \/ SendSide(1, 0, 0) /\ s' = s + 1
               \/ SendSide(0, 1, 0) /\ s' = s - 1
               \/ SendSide(0, 0, 1) /\ s' = s - 1
               \/ SendSide(0, 0, 0) /\ s' = s,
               \/ ReadSide(1, 0, 0, 0) /\ r' = r + 1 /\ inbox' = inbox - 1
               \/ ReadSide(0, 1, 0, 0) /\ r' = r - 1 /\ inbox' = inbox
               \/ ReadSide(0, 0, 1, 0) /\ r' = r /\ inbox' = inbox - 1
               \/ ReadSide(0, 0, 0, 1) /\ r' = r /\ inbox' = inbox - 1
               \/ ReadSide(0, 0, 0, 0) /\ r' = r /\ inbox' = inbox
        PROVE CountersBalance'
    <2>1. /\ m_counters["SENT"] = m_counters["WRITTEN"] + m_counters["WRITE_FAILURES"] + s
          /\ m_counters["READ"] = m_counters["RECEIVED"] + r
          /\ calls.arrive = inbox + m_counters["READ"] + m_counters["READ_FAILURES"]
                                 + m_counters["RECEIVE_QUEUE_OVERFLOW"] + calls.empty
      BY <1>2 DEF CountersBalance
    <2>2. s \in Nat /\ r \in Nat
      BY <1>1
    <2> HIDE DEF s, r
    <2>3. m_counters'["SENT"] = m_counters'["WRITTEN"] + m_counters'["WRITE_FAILURES"] + s'
      <3>1. \/ SendSide(1, 0, 0) /\ s' = s + 1
            \/ SendSide(0, 1, 0) /\ s' = s - 1
            \/ SendSide(0, 0, 1) /\ s' = s - 1
            \/ SendSide(0, 0, 0) /\ s' = s
        BY <1>2
      <3>2. m_counters["SENT"] = m_counters["WRITTEN"] + m_counters["WRITE_FAILURES"] + s
        BY <2>1
      <3>3. /\ m_counters["SENT"] \in Nat /\ m_counters["WRITTEN"] \in Nat
            /\ m_counters["WRITE_FAILURES"] \in Nat
        BY <1>n DEF Counted
      <3> QED
        BY <2>2, <3>1, <3>2, <3>3 DEF SendSide
    <2>4. m_counters'["READ"] = m_counters'["RECEIVED"] + r'
      BY <1>n, <1>2, <2>1, <2>2 DEF Counted, ReadSide
    <2>5. calls'.arrive = inbox' + m_counters'["READ"] + m_counters'["READ_FAILURES"]
                                 + m_counters'["RECEIVE_QUEUE_OVERFLOW"] + calls'.empty
      <3>1. PICK dr \in {0, 1}, df \in {0, 1}, do \in {0, 1} :
              /\ m_counters'["READ"] = m_counters["READ"] + dr
              /\ m_counters'["READ_FAILURES"] = m_counters["READ_FAILURES"] + df
              /\ m_counters'["RECEIVE_QUEUE_OVERFLOW"] = m_counters["RECEIVE_QUEUE_OVERFLOW"] + do
              /\ inbox' = inbox - (dr + df + do)
        <4>1. ASSUME NEW dr \in {0, 1}, NEW dv \in {0, 1}, NEW df \in {0, 1}, NEW do \in {0, 1},
                     ReadSide(dr, dv, df, do), inbox' = inbox - (dr + df + do)
              PROVE \E d1 \in {0, 1}, d2 \in {0, 1}, d3 \in {0, 1} :
                      /\ m_counters'["READ"] = m_counters["READ"] + d1
                      /\ m_counters'["READ_FAILURES"] = m_counters["READ_FAILURES"] + d2
                      /\ m_counters'["RECEIVE_QUEUE_OVERFLOW"] =
                            m_counters["RECEIVE_QUEUE_OVERFLOW"] + d3
                      /\ inbox' = inbox - (d1 + d2 + d3)
          BY <4>1 DEF ReadSide
        <4> QED
          BY <1>n, <1>2, <4>1
      <3>2. calls'.arrive = calls.arrive /\ calls'.empty = calls.empty
        BY <1>2
      <3> QED
        BY <1>n, <2>1, <3>1, <3>2 DEF Counted
    <2> QED
      BY <2>3, <2>4, <2>5 DEF CountersBalance, s, r
  <1> HIDE DEF s, r
  <1>3. CASE UNCHANGED ifVars
    BY <1>3 DEF ifVars, CountersBalance
  <1>4. ASSUME NEW p \in Packet, CreatePacket(p) \/ DestroyPacket(p) PROVE CountersBalance'
    BY <1>4 DEF CreatePacket, DestroyPacket, CountersBalance
  <1>5. ASSUME NEW p \in Packet, SendPacket(p) PROVE CountersBalance'
    <2>1. /\ UNCHANGED <<pc, m_receiveQueue, inbox>> /\ calls'.arrive = calls.arrive
          /\ calls'.empty = calls.empty /\ pc # "gone" /\ r' = r
      BY <1>5 DEF SendPacket, TypeOK, r
    <2>2. CASE UNCHANGED <<m_sendQueue, m_counters>>
      BY <2>1, <2>2 DEF CountersBalance
    <2>3. CASE UNCHANGED m_sendQueue /\ Count("SEND_QUEUE_OVERFLOW")
      BY <1>2, <2>1, <2>3, CountRaises DEF s
    <2>4. CASE m_sendQueue' = Append(m_sendQueue, p) /\ Count("SENT")
      <3>1. s' = s + 1
        BY <1>0, <2>4, Pushed DEF s
      <3> QED
        BY <1>2, <2>1, <2>4, <3>1, CountRaises
    <2> QED
      BY <1>5, <2>2, <2>3, <2>4 DEF SendPacket, Enqueue
  <1>6. ASSUME NEW p \in Packet, ReadOne(p) PROVE CountersBalance'
    <2>1. r' = r + 1 /\ s' = s
      BY <1>0, <1>6, Pushed DEF ReadOne, r, s
    <2> QED
      BY <1>2, <1>6, <2>1, CountRaises DEF ReadOne
  <1>7. CASE ReceivePacket
    <2>1. r' = r - 1 /\ s' = s
      BY <1>0, <1>7, Popped DEF ReceivePacket, r, s
    <2> QED
      BY <1>2, <1>7, <2>1, CountRaises DEF ReceivePacket
  <1>8. CASE WriteOne \/ WriteFails
    <2>1. r' = r /\ s' = s - 1
      BY <1>0, <1>8, Popped DEF WriteOne, WriteFails, r, s
    <2> QED
      BY <1>2, <1>8, <2>1, CountRaises DEF WriteOne, WriteFails
  <1>9. CASE ReadOverflows \/ ReadFails
    <2>1. r' = r /\ s' = s
      BY <1>9 DEF ReadOverflows, ReadFails, r, s
    <2> QED
      BY <1>2, <1>9, <2>1, CountRaises DEF ReadOverflows, ReadFails
  <1>10. CASE Arrive
    <2>1. calls'.arrive = calls.arrive + 1 /\ calls'.empty = calls.empty
      BY <1>10 DEF Arrive, TypeOK
    <2>2. UNCHANGED <<pc, m_sendQueue, m_receiveQueue, m_counters>> /\ inbox' = inbox + 1
      BY <1>10 DEF Arrive
    <2>3. ASSUME pc # "gone"
          PROVE calls'.arrive = inbox' + m_counters["READ"] + m_counters["READ_FAILURES"]
                                       + m_counters["RECEIVE_QUEUE_OVERFLOW"] + calls'.empty
      <3>1. calls.arrive = inbox + m_counters["READ"] + m_counters["READ_FAILURES"]
                                 + m_counters["RECEIVE_QUEUE_OVERFLOW"] + calls.empty
        BY <2>3 DEF CountersBalance
      <3> QED
        BY <1>n, <2>1, <2>2, <3>1 DEF Counted
    <2> QED
      BY <2>2, <2>3 DEF CountersBalance
  <1>11. CASE WritePackets \/ WriteDone \/ ReadPackets \/ ReadDone
    BY <1>11 DEF WritePackets, WriteDone, ReadPackets, ReadDone, CountersBalance
  <1>12. CASE Destructor
    BY <1>12 DEF Destructor, CountersBalance
  <1>13. CASE ReadEmpty
    <2>1. /\ calls'.arrive = calls.arrive /\ calls'.empty = calls.empty + 1
          /\ inbox' = inbox - 1 /\ pc = "reading"
          /\ UNCHANGED <<m_sendQueue, m_receiveQueue, m_counters>>
      BY <1>13 DEF ReadEmpty, TypeOK
    <2>2. calls'.arrive = inbox' + m_counters["READ"] + m_counters["READ_FAILURES"]
                                 + m_counters["RECEIVE_QUEUE_OVERFLOW"] + calls'.empty
      <3>1. calls.arrive = inbox + m_counters["READ"] + m_counters["READ_FAILURES"]
                                 + m_counters["RECEIVE_QUEUE_OVERFLOW"] + calls.empty
        BY <2>1 DEF CountersBalance
      <3> QED
        BY <1>n, <2>1, <3>1 DEF Counted
    <2> QED
      BY <2>1, <2>2 DEF CountersBalance
  <1> QED
    BY <1>3, <1>4, <1>5, <1>6, <1>7, <1>8, <1>9, <1>10, <1>11, <1>12, <1>13 DEF Next

\* WriteFails leaks the packet it pops; every other step leaks nothing.
LEMMA LeaksKept == TypeOK /\ OneOwner /\ LeaksCounted /\ [Next]_ifVars => LeaksCounted'
  <1> SUFFICES ASSUME TypeOK, OneOwner, LeaksCounted, [Next]_ifVars PROVE LeaksCounted'
    OBVIOUS
  <1>0. /\ m_sendQueue \in Seq(Packet) /\ m_receiveQueue \in Seq(Packet)
        /\ NoRepeat(m_sendQueue) /\ NoRepeat(m_receiveQueue)
    BY DEF TypeOK, OneOwner
  <1>c. ASSUME NEW c \in Counter \ {"WRITE_FAILURES"}, Count(c)
        PROVE m_counters'["WRITE_FAILURES"] = m_counters["WRITE_FAILURES"]
    BY <1>c DEF Count, TypeOK, Counter
  <1>u. ASSUME Leaked' = Leaked, m_counters'["WRITE_FAILURES"] = m_counters["WRITE_FAILURES"]
        PROVE LeaksCounted'
    BY <1>u DEF LeaksCounted
  <1>1. CASE UNCHANGED ifVars
    BY <1>1 DEF ifVars, LeaksCounted, Leaked, InQueue
  <1>2. ASSUME NEW p \in Packet, CreatePacket(p) \/ DestroyPacket(p) PROVE LeaksCounted'
    <2>1. Leaked' = Leaked
      BY <1>2 DEF CreatePacket, DestroyPacket, Leaked, OneOwner
    <2> QED
      BY <1>2, <1>u, <2>1 DEF CreatePacket, DestroyPacket
  <1>3. ASSUME NEW p \in Packet, SendPacket(p) PROVE LeaksCounted'
    <2>1. UNCHANGED m_receiveQueue /\ held' = held \ {p} /\ p \in held
      BY <1>3 DEF SendPacket
    <2>2. Leaked' = Leaked
      <3>1. CASE UNCHANGED m_sendQueue /\ live' = live \ {p}
        BY <2>1, <3>1 DEF Leaked
      <3>2. CASE m_sendQueue' = Append(m_sendQueue, p) /\ UNCHANGED live
        BY <1>0, <2>1, <3>2, Pushed DEF Leaked
      <3> QED
        BY <1>3, <3>1, <3>2 DEF SendPacket, Enqueue
    <2>3. m_counters'["WRITE_FAILURES"] = m_counters["WRITE_FAILURES"]
      BY <1>3, <1>c DEF SendPacket, Enqueue, Counter
    <2> QED
      BY <1>u, <2>2, <2>3
  <1>4. ASSUME NEW p \in Packet, ReadOne(p) PROVE LeaksCounted'
    <2>1. Leaked' = Leaked
      BY <1>0, <1>4, Pushed DEF ReadOne, Leaked, OneOwner
    <2> QED
      BY <1>4, <1>c, <1>u, <2>1 DEF ReadOne, Counter
  <1>5. CASE ReceivePacket
    <2>1. Leaked' = Leaked
      BY <1>0, <1>5, Popped DEF ReceivePacket, Leaked
    <2> QED
      BY <1>5, <1>c, <1>u, <2>1 DEF ReceivePacket, Counter
  <1>6. CASE WriteOne
    <2>1. Leaked' = Leaked
      BY <1>0, <1>6, Popped DEF WriteOne, Leaked
    <2> QED
      BY <1>6, <1>c, <1>u, <2>1 DEF WriteOne, Counter
  <1>7. CASE WriteFails
    <2> DEFINE p == Head(m_sendQueue)
    <2>1. Leaked' = Leaked \cup {p} /\ p \notin Leaked
      BY <1>0, <1>7, Popped DEF WriteFails, Leaked, OneOwner
    <2>2. m_counters'["WRITE_FAILURES"] = m_counters["WRITE_FAILURES"] + 1
      BY <1>7 DEF WriteFails, Count, TypeOK, Counter
    <2> HIDE DEF p
    <2>3. IsFiniteSet(Leaked') /\ Cardinality(Leaked') = Cardinality(Leaked) + 1
      BY <2>1, FS_AddElement DEF LeaksCounted
    <2> QED
      BY <2>2, <2>3 DEF LeaksCounted
  <1>8. CASE ReadOverflows \/ ReadFails
    <2>1. Leaked' = Leaked
      BY <1>8 DEF ReadOverflows, ReadFails, Leaked
    <2> QED
      BY <1>8, <1>c, <1>u, <2>1 DEF ReadOverflows, ReadFails, Counter
  <1>9. CASE Arrive \/ WritePackets \/ WriteDone \/ ReadPackets \/ ReadEmpty \/ ReadDone
    BY <1>9, <1>u DEF Arrive, WritePackets, WriteDone, ReadPackets, ReadEmpty, ReadDone, Leaked
  <1>10. CASE Destructor
    <2>1. Leaked' = Leaked
      BY <1>10, EmptyQueue DEF Destructor, Leaked
    <2> QED
      BY <1>10, <1>u, <2>1 DEF Destructor
  <1> QED
    BY <1>1, <1>2, <1>3, <1>4, <1>5, <1>6, <1>7, <1>8, <1>9, <1>10 DEF Next

-----------------------------------------------------------------------------
\* The theorems.

\* The invariant is inductive.
THEOREM Invariant == Spec => []IInv
  <1>1. IInv /\ [Next]_ifVars => IInv'
    BY TypeKept, OwnerKept, ErrorKept, BalanceKept, LeaksKept DEF IInv
  <1> QED
    BY <1>1, InitIInv, PTL DEF Spec

\* The variables keep their types, and neither queue grows past its size.
THEOREM TypeCorrect == Spec => []TypeOK
  BY Invariant, PTL DEF IInv

(* A packet in a queue or with the application is allocated and has that one  *)
(* owner: SendPacket, WritePackets, ReadPackets, ReceivePacket, the factory    *)
(* and the destructor never use a packet after it was destroyed.               *)
THEOREM PacketsHaveOneOwner == Spec => []OneOwner
  BY Invariant, PTL DEF IInv

(* WritePackets leaks the packets whose SerializeWrite fails, and these only:  *)
(* as many are lost as WRITE_FAILURES counts.                                  *)
THEOREM OnlyWriteFailuresLeak == Spec => []LeaksAreWriteFailures
  <1>1. IInv => LeaksAreWriteFailures
    <2>1. Leaked = live \ (held \cup InQueue(m_sendQueue) \cup InQueue(m_receiveQueue))
      BY DEF Leaked
    <2> QED
      BY <2>1, Zenon DEF IInv, LeaksCounted, LeaksAreWriteFailures
  <1> QED
    BY <1>1, Invariant, PTL

(* The counters of SocketInterface account for every packet sent and for every *)
(* datagram taken that holds a byte, through overflows and failures; what is   *)
(* missing from them is the number of the empty datagrams.                     *)
THEOREM CountersAddUp == Spec => []CountersBalance
  BY Invariant, PTL DEF IInv

(* SendPacket drops what is sent on a socket in error, so WritePackets, which  *)
(* does not look at the error, never meets Socket::SendPacket's assertion.     *)
THEOREM NothingSentOnError == Spec => []NeverSentOnError
  BY Invariant, PTL DEF IInv
=============================================================================
