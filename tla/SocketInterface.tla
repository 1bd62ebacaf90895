--------------------------- MODULE SocketInterface --------------------------
(* svr/library/networking/SocketInterface.{h,cpp} over Socket.cpp: packets   *)
(* are handed to a send queue, which WritePackets drains into the socket,    *)
(* and ReadPackets fills a receive queue from the socket, from which the     *)
(* application takes them.                                                   *)
(*                                                                           *)
(* A Packet is an address in the heap: live are the allocated ones, held     *)
(* those the application has a pointer to.  Whoever gives a pointer away     *)
(* (SendPacket, DestroyPacket) no longer uses it.  One thread calls the      *)
(* interface; the loops of WritePackets and ReadPackets take one step per    *)
(* packet, because datagrams arrive meanwhile.                               *)
EXTENDS Naturals, Sequences, FiniteSets

CONSTANTS Packet,           \* the addresses a packet may have
          SendQueueSize,
          ReceiveQueueSize,
          Opened,           \* what the constructor of Socket may leave, see Socket
          WriteMayFail,     \* whether SerializeWrite of a packet may return false
          SendMax,          \* bound on the calls of SendPacket
          ArriveMax         \* bound on the datagrams that arrive

(* The outcomes of Socket::Socket: whether IsError(), whether datagrams can  *)
(* arrive, and whether recvfrom() waits for them.                            *)
Socket ==
    [ok          |-> [error |-> FALSE, bound |-> TRUE,  blocking |-> FALSE],
     create      |-> [error |-> TRUE,  bound |-> FALSE, blocking |-> FALSE],
     sockopt     |-> [error |-> TRUE,  bound |-> FALSE, blocking |-> TRUE],
     bindIPv4    |-> [error |-> TRUE,  bound |-> FALSE, blocking |-> TRUE],
     \* the error code lands in m_socket: IsError() is false, the handle foreign
     bindIPv6    |-> [error |-> FALSE, bound |-> FALSE, blocking |-> FALSE],
     nonBlocking |-> [error |-> TRUE,  bound |-> TRUE,  blocking |-> TRUE]]

ASSUME InterfaceAssumption ==
    /\ SendQueueSize \in Nat \ {0} /\ ReceiveQueueSize \in Nat \ {0}
    /\ Opened \subseteq DOMAIN Socket
    /\ WriteMayFail \in BOOLEAN
    /\ SendMax \in Nat /\ ArriveMax \in Nat

VARIABLES socket,        \* the Socket, after its constructor
          pc,            \* where the thread is: "idle" between calls, "gone" after the destructor
          m_sendQueue, m_receiveQueue,
          live, held,
          inbox,         \* datagrams in the socket's buffer
          m_counters,
          calls          \* history: calls of SendPacket and datagrams arrived, which the
                         \* bounds limit, and datagrams taken that held nothing

ifVars == <<socket, pc, m_sendQueue, m_receiveQueue, live, held, inbox, m_counters, calls>>

Counter == {"SENT", "RECEIVED", "READ", "WRITTEN", "SEND_QUEUE_OVERFLOW",
            "RECEIVE_QUEUE_OVERFLOW", "READ_FAILURES", "WRITE_FAILURES"}

TypeOK == /\ socket \in {Socket[o] : o \in Opened}
          /\ pc \in {"idle", "writing", "reading", "gone"}
          /\ m_sendQueue \in Seq(Packet) /\ Len(m_sendQueue) <= SendQueueSize
          /\ m_receiveQueue \in Seq(Packet) /\ Len(m_receiveQueue) <= ReceiveQueueSize
          /\ live \subseteq Packet /\ held \subseteq Packet
          /\ inbox \in Nat
          /\ m_counters \in [Counter -> Nat]
          /\ calls \in [send : Nat, arrive : Nat, empty : Nat]

Init == /\ socket \in {Socket[o] : o \in Opened}
        /\ pc = "idle"
        /\ m_sendQueue = << >> /\ m_receiveQueue = << >>
        /\ live = {} /\ held = {}
        /\ inbox = 0
        /\ m_counters = [c \in Counter |-> 0]
        /\ calls = [send |-> 0, arrive |-> 0, empty |-> 0]

Count(c) == m_counters' = [m_counters EXCEPT ![c] = @ + 1]

InQueue(q) == {q[i] : i \in DOMAIN q}

-----------------------------------------------------------------------------
\* Faults: plausible mistakes in the operations below.

DestroyedOnOverflowOnly(p) ==    \* SendPacket does not look at IsError()
    IF Len(m_sendQueue) >= SendQueueSize
    THEN /\ Count("SEND_QUEUE_OVERFLOW")
         /\ live' = live \ {p}
         /\ UNCHANGED m_sendQueue
    ELSE /\ m_sendQueue' = Append(m_sendQueue, p)
         /\ Count("SENT")
         /\ UNCHANGED live
OverflowNotDestroyed(p) ==       \* return without DestroyPacket
    IF socket.error
    THEN live' = live \ {p} /\ UNCHANGED <<m_sendQueue, m_counters>>
    ELSE IF Len(m_sendQueue) >= SendQueueSize
    THEN /\ Count("SEND_QUEUE_OVERFLOW")
         /\ UNCHANGED <<m_sendQueue, live>>
    ELSE /\ m_sendQueue' = Append(m_sendQueue, p)
         /\ Count("SENT")
         /\ UNCHANGED live
OverflowGoesOn(p) ==             \* no return after the overflow
    IF socket.error
    THEN live' = live \ {p} /\ UNCHANGED <<m_sendQueue, m_counters>>
    ELSE /\ m_sendQueue' = Append(m_sendQueue, p)
         /\ Count(IF Len(m_sendQueue) >= SendQueueSize THEN "SEND_QUEUE_OVERFLOW" ELSE "SENT")
         /\ live' = IF Len(m_sendQueue) >= SendQueueSize THEN live \ {p} ELSE live
WriteFailsUncounted ==           \* the error is not one of the cases
    /\ pc = "writing" /\ m_sendQueue # << >> /\ WriteMayFail
    /\ m_sendQueue' = Tail(m_sendQueue)
    /\ UNCHANGED <<socket, pc, m_receiveQueue, live, held, inbox, m_counters, calls>>
-----------------------------------------------------------------------------
\* The application and the factory.

CreatePacket(p) == /\ pc = "idle" /\ p \notin live
                   /\ live' = live \cup {p}
                   /\ held' = held \cup {p}
                   /\ UNCHANGED <<socket, pc, m_sendQueue, m_receiveQueue, inbox, m_counters, calls>>

DestroyPacket(p) == /\ pc \in {"idle", "gone"} /\ p \in held
                    /\ live' = live \ {p}
                    /\ held' = held \ {p}
                    /\ UNCHANGED <<socket, pc, m_sendQueue, m_receiveQueue, inbox, m_counters, calls>>

\* Destroy the packet of a socket in error or of a full queue, or queue it.
Enqueue(p) ==
    IF socket.error
    THEN live' = live \ {p} /\ UNCHANGED <<m_sendQueue, m_counters>>
    ELSE IF Len(m_sendQueue) >= SendQueueSize
    THEN /\ Count("SEND_QUEUE_OVERFLOW")
         /\ live' = live \ {p}
         /\ UNCHANGED m_sendQueue
    ELSE /\ m_sendQueue' = Append(m_sendQueue, p)
         /\ Count("SENT")
         /\ UNCHANGED live

SendPacket(p) == /\ pc = "idle" /\ p \in held /\ calls.send < SendMax
                 /\ held' = held \ {p}
                 /\ Enqueue(p)
                 /\ calls' = [calls EXCEPT !.send = @ + 1]
                 /\ UNCHANGED <<socket, pc, m_receiveQueue, inbox>>

ReceivePacket == /\ pc = "idle" /\ ~socket.error /\ m_receiveQueue # << >>
                 /\ m_receiveQueue' = Tail(m_receiveQueue)
                 /\ held' = held \cup {Head(m_receiveQueue)}
                 /\ Count("RECEIVED")
                 /\ UNCHANGED <<socket, pc, m_sendQueue, live, inbox, calls>>

-----------------------------------------------------------------------------
\* WritePackets: pop, serialise, send and destroy, until the queue is empty.

WritePackets == /\ pc = "idle" /\ pc' = "writing"
                /\ UNCHANGED <<socket, m_sendQueue, m_receiveQueue, live, held, inbox,
                               m_counters, calls>>

\* sendto() may fail; the packet counts as written all the same.
WriteOne == /\ pc = "writing" /\ m_sendQueue # << >>
            /\ m_sendQueue' = Tail(m_sendQueue)
            /\ live' = live \ {Head(m_sendQueue)}
            /\ Count("WRITTEN")
            /\ UNCHANGED <<socket, pc, m_receiveQueue, held, inbox, calls>>

\* continue, without a word about the packet, which was popped.
WriteFails == /\ pc = "writing" /\ m_sendQueue # << >> /\ WriteMayFail
              /\ m_sendQueue' = Tail(m_sendQueue)
              /\ Count("WRITE_FAILURES")
              /\ UNCHANGED <<socket, pc, m_receiveQueue, live, held, inbox, calls>>

WriteDone == /\ pc = "writing" /\ m_sendQueue = << >>
             /\ pc' = "idle"
             /\ UNCHANGED <<socket, m_sendQueue, m_receiveQueue, live, held, inbox,
                            m_counters, calls>>

-----------------------------------------------------------------------------
\* ReadPackets: receive, and only then look whether there is room.

Arrive == /\ socket.bound /\ pc # "gone" /\ calls.arrive < ArriveMax
          /\ inbox' = inbox + 1
          /\ calls' = [calls EXCEPT !.arrive = @ + 1]
          /\ UNCHANGED <<socket, pc, m_sendQueue, m_receiveQueue, live, held, m_counters>>

ReadPackets == /\ pc = "idle" /\ pc' = "reading"
               /\ UNCHANGED <<socket, m_sendQueue, m_receiveQueue, live, held, inbox,
                              m_counters, calls>>

Full == Len(m_receiveQueue) = ReceiveQueueSize

ReadOverflows == /\ pc = "reading" /\ inbox > 0 /\ Full
                 /\ inbox' = inbox - 1
                 /\ Count("RECEIVE_QUEUE_OVERFLOW")
                 /\ pc' = "idle"
                 /\ UNCHANGED <<socket, m_sendQueue, m_receiveQueue, live, held, calls>>

\* A corrupt or unknown packet; what was allocated for it is destroyed.
ReadFails == /\ pc = "reading" /\ inbox > 0 /\ ~Full
             /\ inbox' = inbox - 1
             /\ Count("READ_FAILURES")
             /\ UNCHANGED <<socket, pc, m_sendQueue, m_receiveQueue, live, held, calls>>

ReadOne(p) == /\ pc = "reading" /\ inbox > 0 /\ ~Full
              /\ p \notin live
              /\ inbox' = inbox - 1
              /\ live' = live \cup {p}
              /\ m_receiveQueue' = Append(m_receiveQueue, p)
              /\ Count("READ")
              /\ UNCHANGED <<socket, pc, m_sendQueue, held, calls>>

\* An empty datagram is taken, for recvfrom() returns 0, and ends the loop like no
\* datagram at all: nothing counts it, and those behind it wait for the next call.
ReadEmpty == /\ pc = "reading" /\ inbox > 0
             /\ inbox' = inbox - 1
             /\ calls' = [calls EXCEPT !.empty = @ + 1]
             /\ pc' = "idle"
             /\ UNCHANGED <<socket, m_sendQueue, m_receiveQueue, live, held, m_counters>>

\* recvfrom() has nothing, or fails and takes nothing.
ReadDone == /\ pc = "reading" /\ (~socket.blocking \/ socket.bound)
            /\ pc' = "idle"
            /\ UNCHANGED <<socket, m_sendQueue, m_receiveQueue, live, held, inbox,
                           m_counters, calls>>

-----------------------------------------------------------------------------
\* The destructor clears both queues; the application keeps what it holds.
Destructor == /\ pc = "idle" /\ pc' = "gone"
              /\ live' = live \ (InQueue(m_sendQueue) \cup InQueue(m_receiveQueue))
              /\ m_sendQueue' = << >> /\ m_receiveQueue' = << >>
              /\ inbox' = 0
              /\ UNCHANGED <<socket, held, m_counters, calls>>

Next == \/ \E p \in Packet : \/ CreatePacket(p) \/ DestroyPacket(p) \/ SendPacket(p)
                             \/ ReadOne(p)
        \/ ReceivePacket
        \/ WritePackets \/ WriteOne \/ WriteFails \/ WriteDone
        \/ Arrive \/ ReadPackets \/ ReadOverflows \/ ReadFails \/ ReadEmpty \/ ReadDone
        \/ Destructor

Spec == Init /\ [][Next]_ifVars

-----------------------------------------------------------------------------
\* Properties.

NoRepeat(q) == \A i, j \in DOMAIN q : q[i] = q[j] => i = j

(* Every pointer in use has one owner: a packet in a queue or held by the    *)
(* application is allocated, and is in no other queue or place, through      *)
(* overflows, failures in the middle of a drain and the destructor.  So      *)
(* nothing is used after it was destroyed, or destroyed twice.               *)
OneOwner ==
    /\ NoRepeat(m_sendQueue) /\ NoRepeat(m_receiveQueue)
    /\ InQueue(m_sendQueue) \cap InQueue(m_receiveQueue) = {}
    /\ held \cap (InQueue(m_sendQueue) \cup InQueue(m_receiveQueue)) = {}
    /\ InQueue(m_sendQueue) \cup InQueue(m_receiveQueue) \cup held \subseteq live

(* The only packets nobody will ever destroy are those whose write failed:   *)
(* WritePackets pops them and continues.  Every other path frees its packet. *)
LeaksAreWriteFailures ==
    Cardinality(live \ (held \cup InQueue(m_sendQueue) \cup InQueue(m_receiveQueue)))
        = m_counters["WRITE_FAILURES"]

(* The counters account for every packet: what was sent was written, failed  *)
(* or waits; what was read was received or waits; and every datagram taken   *)
(* from the socket was read, was refused or met a full queue, but for the    *)
(* empty ones, which no counter sees.                                        *)
CountersBalance ==
    pc # "gone" =>
        /\ m_counters["SENT"] =
              m_counters["WRITTEN"] + m_counters["WRITE_FAILURES"] + Len(m_sendQueue)
        /\ m_counters["READ"] = m_counters["RECEIVED"] + Len(m_receiveQueue)
        /\ calls.arrive = inbox + m_counters["READ"] + m_counters["READ_FAILURES"]
                                + m_counters["RECEIVE_QUEUE_OVERFLOW"] + calls.empty

(* The assertion !IsError() of Socket::SendPacket holds: WritePackets does   *)
(* not look at the error, but nothing is ever queued on a socket in error.   *)
NeverSentOnError == socket.error => m_sendQueue = << >> /\ m_counters["WRITTEN"] = 0
=============================================================================
