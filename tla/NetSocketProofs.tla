--------------------------- MODULE NetSocketProofs ----------------------------
(* Proofs about NetSocket, for any use of the socket and any number of        *)
(* datagrams.                                                                 *)
EXTENDS NetSocket, TLAPS

\* A thread that has begun a Close has cleared m_isRunning from here on.
Stopped == {"compare", "join", "joining", "forget", "close"}

\* Nothing sets m_isRunning again, and main joins before it forgets the thread.
Closing ==
    /\ pc.main \in {"construct", "start"} => pc.recv = "unstarted"
    /\ m_ipv4Socket = "closed" => ~m_isRunning /\ pc.recv \in {"loop", "done", "failed"}
    /\ pc.main \in Stopped \/ pc.recv \in Stopped => ~m_isRunning
    /\ pc.main \in {"forget", "close", "closed"} => pc.recv \in {"done", "failed"}

\* What has been read is in the buffer until the processor has had it.
Counted ==
    /\ HandedOver
    /\ pc.recv = "receive" => data = "zeros"
    /\ count.handled <= count.taken
    /\ queue.datagram + queue.error + count.taken <= count.arrived

IInv == TypeOK /\ Closing /\ Counted

USE DEF MainLabel, RecvLabel, CloseLabel, NoThread, Thread

LEMMA InitIInv == Init => IInv
  <1> SUFFICES ASSUME Init PROVE IInv
    OBVIOUS
  <1>1. TypeOK
    <2>1. m_isRunning \in BOOLEAN /\ m_receiveProcessor \in BOOLEAN
      BY Zenon DEF Init
    <2>2. 0 \in 0 .. ArriveMax
      BY NetSocketAssumption
    <2> QED
      BY <2>1, <2>2, Zenon DEF Init, TypeOK
  <1>2. Closing
    BY DEF Init, Closing, Stopped
  <1>3. Counted
    BY DEF Init, Counted, HandedOver
  <1> QED
    BY <1>1, <1>2, <1>3 DEF IInv

LEMMA ClosingKept == TypeOK /\ Closing /\ [Next]_vars => Closing'
  <1> SUFFICES ASSUME TypeOK, Closing, [Next]_vars PROVE Closing'
    OBVIOUS
  <1> USE DEF Closing, TypeOK, Stopped, Goto, shared, network
  <1>1. CASE UNCHANGED vars
    BY <1>1 DEF vars
  <1>2. CASE Construct \/ StartThread
    BY <1>2 DEF Construct, StartThread
  <1>3. CASE Detach \/ Attach \/ SendData \/ Use \/ RemoveReceiveProcessor
    BY <1>3 DEF Detach, Attach, SendData, Use, RemoveReceiveProcessor
  <1>4. ASSUME NEW p \in Thread, CloseStop(p) \/ CloseCompare(p) \/ CloseJoin(p) PROVE Closing'
    BY <1>4 DEF CloseStop, CloseCompare, CloseJoin
  <1>5. ASSUME NEW p \in Thread, CloseJoined(p) \/ CloseForget(p) \/ CloseSocket(p)
        PROVE Closing'
    BY <1>5 DEF CloseJoined, CloseForget, CloseSocket
  <1>6. CASE Loop \/ Poll \/ ReceiveFrom
    BY <1>6 DEF Loop, Poll, ReceiveFrom
  <1>7. CASE ReceiveThrows \/ CallProcessor \/ HanldeMsg
    BY <1>7 DEF ReceiveThrows, CallProcessor, HanldeMsg
  <1>8. ASSUME NEW kind, Arrive(kind) PROVE Closing'
    BY <1>8 DEF Arrive
  <1> QED
    BY <1>1, <1>2, <1>3, <1>4, <1>5, <1>6, <1>7, <1>8
    DEF Next, MainStep, RecvStep, Close

LEMMA CountedKept == TypeOK /\ Closing /\ Counted /\ [Next]_vars => Counted'
  <1> SUFFICES ASSUME TypeOK, Closing, Counted, [Next]_vars PROVE Counted'
    OBVIOUS
  <1> USE NetSocketAssumption DEF Counted, HandedOver, TypeOK, Goto, shared, network
  <1>1. CASE UNCHANGED vars
    BY <1>1 DEF vars
  <1>2. CASE Construct \/ StartThread
    <2>1. UNCHANGED <<queue, data, count>>
      BY <1>2 DEF Construct, StartThread
    <2>2. pc.recv = "unstarted" /\ pc'.recv \in {"unstarted", "loop"}
      BY <1>2 DEF Construct, StartThread, Closing
    <2> QED
      BY <2>1, <2>2
  <1>3. CASE Detach \/ Attach \/ SendData \/ Use \/ RemoveReceiveProcessor
    BY <1>3 DEF Detach, Attach, SendData, Use, RemoveReceiveProcessor
  <1>4. ASSUME NEW p \in Thread, CloseStop(p) \/ CloseCompare(p) \/ CloseJoin(p) PROVE Counted'
    BY <1>4 DEF CloseStop, CloseCompare, CloseJoin
  <1>5. ASSUME NEW p \in Thread, CloseJoined(p) \/ CloseForget(p) \/ CloseSocket(p)
        PROVE Counted'
    BY <1>5 DEF CloseJoined, CloseForget, CloseSocket
  <1>6. CASE Loop \/ Poll
    BY <1>6 DEF Loop, Poll
  <1>7. CASE ReceiveFrom
    BY <1>7 DEF ReceiveFrom
  <1>8. CASE ReceiveThrows
    BY <1>8 DEF ReceiveThrows
  <1>9. CASE CallProcessor
    BY <1>9 DEF CallProcessor
  <1>10. CASE HanldeMsg
    BY <1>10 DEF HanldeMsg
  <1>11. ASSUME NEW kind \in {"datagram", "error"}, Arrive(kind) PROVE Counted'
    BY <1>11 DEF Arrive
  <1> QED
    BY <1>1, <1>2, <1>3, <1>4, <1>5, <1>6, <1>7, <1>8, <1>9, <1>10, <1>11
    DEF Next, MainStep, RecvStep, Close

LEMMA TypeKept == TypeOK /\ Closing /\ Counted /\ [Next]_vars => TypeOK'
  <1> SUFFICES ASSUME TypeOK, Closing, Counted, [Next]_vars PROVE TypeOK'
    OBVIOUS
  <1> DEFINE PcType == [main : MainLabel \cup CloseLabel \cup {"failed"},
                        recv : RecvLabel \cup CloseLabel \cup {"failed"}]
             QueueType == [datagram : 0 .. ArriveMax, error : 0 .. ArriveMax]
             CountType == [arrived : 0 .. ArriveMax, taken : 0 .. ArriveMax,
                           handled : 0 .. ArriveMax]
  <1>0. CASE UNCHANGED vars
    <2>1. UNCHANGED <<usage, pc, m_isRunning, m_threadv4, m_receiveProcessor, m_ipv4Socket,
                      queue, data, count>>
      BY <1>0 DEF vars, shared, network
    <2>2. UNCHANGED m_isRunning /\ UNCHANGED m_receiveProcessor
      BY <1>0, Zenon DEF vars, shared
    <2>3. m_isRunning' \in BOOLEAN /\ m_receiveProcessor' \in BOOLEAN
      BY <2>2, Zenon DEF TypeOK
    <2> QED
      BY <2>1, <2>3 DEF TypeOK
  <1>1. ASSUME Next PROVE usage' \in Uses /\ pc' \in PcType
    <2> USE DEF TypeOK, Goto
    <2>1. CASE Construct \/ StartThread \/ Detach \/ Attach
      BY <2>1 DEF Construct, StartThread, Detach, Attach
    <2>2. CASE SendData \/ Use \/ RemoveReceiveProcessor
      BY <2>2 DEF SendData, Use, RemoveReceiveProcessor
    <2>3. ASSUME NEW p \in Thread, Close(p) PROVE usage' \in Uses /\ pc' \in PcType
      BY <2>3 DEF Close, CloseStop, CloseCompare, CloseJoin, CloseJoined, CloseForget, CloseSocket
    <2>4. CASE Loop \/ Poll \/ ReceiveFrom \/ ReceiveThrows \/ CallProcessor \/ HanldeMsg
      BY <2>4 DEF Loop, Poll, ReceiveFrom, ReceiveThrows, CallProcessor, HanldeMsg
    <2>5. ASSUME NEW kind, Arrive(kind) PROVE usage' \in Uses /\ pc' \in PcType
      BY <2>5 DEF Arrive
    <2> QED
      BY <1>1, <2>1, <2>2, <2>3, <2>4, <2>5 DEF Next, MainStep, RecvStep
  <1>2. ASSUME Next PROVE /\ m_isRunning' \in BOOLEAN
                          /\ m_threadv4' \in {"recv", NoThread}
                          /\ m_receiveProcessor' \in BOOLEAN
                          /\ m_ipv4Socket' \in {"none", "unbound", "bound", "closed"}
                          /\ data' \in {"zeros", "datagram"}
    <2> DEFINE Goal == /\ m_isRunning' \in BOOLEAN
                       /\ m_threadv4' \in {"recv", NoThread}
                       /\ m_receiveProcessor' \in BOOLEAN
                       /\ m_ipv4Socket' \in {"none", "unbound", "bound", "closed"}
                       /\ data' \in {"zeros", "datagram"}
    <2> USE DEF TypeOK, shared, network
    <2>1. CASE Construct \/ StartThread \/ Detach \/ Attach
      BY <2>1, Zenon DEF Construct, StartThread, Detach, Attach
    <2>2. CASE SendData \/ Use \/ RemoveReceiveProcessor
      BY <2>2, Zenon DEF SendData, Use, RemoveReceiveProcessor
    <2>3. ASSUME NEW p \in Thread, Close(p) PROVE Goal
      BY <2>3, Zenon DEF Close, CloseStop, CloseCompare, CloseJoin, CloseJoined, CloseForget,
                         CloseSocket
    <2>4. CASE Loop \/ Poll \/ ReceiveFrom
      BY <2>4, Zenon DEF Loop, Poll, ReceiveFrom
    <2>5. CASE ReceiveThrows \/ CallProcessor \/ HanldeMsg
      BY <2>5, Zenon DEF ReceiveThrows, CallProcessor, HanldeMsg
    <2>6. ASSUME NEW kind, Arrive(kind) PROVE Goal
      BY <2>6, Zenon DEF Arrive
    <2> QED
      BY <1>2, <2>1, <2>2, <2>3, <2>4, <2>5, <2>6 DEF Next, MainStep, RecvStep
  <1>3. ASSUME Next PROVE queue' \in QueueType /\ count' \in CountType
    <2> DEFINE Goal == queue' \in QueueType /\ count' \in CountType
    <2> USE NetSocketAssumption DEF TypeOK, shared, network
    <2>1. CASE UNCHANGED <<queue, count>>
      BY <2>1
    <2>2. CASE ReceiveFrom
      BY <2>2 DEF ReceiveFrom, Counted
    <2>3. CASE ReceiveThrows
      BY <2>3 DEF ReceiveThrows
    <2>4. CASE HanldeMsg
      <3>1. pc.recv = "handle"
        BY <2>4 DEF HanldeMsg, Goto
      <3>2. data = "datagram" => count.handled + 1 = count.taken
        BY <3>1 DEF Counted, HandedOver
      <3> QED
        BY <2>4, <3>2 DEF HanldeMsg
    <2>5. ASSUME NEW p, CloseSocket(p) PROVE Goal
      BY <2>5 DEF CloseSocket
    <2>6. ASSUME NEW kind \in {"datagram", "error"}, Arrive(kind) PROVE Goal
      BY <2>6 DEF Arrive, Counted
    <2>7. CASE MainStep /\ ~Close("main")
      BY <2>1, <2>7 DEF MainStep, Construct, StartThread, Detach, Attach, SendData, Use,
                        RemoveReceiveProcessor
    <2>8. ASSUME NEW p, Close(p), ~CloseSocket(p) PROVE UNCHANGED <<queue, count>>
      BY <2>8 DEF Close, CloseStop, CloseCompare, CloseJoin, CloseJoined, CloseForget
    <2>9. CASE Loop \/ Poll \/ CallProcessor
      BY <2>1, <2>9 DEF Loop, Poll, CallProcessor
    <2> QED
      BY <1>3, <2>1, <2>2, <2>3, <2>4, <2>5, <2>6, <2>7, <2>8, <2>9 DEF Next, MainStep, RecvStep
  <1> QED
    BY <1>0, <1>1, <1>2, <1>3, Zenon DEF TypeOK

\* The invariant is inductive.
THEOREM Invariant == Spec => []IInv
  <1>1. IInv /\ [Next]_vars => IInv'
    BY ClosingKept, CountedKept, TypeKept DEF IInv
  <1> QED
    BY <1>1, InitIInv, PTL DEF Spec

\* Every variable of the client socket keeps its type, and no count passes its bound.
THEOREM TypeCorrect == Spec => []TypeOK
  BY Invariant, PTL DEF IInv

(* NetSocket.Close joins the receive thread before it closes the socket, unless *)
(* it runs in that thread: however the two threads interleave, the receive      *)
(* thread never polls or reads a closed socket.                                 *)
THEOREM SocketNeverUsedClosed == Spec => []SocketOpenWhenUsed
  <1>1. IInv => SocketOpenWhenUsed
    BY DEF IInv, Closing, SocketOpenWhenUsed
  <1> QED
    BY <1>1, Invariant, PTL

(* Once Close has returned to the main thread, the processor does not run and   *)
(* will not be called, whichever thread closed first.                           *)
THEOREM SilentWhenClosed == Spec => []SilentAfterClose
  <1>1. IInv => SilentAfterClose
    BY DEF IInv, Closing, SilentAfterClose
  <1> QED
    BY <1>1, Invariant, PTL

(* Every datagram ReceiveFrom has taken is handed to the processor exactly once, *)
(* with the buffer as it was received, also when Close comes in between.         *)
THEOREM AllHandedOver == Spec => []HandedOver
  <1>1. IInv => HandedOver
    BY DEF IInv, Counted
  <1> QED
    BY <1>1, Invariant, PTL

-----------------------------------------------------------------------------
\* Used as EchoTest does and closed from one thread at most.
EchoUse == /\ usage.main \cap {"Add", "Remove"} = {}
           /\ "Close" \in usage.main => ~usage.handlerCloses

\* The processor is there before anything can arrive, and stays.
Wired ==
    /\ pc.main # "remove"
    /\ pc.main \in {"construct", "start", "detach", "attach", "send"}
          => m_ipv4Socket \in {"none", "unbound"}
    /\ pc.main \notin {"construct", "start", "detach", "attach"} => m_receiveProcessor
    /\ m_ipv4Socket \in {"none", "unbound"} =>
          /\ queue.datagram = 0 /\ queue.error = 0
          /\ pc.recv \in {"unstarted", "loop", "poll", "done"}

\* Only the thread that closes the socket forgets the receive thread.
OneCloser ==
    /\ pc.main \in CloseLabel \cup {"closed"} => "Close" \in usage.main
    /\ pc.recv \in CloseLabel => usage.handlerCloses
    /\ m_threadv4 = NoThread =>
          \/ pc.main \in {"construct", "start", "close", "closed"}
          \/ usage.handlerCloses /\ ~m_isRunning /\ pc.recv \in {"close", "loop", "done"}
    /\ pc.recv \notin {"join", "joining"}

NeverFailed == pc.main # "failed" /\ pc.recv # "failed"

Orderly == EchoUse => Wired /\ OneCloser /\ NeverFailed

LEMMA WiredKept ==
    TypeOK /\ Closing /\ EchoUse /\ Wired /\ NeverFailed /\ Next => Wired'
  <1> SUFFICES ASSUME TypeOK, Closing, EchoUse, Wired, NeverFailed, Next PROVE Wired'
    OBVIOUS
  <1> USE DEF Wired, TypeOK, Goto, shared, network
  <1>1. CASE Construct \/ StartThread
    BY <1>1 DEF Construct, StartThread, Closing
  <1>2. CASE Detach \/ Attach \/ SendData
    BY <1>2 DEF Detach, Attach, SendData
  <1>3. CASE Use
    BY <1>3 DEF Use, EchoUse
  <1>4. CASE RemoveReceiveProcessor
    BY <1>4 DEF RemoveReceiveProcessor
  <1>5. ASSUME NEW p \in Thread, CloseStop(p) \/ CloseCompare(p) \/ CloseJoin(p) PROVE Wired'
    BY <1>5 DEF CloseStop, CloseCompare, CloseJoin
  <1>6. ASSUME NEW p \in Thread, CloseJoined(p) \/ CloseForget(p) PROVE Wired'
    BY <1>6 DEF CloseJoined, CloseForget
  <1>7. ASSUME NEW p \in Thread, CloseSocket(p) PROVE Wired'
    BY <1>7 DEF CloseSocket
  <1>8. CASE Loop \/ Poll
    BY <1>8 DEF Loop, Poll, Readable
  <1>9. CASE ReceiveFrom \/ ReceiveThrows
    BY <1>9 DEF ReceiveFrom, ReceiveThrows
  <1>10. CASE CallProcessor \/ HanldeMsg
    BY <1>10 DEF CallProcessor, HanldeMsg
  <1>11. ASSUME NEW kind, Arrive(kind) PROVE Wired'
    BY <1>11 DEF Arrive
  <1> QED
    BY <1>1, <1>2, <1>3, <1>4, <1>5, <1>6, <1>7, <1>8, <1>9, <1>10, <1>11
    DEF Next, MainStep, RecvStep, Close

LEMMA OneCloserKept ==
    TypeOK /\ Closing /\ EchoUse /\ OneCloser /\ NeverFailed /\ Next => OneCloser'
  <1> SUFFICES ASSUME TypeOK, Closing, EchoUse, OneCloser, NeverFailed, Next PROVE OneCloser'
    OBVIOUS
  <1> USE DEF OneCloser, TypeOK, Goto, shared, network
  <1>1. CASE Construct \/ StartThread
    BY <1>1 DEF Construct, StartThread, Closing
  <1>2. CASE Detach \/ Attach \/ SendData \/ RemoveReceiveProcessor
    BY <1>2 DEF Detach, Attach, SendData, RemoveReceiveProcessor
  <1>3. CASE Use
    BY <1>3 DEF Use
  <1>4. ASSUME NEW p \in Thread, CloseStop(p) \/ CloseCompare(p) \/ CloseJoin(p)
        PROVE OneCloser'
    BY <1>4 DEF CloseStop, CloseCompare, CloseJoin, EchoUse, Closing
  <1>5. ASSUME NEW p \in Thread, CloseJoined(p) \/ CloseForget(p) PROVE OneCloser'
    BY <1>5 DEF CloseJoined, CloseForget, EchoUse, Closing, Stopped
  <1>6. ASSUME NEW p \in Thread, CloseSocket(p) PROVE OneCloser'
    BY <1>6 DEF CloseSocket, EchoUse
  <1>7. CASE Loop \/ Poll
    BY <1>7 DEF Loop, Poll
  <1>8. CASE ReceiveFrom \/ ReceiveThrows
    BY <1>8 DEF ReceiveFrom, ReceiveThrows
  <1>9. CASE CallProcessor \/ HanldeMsg
    BY <1>9 DEF CallProcessor, HanldeMsg
  <1>10. ASSUME NEW kind, Arrive(kind) PROVE OneCloser'
    BY <1>10 DEF Arrive
  <1> QED
    BY <1>1, <1>2, <1>3, <1>4, <1>5, <1>6, <1>7, <1>8, <1>9, <1>10
    DEF Next, MainStep, RecvStep, Close

LEMMA NeverFailedKept ==
    TypeOK /\ Closing /\ EchoUse /\ Wired /\ OneCloser /\ NeverFailed /\ Next => NeverFailed'
  <1> SUFFICES ASSUME TypeOK, Closing, EchoUse, Wired, OneCloser, NeverFailed, Next
               PROVE NeverFailed'
    OBVIOUS
  <1> USE DEF NeverFailed, TypeOK, Goto
  <1>1. CASE Construct \/ StartThread \/ Detach \/ Attach
    BY <1>1 DEF Construct, StartThread, Detach, Attach
  <1>2. CASE SendData \/ Use \/ RemoveReceiveProcessor
    BY <1>2 DEF SendData, Use, RemoveReceiveProcessor
  <1>3. ASSUME NEW p \in Thread, CloseJoin(p) PROVE NeverFailed'
    BY <1>3 DEF CloseJoin, OneCloser, EchoUse
  <1>4. ASSUME NEW p \in Thread, Close(p), ~CloseJoin(p) PROVE NeverFailed'
    BY <1>4 DEF Close, CloseStop, CloseCompare, CloseJoined, CloseForget, CloseSocket
  <1>5. CASE Poll
    BY <1>5 DEF Poll, Closing
  <1>6. CASE CallProcessor
    BY <1>6 DEF CallProcessor, Wired
  <1>7. CASE Loop \/ ReceiveFrom \/ ReceiveThrows \/ HanldeMsg
    BY <1>7 DEF Loop, ReceiveFrom, ReceiveThrows, HanldeMsg
  <1>8. ASSUME NEW kind, Arrive(kind) PROVE NeverFailed'
    BY <1>8 DEF Arrive
  <1> QED
    BY <1>1, <1>2, <1>3, <1>4, <1>5, <1>6, <1>7, <1>8 DEF Next, MainStep, RecvStep

LEMMA UsageKept == [Next]_vars => usage' = usage
  BY DEF Next, vars, MainStep, RecvStep, Goto, Arrive, Construct, StartThread, Detach, Attach,
         SendData, Use, RemoveReceiveProcessor, Close, CloseStop, CloseCompare, CloseJoin,
         CloseJoined, CloseForget, CloseSocket, Loop, Poll, ReceiveFrom, ReceiveThrows,
         CallProcessor, HanldeMsg

(* For any number of datagrams and errors: a socket used as EchoTest does and *)
(* closed from one thread at most never makes a thread throw, not on a null   *)
(* delegate, nor a null thread, nor a closed socket.                          *)
THEOREM NeverThrows == Spec => []NoException
  <1>1. Init => Orderly
    BY DEF Init, Orderly, Wired, OneCloser, NeverFailed
  <1>2. TypeOK /\ Closing /\ Orderly /\ [Next]_vars => Orderly'
    <2>1. SUFFICES ASSUME TypeOK, Closing, Orderly, [Next]_vars, EchoUse'
                   PROVE  Wired' /\ OneCloser' /\ NeverFailed'
      BY DEF Orderly
    <2>2. EchoUse /\ Wired /\ OneCloser /\ NeverFailed
      BY <2>1, UsageKept DEF EchoUse, Orderly
    <2>3. CASE Next
      BY <2>1, <2>2, <2>3, WiredKept, OneCloserKept, NeverFailedKept
    <2>4. CASE UNCHANGED vars
      BY <2>2, <2>4 DEF vars, shared, network, Wired, OneCloser, NeverFailed
    <2> QED
      BY <2>1, <2>3, <2>4
  <1>3. TypeOK /\ Orderly => NoException
    BY NetSocketAssumption DEF TypeOK, Usage, Orderly, EchoUse, NeverFailed, NoException
  <1> QED
    BY <1>1, <1>2, <1>3, Invariant, PTL DEF Spec, IInv
=============================================================================
