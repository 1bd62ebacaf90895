------------------------------ MODULE NetSocket -----------------------------
(* udp/Assets/Script/Network/NetSocket.cs: the client's UDP socket with its  *)
(* receive thread.  The main thread constructs it, adds a receive processor  *)
(* and sends, in the order of TestUDP.EchoTest; after that it may use the    *)
(* rest of the interface.  The receive thread polls, receives and calls the  *)
(* processor, which may itself call Close, as TestUDP.HanldeMsg does.        *)
(*                                                                           *)
(* The two threads share m_isRunning, m_threadv4, m_receiveProcessor and the *)
(* socket without a lock, so each read or write of one of them is a step.    *)
EXTENDS Naturals

CONSTANTS Uses,           \* the ways the socket may be used, see Usage
          Reported,       \* whether ReceiveFrom may throw (port unreachable)
          ArriveMax       \* bound on the datagrams and errors that arrive

\* What main calls after EchoTest, and whether the processor calls Close.
Usage == [main : SUBSET {"Add", "Remove", "Close"}, handlerCloses : BOOLEAN]

ASSUME NetSocketAssumption ==
    /\ Uses \subseteq Usage
    /\ Reported \in BOOLEAN
    /\ ArriveMax \in Nat

Thread == {"main", "recv"}
NoThread == "none"

VARIABLES usage,               \* which of Uses; it never changes
          pc,                  \* pc[p]: what thread p does next
          m_isRunning,
          m_threadv4,          \* the receive thread, or null
          m_receiveProcessor,  \* whether the delegate has the handler; null if not
          m_ipv4Socket,        \* "none", "unbound", "bound" or "closed"
          queue,               \* what the socket has to read: datagrams and errors
          data,                \* the receive thread's buffer
          count                \* datagrams and errors arrived, datagrams taken and handled

shared == <<m_isRunning, m_threadv4, m_receiveProcessor, m_ipv4Socket>>
network == <<queue, data, count>>

vars == <<usage, pc, shared, network>>

CloseLabel == {"stop", "compare", "join", "joining", "forget", "close"}
MainLabel == {"construct", "start", "detach", "attach", "send", "use", "remove", "closed"}
RecvLabel == {"unstarted", "loop", "poll", "receive", "call", "handle", "done"}

TypeOK == /\ usage \in Uses
          /\ pc \in [main : MainLabel \cup CloseLabel \cup {"failed"},
                     recv : RecvLabel \cup CloseLabel \cup {"failed"}]
          /\ m_isRunning \in BOOLEAN
          /\ m_threadv4 \in {"recv", NoThread}
          /\ m_receiveProcessor \in BOOLEAN
          /\ m_ipv4Socket \in {"none", "unbound", "bound", "closed"}
          /\ queue \in [datagram : 0 .. ArriveMax, error : 0 .. ArriveMax]
          /\ data \in {"zeros", "datagram"}
          /\ count \in [arrived : 0 .. ArriveMax, taken : 0 .. ArriveMax, handled : 0 .. ArriveMax]

Init == /\ usage \in Uses
        /\ pc = [main |-> "construct", recv |-> "unstarted"]
        /\ m_isRunning = FALSE
        /\ m_threadv4 = NoThread
        /\ m_receiveProcessor = FALSE
        /\ m_ipv4Socket = "none"
        /\ queue = [datagram |-> 0, error |-> 0]
        /\ data = "zeros"
        /\ count = [arrived |-> 0, taken |-> 0, handled |-> 0]

Goto(p, from, to) == pc[p] = from /\ pc' = [pc EXCEPT ![p] = to] /\ UNCHANGED usage

-----------------------------------------------------------------------------
\* The network, as the socket sees it: only a bound socket receives.

Arrive(kind) == /\ m_ipv4Socket = "bound"
                /\ count.arrived < ArriveMax
                /\ queue' = [queue EXCEPT ![kind] = @ + 1]
                /\ count' = [count EXCEPT !.arrived = @ + 1]
                /\ UNCHANGED <<usage, pc, shared, data>>

-----------------------------------------------------------------------------
\* The main thread: the constructor, then the calls of EchoTest.

Construct == /\ Goto("main", "construct", "start")
             /\ m_ipv4Socket' = "unbound"
             /\ m_isRunning' = TRUE
             /\ UNCHANGED <<m_threadv4, m_receiveProcessor, network>>

\* Fault: the request is sent and no processor added.
SentWithoutProcessor == /\ pc.main = "start"
                        /\ pc' = [main |-> "send", recv |-> "loop"]
                        /\ m_threadv4' = "recv"
                        /\ UNCHANGED <<usage, m_isRunning, m_receiveProcessor, m_ipv4Socket,
                                        network>>

StartThread == /\ pc.main = "start"
               /\ pc' = [main |-> "detach", recv |-> "loop"]
               /\ m_threadv4' = "recv"
               /\ UNCHANGED <<usage, m_isRunning, m_receiveProcessor, m_ipv4Socket, network>>

\* AddReceiveProcessor takes the handler out and puts it back.
Detach == /\ Goto("main", "detach", "attach")
          /\ m_receiveProcessor' = FALSE
          /\ UNCHANGED <<m_isRunning, m_threadv4, m_ipv4Socket, network>>

Attach == /\ Goto("main", "attach", IF m_ipv4Socket = "unbound" THEN "send" ELSE "use")
          /\ m_receiveProcessor' = TRUE
          /\ UNCHANGED <<m_isRunning, m_threadv4, m_ipv4Socket, network>>

\* The first SendTo binds the socket to a port.
SendData == /\ Goto("main", "send", "use")
            /\ m_ipv4Socket' = "bound"
            /\ UNCHANGED <<m_isRunning, m_threadv4, m_receiveProcessor, network>>

Use == /\ \/ "Add" \in usage.main /\ Goto("main", "use", "detach")
          \/ "Remove" \in usage.main /\ Goto("main", "use", "remove")
          \/ "Close" \in usage.main /\ Goto("main", "use", "stop")
       /\ UNCHANGED <<shared, network>>

RemoveReceiveProcessor ==
    /\ Goto("main", "remove", "use")
    /\ m_receiveProcessor' = FALSE
    /\ UNCHANGED <<m_isRunning, m_threadv4, m_ipv4Socket, network>>

-----------------------------------------------------------------------------
\* Faults: plausible mistakes in the operations below.

JoinSkipped(p) == Goto(p, "compare", "forget") /\ UNCHANGED <<shared, network>>
JoinAlways(p) == Goto(p, "compare", "join") /\ UNCHANGED <<shared, network>>
StopForgotten(p) == Goto(p, "stop", "compare") /\ UNCHANGED <<shared, network>>
-----------------------------------------------------------------------------
\* Close, in either thread.

CloseStop(p) == /\ Goto(p, "stop", "compare")
                /\ m_isRunning' = FALSE
                /\ UNCHANGED <<m_threadv4, m_receiveProcessor, m_ipv4Socket, network>>

CloseCompare(p) == /\ Goto(p, "compare", IF m_threadv4 # p THEN "join" ELSE "forget")
                   /\ UNCHANGED <<shared, network>>

\* m_threadv4 is read a second time, and may be null by now.
CloseJoin(p) == /\ Goto(p, "join", IF m_threadv4 = NoThread THEN "failed" ELSE "joining")
                /\ UNCHANGED <<shared, network>>

CloseJoined(p) == /\ pc.recv \in {"done", "failed"}
                  /\ Goto(p, "joining", "forget")
                  /\ UNCHANGED <<shared, network>>

CloseForget(p) == /\ Goto(p, "forget", "close")
                  /\ m_threadv4' = NoThread
                  /\ UNCHANGED <<m_isRunning, m_receiveProcessor, m_ipv4Socket, network>>

CloseSocket(p) == /\ Goto(p, "close", IF p = "main" THEN "closed" ELSE "loop")
                  /\ m_ipv4Socket' = "closed"
                  /\ queue' = [datagram |-> 0, error |-> 0]
                  /\ UNCHANGED <<m_isRunning, m_threadv4, m_receiveProcessor, data, count>>

Close(p) == \/ CloseStop(p)
            \/ CloseCompare(p)
            \/ CloseJoin(p)
            \/ CloseJoined(p)
            \/ CloseForget(p)
            \/ CloseSocket(p)

-----------------------------------------------------------------------------
\* The receive thread.

Loop == /\ Goto("recv", "loop", IF m_isRunning THEN "poll" ELSE "done")
        /\ UNCHANGED <<shared, network>>

Readable == queue.datagram + queue.error > 0

\* Poll waits 100 ms; on a closed socket it throws, outside the try.
Poll == /\ Goto("recv", "poll", IF m_ipv4Socket = "closed" THEN "failed"
                                ELSE IF Readable THEN "receive" ELSE "loop")
        /\ data' = "zeros"
        /\ UNCHANGED <<shared, queue, count>>

ReceiveFrom == /\ Goto("recv", "receive", "call")
               /\ queue.datagram > 0
               /\ queue' = [queue EXCEPT !.datagram = @ - 1]
               /\ data' = "datagram"
               /\ count' = [count EXCEPT !.taken = @ + 1]
               /\ UNCHANGED shared

\* An exception is logged; the buffer stays as it is and is handed over.
ReceiveThrows == /\ Goto("recv", "receive", "call")
                 /\ queue.error > 0 \/ m_ipv4Socket = "closed"
                 /\ queue' = [queue EXCEPT !.error = IF @ > 0 THEN @ - 1 ELSE 0]
                 /\ UNCHANGED <<shared, data, count>>

\* Fault: m_isRunning is looked at again before the call.
CallIfRunning ==
    /\ Goto("recv", "call", IF ~m_isRunning THEN "loop"
                            ELSE IF m_receiveProcessor THEN "handle" ELSE "failed")
    /\ UNCHANGED <<shared, network>>

\* Calling a null delegate throws.
CallProcessor == /\ Goto("recv", "call", IF m_receiveProcessor THEN "handle" ELSE "failed")
                 /\ UNCHANGED <<shared, network>>

HanldeMsg == /\ Goto("recv", "handle", IF usage.handlerCloses THEN "stop" ELSE "loop")
             /\ count' = [count EXCEPT !.handled = IF data = "datagram" THEN @ + 1 ELSE @]
             /\ UNCHANGED <<shared, queue, data>>

-----------------------------------------------------------------------------
MainStep == \/ Construct \/ StartThread \/ Detach \/ Attach \/ SendData
            \/ Use \/ RemoveReceiveProcessor
            \/ Close("main")

RecvStep == \/ Loop \/ Poll \/ ReceiveFrom \/ ReceiveThrows \/ CallProcessor \/ HanldeMsg
            \/ Close("recv")

Next == \/ MainStep
        \/ RecvStep
        \/ Arrive("datagram")
        \/ Reported /\ Arrive("error")

Spec == Init /\ [][Next]_vars

(* The scheduler runs both threads; main is not obliged to call anything,    *)
(* but a Close it has begun goes on.                                         *)
Fairness == WF_vars(RecvStep) /\ WF_vars(Close("main"))

FairSpec == Spec /\ Fairness

-----------------------------------------------------------------------------
\* Properties.

(* The receive thread never waits on or reads a socket that is closed, from  *)
(* whichever threads Close is called, at once or one after the other: Close  *)
(* joins the thread first, unless it runs in it.                             *)
SocketOpenWhenUsed == pc.recv \in {"poll", "receive"} => m_ipv4Socket # "closed"

(* Used as EchoTest does and closed from one thread, neither thread ever     *)
(* runs into a null delegate, a null thread or a disposed socket, although   *)
(* the constructor starts the thread before a processor is added.            *)
NoException ==
    \/ usage.main \cap {"Add", "Remove"} # {}
    \/ "Close" \in usage.main /\ usage.handlerCloses
    \/ \A p \in Thread : pc[p] # "failed"

(* When Close has returned to the main thread, the processor is not running  *)
(* and will not be called again.                                             *)
SilentAfterClose == pc.main = "closed" => pc.recv \in {"done", "failed"}

(* Every datagram taken from the socket is handed to the processor, once and *)
(* as received, also when Close has begun in between.                        *)
HandedOver ==
    \/ pc.recv = "failed"
    \/ count.taken = count.handled
                       + IF pc.recv \in {"call", "handle"} /\ data = "datagram" THEN 1 ELSE 0

(* A Close the main thread has begun returns, though it joins a thread that  *)
(* may be waiting, receiving, in the processor or dead.                      *)
CloseReturns == pc.main \in CloseLabel ~> pc.main \in {"closed", "failed"}

(* Once m_isRunning is cleared, the receive thread ends.                     *)
ReceiveEnds == ~m_isRunning /\ pc.recv # "unstarted" ~> pc.recv \in {"done", "failed"}
=============================================================================
