----------------------------- MODULE Connection -----------------------------
(* The connection handshake: clients (udp/Assets/Script/TestUDP.cs over      *)
(* NetSocket.cs) ask for a session, the server (svr/library/networking/      *)
(* Server.cpp) creates one in the SessionManager and answers with its sid.   *)
(*                                                                           *)
(* UDP may lose, duplicate and reorder datagrams; the server process may     *)
(* stop and start again, with an empty table and sid_gen_ back at 0.  The    *)
(* server handles one datagram at a time in one thread, so a handler is one  *)
(* action.  Of the commands it knows only START_REQ does anything, and only  *)
(* START_REQ is sent by the clients.  A datagram of another program may be   *)
(* taken for a START_REQ that ends before the uid.                           *)
EXTENDS SessionManager

CONSTANTS Clients,   \* the addresses of clients; at the others are other programs
          UserOf,    \* UserOf[a]: the uid the client at address a asks for
          Binds,     \* what bind() may answer the server: {TRUE} or {TRUE, FALSE}
          Networks,  \* what networks do: lose datagrams, duplicate some, bring stray ones
          BootMax,   \* how often the server is started; its last run does not end
          Reported   \* whether a client's ReceiveFrom throws on "port unreachable"

ASSUME ConnectionAssumption ==
    /\ Clients \subseteq Address /\ UserOf \in [Clients -> Uid]
    /\ NoAddress \notin Address
    /\ Networks \subseteq [lossy : BOOLEAN, dups : Nat, stray : SUBSET (Address \ Clients)]
    /\ Binds \subseteq BOOLEAN /\ Reported \in BOOLEAN
    /\ BootMax \in Nat

VARIABLES server,  \* the server process: its state and how often it was started
          client,  \* client[a]: the client whose socket has address a
          net,     \* the datagrams in flight
          copies,  \* datagrams duplicated so far
          network  \* what the network of this behaviour does

connVars == <<mgr, server, client, net, copies, network>>

(* boot tells which run of the server a sid comes from; the code does not    *)
(* have it.  0 stands for a sid no server issued.                            *)
Boot == 0 .. BootMax

StartReq(a) == [kind |-> "StartReq", from |-> a]
StartRsp(a, sid, boot) == [kind |-> "StartRsp", to |-> a, sid |-> sid, boot |-> boot]
Unreachable(a) == [kind |-> "Unreachable", to |-> a]
Short(a) == [kind |-> "Short", from |-> a]

Datagram == {StartReq(a) : a \in Clients} \cup {Unreachable(a) : a \in Address}
            \cup {Short(a) : a \in Address \ Clients}
            \cup {StartRsp(a, k, b) : a \in Address, k \in Sid, b \in Boot}

Client == [state : {"idle", "waiting", "connected"}, sid : Sid \cup {NoSid}, boot : Boot]

ConnTypeOK == /\ mgr \in Manager
              /\ server \in [state : {"off", "deaf", "on"}, boot : Boot]
              /\ client \in [Clients -> Client]
              /\ net \subseteq Datagram
              /\ network \in Networks
              /\ copies \in 0 .. network.dups

ConnInit == /\ mgr = NewManager
            /\ server = [state |-> "off", boot |-> 0]
            /\ client = [a \in Clients |-> [state |-> "idle", sid |-> NoSid, boot |-> 0]]
            /\ network \in Networks
            /\ net = {Short(a) : a \in network.stray}
            /\ copies = 0

-----------------------------------------------------------------------------
\* Faults: plausible mistakes in the operations below.

PeerNotSet(t, uid, from) == ProduceSession(t, uid)

\* need_create = false, the "reconnect" of the comments
SessionReused(t, uid, from) ==
    IF GetSessionByUid(t, uid) = NoSession
    THEN [ProduceSession(t, uid) EXCEPT !.session_map[NextSid(t)].peer = from]
    ELSE [t EXCEPT !.session_map[t.uid_sid_map[uid]].peer = from]

\* rsp.sid = startReq.sid, which the clients leave 0
SidEchoed(t, uid, boot) == StartRsp(GetSessionByUid(t, uid).peer, 0, boot)

\* the answer is sent before set_peer
AnsweredFirst(t, uid, boot) == StartRsp(NoAddress, GetSessionByUid(t, uid).sid, boot)
-----------------------------------------------------------------------------
\* The network: a datagram that is taken leaves net unless it is duplicated.

Rest(d, again) == IF again THEN net ELSE net \ {d}

Duplicates(again) == /\ again => copies < network.dups
                     /\ copies' = IF again THEN copies + 1 ELSE copies

Lose(d) == /\ network.lossy
           /\ net' = net \ {d}
           /\ UNCHANGED <<mgr, server, client, copies, network>>

-----------------------------------------------------------------------------
\* The server process.

\* main: a new process; a failed bind() is noted in m_error, which nobody
\* reads, and the blocking recvfrom() of the first Tick never returns.
Start(bound) == /\ server.state = "off" /\ server.boot < BootMax
                /\ server' = [state |-> IF bound THEN "on" ELSE "deaf",
                              boot |-> server.boot + 1]
                /\ mgr' = NewManager
                /\ UNCHANGED <<client, net, copies, network>>

Crash == /\ server.state # "off" /\ server.boot < BootMax
         /\ server' = [server EXCEPT !.state = "off"]
         /\ mgr' = NewManager
         /\ UNCHANGED <<client, net, copies, network>>

\* ProcessStart up to set_peer: the session the request gets.
SessionFor(t, uid, from) ==
    LET made == ProduceSession(t, uid)
    IN  [made EXCEPT !.session_map[made.uid_sid_map[uid]].peer = from]

\* The rest of ProcessStart: the answer goes to the peer of the session.
Answer(t, uid, boot) == LET s == GetSessionByUid(t, uid)
                        IN  StartRsp(s.peer, s.sid, boot)

\* Fault: the request of a user who has a session is taken and not answered.
RepeatIgnored(a, again) ==
    /\ server.state = "on"
    /\ StartReq(a) \in net
    /\ mgr.sid_gen < GenMax
    /\ IF GetSessionByUid(mgr, UserOf[a]) = NoSession
       THEN /\ mgr' = SessionFor(mgr, UserOf[a], a)
            /\ net' = Rest(StartReq(a), again) \cup {Answer(mgr', UserOf[a], server.boot)}
       ELSE /\ net' = Rest(StartReq(a), again)
            /\ UNCHANGED mgr
    /\ Duplicates(again)
    /\ UNCHANGED <<server, client, network>>

\* ReceivePackets takes the request of the client at a, ProcessStart serves it.
ProcessStart(a, again) ==
    /\ server.state = "on"
    /\ StartReq(a) \in net
    /\ mgr.sid_gen < GenMax
    /\ mgr' = SessionFor(mgr, UserOf[a], a)
    /\ net' = Rest(StartReq(a), again) \cup {Answer(mgr', UserOf[a], server.boot)}
    /\ Duplicates(again)
    /\ UNCHANGED <<server, client, network>>

\* SerializeRead fails and nobody looks: the uid is whatever the stack holds.
ProcessShort(a, uid) ==
    /\ server.state = "on"
    /\ Short(a) \in net
    /\ mgr.sid_gen < GenMax
    /\ mgr' = SessionFor(mgr, uid, a)
    /\ net' = (net \ {Short(a)}) \cup {Answer(mgr', uid, server.boot)}
    /\ UNCHANGED <<server, client, copies, network>>

\* The request finds no server: nobody at the port, or somebody else.
Refuse(a) == /\ server.state # "on"
             /\ StartReq(a) \in net
             /\ net' = (net \ {StartReq(a)})
                       \cup IF Reported /\ server.state = "off" THEN {Unreachable(a)} ELSE {}
             /\ UNCHANGED <<mgr, server, client, copies, network>>

-----------------------------------------------------------------------------
\* The clients.

\* EchoTest: one request, never repeated.
EchoTest(a) == /\ client[a].state = "idle"
               /\ client' = [client EXCEPT ![a].state = "waiting"]
               /\ net' = net \cup {StartReq(a)}
               /\ UNCHANGED <<mgr, server, copies, network>>

\* HanldeMsg decodes a sid from whatever comes first, without a look at cmd,
\* and closes the socket.
HanldeMsg(a, sid, boot) ==
    /\ client[a].state = "waiting"
    /\ client' = [client EXCEPT ![a] = [state |-> "connected", sid |-> sid, boot |-> boot]]
    /\ UNCHANGED <<mgr, server, network>>

Connected(a, again) == \E d \in net : /\ d.kind = "StartRsp"
                                      /\ d.to = a
                                      /\ HanldeMsg(a, d.sid, d.boot)
                                      /\ net' = Rest(d, again)
                                      /\ Duplicates(again)

\* ReceiveFrom throws, ReceieveData hands the empty buffer over: sid 0.
ReceiveFailed(a, again) == /\ Unreachable(a) \in net
                           /\ HanldeMsg(a, 0, 0)
                           /\ net' = Rest(Unreachable(a), again)
                           /\ Duplicates(again)

-----------------------------------------------------------------------------
ConnNext ==
    \/ \E bound \in Binds : Start(bound)
    \/ Crash
    \/ \E d \in net : Lose(d)
    \/ \E a \in Clients, again \in BOOLEAN :
          ProcessStart(a, again) \/ Connected(a, again) \/ ReceiveFailed(a, again)
    \/ \E a \in Clients : EchoTest(a) \/ Refuse(a)
    \/ \E a \in Address \ Clients, uid \in Uid : ProcessShort(a, uid)

ConnSpec == ConnInit /\ [][ConnNext]_connVars

(* main() calls Tick() for ever and Tick() takes every datagram there is; a  *)
(* client's thread polls until its socket is closed.  Nothing obliges the    *)
(* user to start a client or an operator to start the server.                *)
Fairness == \A a \in Clients :
               /\ WF_connVars(\E again \in BOOLEAN : ProcessStart(a, again))
               /\ WF_connVars(\E again \in BOOLEAN : Connected(a, again))

ConnFairSpec == ConnSpec /\ Fairness

-----------------------------------------------------------------------------
\* Properties.

\* The clients that got their sid from the server that is running.
Served == {a \in Clients : /\ client[a].state = "connected"
                           /\ client[a].boot = server.boot}

(* The session manager's tables agree although every operation is driven by  *)
(* datagrams in any order, some of them twice, and through restarts; and the *)
(* peer of a session, where the answers go, is a client of its user, or the  *)
(* program that sent a request cut short.                                    *)
PeersAreUsers ==
    /\ SessionsIndexed
    /\ \A k \in Sid : mgr.session_map[k] # NoSession =>
          \/ mgr.session_map[k].peer \in network.stray
          \/ /\ mgr.session_map[k].peer \in Clients
             /\ UserOf[mgr.session_map[k].peer] = mgr.session_map[k].uid

(* However requests and answers are duplicated, delayed and overtaken, the    *)
(* sid of any connected client is retired or names its own session, until the *)
(* identifiers wrap, with one exception: a client of an earlier run of the    *)
(* server, whose sid may be one that this run has given to somebody else, for *)
(* no message tells the runs apart.  The running server tells nobody sid 0,   *)
(* so the 0 of an empty buffer names nobody's session.                        *)
SidIsOwn ==
    server.state = "on" /\ NotWrapped =>
        \A a \in Clients : client[a].state = "connected" =>
            LET s == mgr.session_map[client[a].sid]
            IN  /\ client[a].sid = 0 => client[a].boot # server.boot
                /\ \/ s = NoSession
                   \/ s.uid = UserOf[a] /\ s.peer = a
                   \/ client[a].boot \in 1 .. server.boot - 1

(* Two clients of one run of the server, of one user or of two, never hold   *)
(* the same sid, until the identifiers wrap.                                 *)
SidsDistinct ==
    server.state = "on" /\ NotWrapped =>
        \A a, b \in Served : client[a].sid = client[b].sid => a = b

(* A user with a connected client has a session: a later request, from       *)
(* another device or a duplicate, replaces it and never ends it.             *)
UserServed ==
    server.state = "on" /\ NotWrapped =>
        \A a \in Served : GetSessionByUid(mgr, UserOf[a]) # NoSession

(* Until a datagram is duplicated, the session whose peer is a connected     *)
(* client is the one the client knows: none is left that nobody can name,    *)
(* not even when the identifiers wrap.                                       *)
NoOrphan ==
    copies = 0 =>
        \A k \in Sid, a \in Served :
            mgr.session_map[k] # NoSession /\ mgr.session_map[k].peer = a
                => client[a].sid = k

(* A request on its way to a server that keeps running is answered, and the  *)
(* client learns a sid, provided nothing is lost: ProcessStart never refuses *)
(* one, not even a user's second, and however often the server was restarted *)
(* before.                                                                   *)
RequestAnswered ==
    \A a \in Clients :
        (/\ ~network.lossy /\ server.state = "on" /\ server.boot = BootMax
         /\ client[a].state = "waiting" /\ StartReq(a) \in net)
            ~> client[a].state = "connected"
=============================================================================
