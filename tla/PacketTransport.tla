--------------------------- MODULE PacketTransport ----------------------------
(* What a protocol with checksums promises: whatever happens to a datagram on *)
(* its way, a packet that is delivered was sent.  It may be delivered late,   *)
(* twice or never.                                                            *)
CONSTANT Packet

VARIABLES sent,    \* the packets ever sent
          inbox    \* the packets the receiver has

Init == sent = {} /\ inbox = {}

Send(p) == /\ sent' = sent \cup {p}
           /\ UNCHANGED inbox

Deliver(p) == /\ p \in sent
              /\ inbox' = inbox \cup {p}
              /\ UNCHANGED sent

Release(p) == /\ inbox' = inbox \ {p}
              /\ UNCHANGED sent

Next == \E p \in Packet : Send(p) \/ Deliver(p) \/ Release(p)

Spec == Init /\ [][Next]_<<sent, inbox>>
=============================================================================
