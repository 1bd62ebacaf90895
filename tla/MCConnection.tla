---------------------------- MODULE MCConnection ----------------------------
(* An instance of the handshake: three clients, two of them of one user, and *)
(* another program.                                                          *)
EXTENDS Connection

CONSTANTS u1, u2, a1, a2, a3, other

MCUserOf == [a \in Clients |-> IF a = a3 THEN u2 ELSE u1]
MCNetworks == {[lossy |-> FALSE, dups |-> 2, stray |-> {}],
               [lossy |-> TRUE,  dups |-> 1, stray |-> {}],
               [lossy |-> FALSE, dups |-> 0, stray |-> {other}]}
=============================================================================
