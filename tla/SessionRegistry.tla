-------------------------- MODULE SessionRegistry --------------------------
(* What the session manager promises its callers, free of tables and       *)
(* counters: every user has at most one session, a session identifier is   *)
(* handed out once and names one user for ever, and an operation on one    *)
(* user never touches the session of another.                              *)
EXTENDS Naturals

CONSTANTS User,       \* the users
          SessionId,  \* the identifiers a session may be given
          NoSession   \* the value of a user without a session

VARIABLES session,  \* session[u]: the identifier of u's session, or NoSession
          issued    \* the identifiers handed out so far

regVars == <<session, issued>>

RegistryTypeOK == /\ session \in [User -> SessionId \cup {NoSession}]
                  /\ issued \subseteq SessionId

RegistryInit == /\ session = [u \in User |-> NoSession]
                /\ issued = {}

\* A user connects, or connects again: an identifier nobody ever held.
Connect(u) == \E k \in SessionId \ issued :
                 /\ session' = [session EXCEPT ![u] = k]
                 /\ issued' = issued \cup {k}

\* The session of a user ends; its identifier is not reused.
Disconnect(u) == /\ session[u] # NoSession
                 /\ session' = [session EXCEPT ![u] = NoSession]
                 /\ UNCHANGED issued

RegistryNext == \E u \in User : Connect(u) \/ Disconnect(u)

RegistrySpec == RegistryInit /\ [][RegistryNext]_regVars

(* Two users never share a session: an identifier in use belongs to one    *)
(* user only, and it was issued.                                           *)
SessionsDistinct ==
    /\ \A u \in User : session[u] # NoSession => session[u] \in issued
    /\ \A u, v \in User : session[u] = session[v] /\ session[u] # NoSession => u = v
=============================================================================
