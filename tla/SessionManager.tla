--------------------------- MODULE SessionManager ---------------------------
(* svr/library/networking/Session.{h,cpp}: the table of client sessions.     *)
(* Two hash maps, m_session_map (identifier to session) and m_uid_sid_map    *)
(* (user to identifier), and the generator sid_gen_, an int whose value is   *)
(* narrowed to a uint16_t when it becomes a session's identifier.            *)
(*                                                                           *)
(* A map is a total function that has NoSession or NoSid where find() would  *)
(* return end().  A Session* is the record it points to: the map holds the   *)
(* only pointer, so a session whose entry is overwritten is lost.            *)
EXTENDS Naturals

CONSTANTS Uid,        \* user identifiers (uint64_t)
          Address,    \* peer addresses
          NoAddress,  \* a default-constructed Address (ADDRESS_UNDEFINED)
          NoSession,  \* nullptr
          NoSid,      \* no entry in m_uid_sid_map
          SidSpace,   \* number of values of the uint16_t sid: 65536 in the code
          GenMax      \* bound on sid_gen_, for the state space

Sid == 0 .. SidSpace - 1

Session == [sid : Sid, uid : Uid, peer : Address \cup {NoAddress}]

ASSUME ManagerAssumption ==
    /\ SidSpace \in Nat /\ SidSpace > 1
    /\ GenMax \in Nat
    /\ NoSid \notin Sid
    /\ NoSession \notin Session

VARIABLE mgr  \* the SessionManager singleton

Manager == [session_map : [Sid -> Session \cup {NoSession}],
            uid_sid_map : [Uid -> Sid \cup {NoSid}],
            sid_gen : Nat,
            lost : Nat]    \* sessions allocated and no longer reachable

NewManager == [session_map |-> [k \in Sid |-> NoSession],
               uid_sid_map |-> [u \in Uid |-> NoSid],
               sid_gen |-> 0,
               lost |-> 0]

-----------------------------------------------------------------------------
\* Faults: plausible mistakes in the operations below; the runs show that
\* each of them is noticed by a property.

UserEntryKept(t, sid) == [t EXCEPT !.session_map[sid] = NoSession]
TailErased(t, sid) ==     \* erase(it, end())
    [t EXCEPT !.session_map = [k \in Sid |-> IF k < sid THEN @[k] ELSE NoSession]]
OldSessionKept(t, uid) == t
GenNotAdvanced(t) == t.sid_gen
-----------------------------------------------------------------------------
\* The operations, as functions of the manager's state t.

GetSession(t, sid) == t.session_map[sid]

GetSessionByUid(t, uid) ==
    IF t.uid_sid_map[uid] = NoSid THEN NoSession
    ELSE GetSession(t, t.uid_sid_map[uid])

\* Drop session sid with the entry of the user it was created for.
Remove(t, sid) ==
    [session_map |-> [t.session_map EXCEPT ![sid] = NoSession],
     uid_sid_map |-> [t.uid_sid_map EXCEPT ![t.session_map[sid].uid] = NoSid],
     sid_gen |-> t.sid_gen,
     lost |-> t.lost]

DestroySession(t, sid) ==
    IF GetSession(t, sid) = NoSession THEN t ELSE Remove(t, sid)

\* The first half of ProduceSession: end the session the user still has.
StopCurrent(t, uid) ==
    IF GetSessionByUid(t, uid) = NoSession THEN t
    ELSE DestroySession(t, GetSessionByUid(t, uid).sid)

NextGen(t) == t.sid_gen + 1

NextSid(t) == NextGen(t) % SidSpace

\* The second half: a new session takes the next identifier in both maps.
Enter(t, uid) ==
    [session_map |-> [t.session_map EXCEPT ![NextSid(t)] =
                         [sid |-> NextSid(t), uid |-> uid, peer |-> NoAddress]],
     uid_sid_map |-> [t.uid_sid_map EXCEPT ![uid] = NextSid(t)],
     sid_gen |-> NextGen(t),
     lost |-> t.lost + IF t.session_map[NextSid(t)] = NoSession THEN 0 ELSE 1]

ProduceSession(t, uid) == Enter(StopCurrent(t, uid), uid)

-----------------------------------------------------------------------------
\* The manager on its own, driven by any caller.

Init == mgr = NewManager

Produce(uid) == /\ mgr.sid_gen < GenMax
                /\ mgr' = ProduceSession(mgr, uid)

Destroy(sid) == mgr' = DestroySession(mgr, sid)

Next == \/ \E uid \in Uid : Produce(uid)
        \/ \E sid \in Sid : Destroy(sid)

Spec == Init /\ [][Next]_mgr

-----------------------------------------------------------------------------
\* Properties.

TypeOK == mgr \in Manager

(* Session.cpp keeps two maps in step by hand.  Every session in the table   *)
(* is filed under its own identifier and is the one its user's entry leads   *)
(* to, so a user has at most one session, whatever the order of the calls    *)
(* and even after the 16-bit identifier has wrapped around.                  *)
SessionsIndexed ==
    \A k \in Sid : mgr.session_map[k] # NoSession =>
                      /\ mgr.session_map[k].sid = k
                      /\ mgr.uid_sid_map[mgr.session_map[k].uid] = k

\* sid_gen_ still fits in the uint16_t of the identifier.
NotWrapped == mgr.sid_gen < SidSpace

(* As long as the identifier has not wrapped, the other direction holds too: *)
(* a user's entry leads to a session of that very user (GetSessionByUid      *)
(* never answers with somebody else's), and no allocated session was         *)
(* overwritten in the table and so lost.                                     *)
EntriesExact ==
    NotWrapped =>
       /\ mgr.lost = 0
       /\ \A u \in Uid : mgr.uid_sid_map[u] # NoSid =>
             /\ GetSessionByUid(mgr, u) # NoSession
             /\ GetSessionByUid(mgr, u).uid = u

(* What Server.cpp:82-87 takes for granted: a session found for a uid is an  *)
(* earlier session of that user, on this device (a reconnect) or another.    *)
FoundIsOwn ==
    \A u \in Uid : GetSessionByUid(mgr, u) # NoSession =>
                      GetSessionByUid(mgr, u).uid = u

(* The manager implements the registry while the identifiers last: a uid's   *)
(* session is what GetSessionByUid finds, the issued ones are 1 .. sid_gen_. *)
UserSession == [u \in Uid |-> IF GetSessionByUid(mgr, u) = NoSession THEN NoSid
                              ELSE GetSessionByUid(mgr, u).sid]

Registry == INSTANCE SessionRegistry
              WITH User <- Uid, SessionId <- Sid, NoSession <- NoSid,
                   session <- UserSession, issued <- 1 .. mgr.sid_gen

ImplementsRegistry == Registry!RegistrySpec
=============================================================================
