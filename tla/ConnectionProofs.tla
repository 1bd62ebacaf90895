-------------------------- MODULE ConnectionProofs --------------------------
(* Proofs about the session manager and about the handshake that uses it.    *)
(*                                                                           *)
(* The manager first: its type, the agreement of its two maps, and that it   *)
(* implements SessionRegistry while identifiers last.  Its operations are    *)
(* functions of a table t, so what each does to a consistent table is a      *)
(* lemma of its own; the theorems put them together.                         *)
(*                                                                           *)
(* Then the handshake: its type, whose sessions the server's table holds,    *)
(* and what a client that got a sid knows of the session it names.  What the *)
(* server does to the table is one operator, SessionFor, whose effect is a   *)
(* lemma.  The invariants speak of the table, the datagrams in flight and    *)
(* the clients together; each of the three builds on the one before it.      *)
EXTENDS Connection, TLAPS

(* What the operations preserve, of any table t.  The second half of Exact,  *)
(* no session beyond the generator, is what makes the next identifier free.  *)
Indexed(t) ==
    \A k \in Sid : t.session_map[k] # NoSession =>
                      /\ t.session_map[k].sid = k
                      /\ t.uid_sid_map[t.session_map[k].uid] = k

EntriesLead(t) ==
    \A u \in Uid : t.uid_sid_map[u] # NoSid =>
                      /\ t.session_map[t.uid_sid_map[u]] # NoSession
                      /\ t.session_map[t.uid_sid_map[u]].uid = u

KeysIssued(t) == \A k \in Sid : t.session_map[k] # NoSession => k \in 1 .. t.sid_gen

Exact(t) == t.sid_gen < SidSpace => t.lost = 0 /\ EntriesLead(t) /\ KeysIssued(t)

Consistent(t) == t \in Manager /\ Indexed(t) /\ Exact(t)

-----------------------------------------------------------------------------
(* An entry of the table is a session or absent. *)
LEMMA EntryType ==
    ASSUME NEW t \in Manager, NEW k \in Sid
    PROVE  /\ t.session_map[k] # NoSession => t.session_map[k] \in Session
           /\ t.session_map[k] # NoSession => t.session_map[k].uid \in Uid
  BY DEF Manager, Session

(* Remove takes one session and its user's entry out of a consistent table. *)
LEMMA RemoveConsistent ==
    ASSUME NEW t, Consistent(t), NEW sid \in Sid, t.session_map[sid] # NoSession
    PROVE  Consistent(Remove(t, sid))
  <1> DEFINE r == Remove(t, sid)
             owner == t.session_map[sid].uid
  <1>1. t \in Manager /\ Indexed(t) /\ Exact(t)
    BY DEF Consistent
  <1>2. owner \in Uid
    BY <1>1, EntryType
  <1>3. /\ r.session_map = [t.session_map EXCEPT ![sid] = NoSession]
        /\ r.uid_sid_map = [t.uid_sid_map EXCEPT ![owner] = NoSid]
        /\ r.sid_gen = t.sid_gen
        /\ r.lost = t.lost
    BY DEF Remove
  <1> HIDE DEF r, owner
  <1>4. /\ t.session_map \in [Sid -> Session \cup {NoSession}]
        /\ t.uid_sid_map \in [Uid -> Sid \cup {NoSid}]
        /\ t.sid_gen \in Nat /\ t.lost \in Nat
    BY <1>1 DEF Manager
  <1>5. r \in Manager
    BY <1>2, <1>4 DEF Manager, Remove, r, owner
  <1>6. Indexed(r)
    <2>1. SUFFICES ASSUME NEW k \in Sid, r.session_map[k] # NoSession
                   PROVE  /\ r.session_map[k].sid = k
                          /\ r.uid_sid_map[r.session_map[k].uid] = k
      BY DEF Indexed
    <2>2. k # sid /\ r.session_map[k] = t.session_map[k]
      BY <1>3, <1>4, <2>1
    <2>3. /\ t.session_map[k].sid = k
          /\ t.uid_sid_map[t.session_map[k].uid] = k
          /\ t.uid_sid_map[owner] = sid
      BY <1>1, <2>1, <2>2 DEF Indexed, owner
    <2>4. t.session_map[k].uid # owner
      BY <2>2, <2>3
    <2>5. t.session_map[k].uid \in Uid
      BY <1>1, <2>1, <2>2, EntryType
    <2> QED
      BY <1>2, <1>3, <1>4, <2>2, <2>3, <2>4, <2>5
  <1>7. Exact(r)
    <2>1. SUFFICES ASSUME r.sid_gen < SidSpace
                   PROVE  r.lost = 0 /\ EntriesLead(r) /\ KeysIssued(r)
      BY DEF Exact
    <2>2. t.lost = 0 /\ EntriesLead(t) /\ KeysIssued(t)
      BY <1>1, <1>3, <2>1 DEF Exact
    <2>3. KeysIssued(r)
      BY <1>3, <1>4, <2>2 DEF KeysIssued
    <2>4. ASSUME NEW u \in Uid, r.uid_sid_map[u] # NoSid
          PROVE  /\ r.session_map[r.uid_sid_map[u]] # NoSession
                 /\ r.session_map[r.uid_sid_map[u]].uid = u
      <3>1. u # owner /\ r.uid_sid_map[u] = t.uid_sid_map[u]
        BY <1>2, <1>3, <1>4, <2>4
      <3>2. /\ t.session_map[t.uid_sid_map[u]] # NoSession
            /\ t.session_map[t.uid_sid_map[u]].uid = u
            /\ t.uid_sid_map[u] \in Sid
        BY <1>4, <2>2, <2>4, <3>1 DEF EntriesLead
      <3>3. t.uid_sid_map[u] # sid
        BY <3>1, <3>2 DEF owner
      <3> QED
        BY <1>3, <1>4, <3>1, <3>2, <3>3
    <2> QED
      BY <1>3, <2>2, <2>3, <2>4 DEF EntriesLead
  <1> QED
    BY <1>5, <1>6, <1>7 DEF Consistent, r

(* The session GetSessionByUid finds is filed under its own identifier. *)
LEMMA FoundFiled ==
    ASSUME NEW t, Consistent(t), NEW uid \in Uid, GetSessionByUid(t, uid) # NoSession
    PROVE  /\ t.uid_sid_map[uid] \in Sid
           /\ GetSessionByUid(t, uid) = t.session_map[t.uid_sid_map[uid]]
           /\ GetSessionByUid(t, uid).sid = t.uid_sid_map[uid]
  <1>1. t.uid_sid_map[uid] \in Sid
    BY DEF Consistent, Manager, GetSessionByUid
  <1> QED
    BY <1>1 DEF Consistent, Indexed, GetSessionByUid, GetSession

(* After StopCurrent no session of the user is left. *)
NoneOf(t, uid) == \A k \in Sid : t.session_map[k] # NoSession => t.session_map[k].uid # uid

LEMMA StopCurrentConsistent ==
    ASSUME NEW t, Consistent(t), NEW uid \in Uid
    PROVE  /\ Consistent(StopCurrent(t, uid))
           /\ StopCurrent(t, uid).sid_gen = t.sid_gen
           /\ NoneOf(StopCurrent(t, uid), uid)
  <1> DEFINE e == t.uid_sid_map[uid]
  <1>1. CASE GetSessionByUid(t, uid) = NoSession
    <2>1. StopCurrent(t, uid) = t
      BY <1>1 DEF StopCurrent
    <2>2. NoneOf(t, uid)
      BY <1>1, ManagerAssumption
         DEF NoneOf, Consistent, Indexed, GetSessionByUid, GetSession
    <2> QED
      BY <2>1, <2>2
  <1>2. CASE GetSessionByUid(t, uid) # NoSession
    <2>1. /\ e \in Sid
          /\ t.session_map[e] # NoSession
          /\ GetSessionByUid(t, uid).sid = e
      BY <1>2, FoundFiled
    <2>2. StopCurrent(t, uid) = Remove(t, e)
      BY <1>2, <2>1 DEF StopCurrent, DestroySession, GetSession
    <2>3. Consistent(Remove(t, e)) /\ Remove(t, e).sid_gen = t.sid_gen
      BY <2>1, RemoveConsistent DEF Remove
    <2>4. NoneOf(Remove(t, e), uid)
      BY <2>1 DEF NoneOf, Remove, Consistent, Manager, Indexed
    <2> QED
      BY <2>2, <2>3, <2>4
  <1> QED
    BY <1>1, <1>2

(* The narrowed identifier is one, and is the generator's until it wraps. *)
LEMMA NextSidType ==
    ASSUME NEW t \in Manager
    PROVE  /\ NextSid(t) \in Sid
           /\ NextGen(t) < SidSpace => NextSid(t) = t.sid_gen + 1
           /\ NextGen(t) \in Nat
  <1>1. t.sid_gen \in Nat /\ SidSpace \in Nat /\ SidSpace > 1
    BY ManagerAssumption DEF Manager
  <1> QED
    BY <1>1 DEF NextSid, NextGen, Sid

LEMMA EnterConsistent ==
    ASSUME NEW t, Consistent(t), NEW uid \in Uid, NoneOf(t, uid)
    PROVE  Consistent(Enter(t, uid))
  <1> DEFINE r == Enter(t, uid)
             n == NextSid(t)
             s == [sid |-> n, uid |-> uid, peer |-> NoAddress]
  <1>1. /\ t.session_map \in [Sid -> Session \cup {NoSession}]
        /\ t.uid_sid_map \in [Uid -> Sid \cup {NoSid}]
        /\ t.sid_gen \in Nat /\ t.lost \in Nat
        /\ t \in Manager /\ Indexed(t) /\ Exact(t)
    BY DEF Consistent, Manager
  <1>2. n \in Sid /\ (NextGen(t) < SidSpace => n = t.sid_gen + 1) /\ NextGen(t) \in Nat
    BY <1>1, NextSidType
  <1>3. s \in Session /\ s # NoSession
    BY <1>2, ManagerAssumption DEF Session
  <1>4. /\ r.session_map = [t.session_map EXCEPT ![n] = s]
        /\ r.uid_sid_map = [t.uid_sid_map EXCEPT ![uid] = n]
        /\ r.sid_gen = NextGen(t)
        /\ r.lost = t.lost + IF t.session_map[n] = NoSession THEN 0 ELSE 1
        /\ r = [session_map |-> r.session_map, uid_sid_map |-> r.uid_sid_map,
                sid_gen |-> r.sid_gen, lost |-> r.lost]
    BY DEF Enter
  <1>5. s.sid = n /\ s.uid = uid
    OBVIOUS
  <1> HIDE DEF r, n, s
  <1>6. r \in Manager
    <2>1. r.session_map \in [Sid -> Session \cup {NoSession}]
      BY <1>1, <1>3, <1>4
    <2>2. r.uid_sid_map \in [Uid -> Sid \cup {NoSid}]
      BY <1>1, <1>2, <1>4
    <2>3. r.sid_gen \in Nat /\ r.lost \in Nat
      BY <1>1, <1>2, <1>4
    <2> QED
      BY <1>4, <2>1, <2>2, <2>3 DEF Manager
  <1>7. Indexed(r)
    <2>1. SUFFICES ASSUME NEW k \in Sid, r.session_map[k] # NoSession
                   PROVE  /\ r.session_map[k].sid = k
                          /\ r.uid_sid_map[r.session_map[k].uid] = k
      BY DEF Indexed
    <2>2. CASE k = n
      BY <1>1, <1>2, <1>4, <1>5, <2>2
    <2>3. CASE k # n
      <3>1. r.session_map[k] = t.session_map[k]
        BY <1>1, <1>4, <2>3
      <3>2. /\ t.session_map[k].sid = k
            /\ t.uid_sid_map[t.session_map[k].uid] = k
            /\ t.session_map[k].uid # uid
            /\ t.session_map[k].uid \in Uid
        BY <1>1, <2>1, <3>1, EntryType DEF Indexed, NoneOf
      <3> QED
        BY <1>1, <1>4, <3>1, <3>2
    <2> QED
      BY <2>2, <2>3
  <1>8. Exact(r)
    <2>1. SUFFICES ASSUME r.sid_gen < SidSpace
                   PROVE  r.lost = 0 /\ EntriesLead(r) /\ KeysIssued(r)
      BY DEF Exact
    <2>2. n = t.sid_gen + 1 /\ r.sid_gen = t.sid_gen + 1
      BY <1>2, <1>4, <2>1 DEF NextGen
    <2>3. t.lost = 0 /\ EntriesLead(t) /\ KeysIssued(t)
      BY <1>1, <2>1, <2>2, ManagerAssumption DEF Exact
    <2>4. t.session_map[n] = NoSession
      BY <1>1, <1>2, <2>2, <2>3 DEF KeysIssued
    <2>5. r.lost = 0
      BY <1>4, <2>3, <2>4
    <2>6. KeysIssued(r)
      BY <1>1, <1>2, <1>4, <2>2, <2>3 DEF KeysIssued
    <2>7. ASSUME NEW u \in Uid, r.uid_sid_map[u] # NoSid
          PROVE  /\ r.session_map[r.uid_sid_map[u]] # NoSession
                 /\ r.session_map[r.uid_sid_map[u]].uid = u
      <3>1. CASE u = uid
        BY <1>1, <1>2, <1>3, <1>4, <1>5, <3>1
      <3>2. CASE u # uid
        <4>1. r.uid_sid_map[u] = t.uid_sid_map[u] /\ t.uid_sid_map[u] \in Sid
          BY <1>1, <1>4, <2>7, <3>2
        <4>2. /\ t.session_map[t.uid_sid_map[u]] # NoSession
              /\ t.session_map[t.uid_sid_map[u]].uid = u
          BY <2>3, <2>7, <4>1 DEF EntriesLead
        <4>3. t.uid_sid_map[u] # n
          BY <2>4, <4>2
        <4> QED
          BY <1>1, <1>4, <4>1, <4>2, <4>3
      <3> QED
        BY <3>1, <3>2
    <2> QED
      BY <2>5, <2>6, <2>7 DEF EntriesLead
  <1> QED
    BY <1>6, <1>7, <1>8 DEF Consistent, r

LEMMA ProduceConsistent ==
    ASSUME NEW t, Consistent(t), NEW uid \in Uid
    PROVE  Consistent(ProduceSession(t, uid))
  BY StopCurrentConsistent, EnterConsistent DEF ProduceSession

LEMMA DestroyConsistent ==
    ASSUME NEW t, Consistent(t), NEW sid \in Sid
    PROVE  Consistent(DestroySession(t, sid))
  BY RemoveConsistent DEF DestroySession, GetSession

LEMMA NewManagerConsistent == Consistent(NewManager)
  <1>1. NewManager \in Manager
    BY DEF NewManager, Manager
  <1>2. Indexed(NewManager) /\ Exact(NewManager)
    BY DEF NewManager, Indexed, Exact, EntriesLead, KeysIssued
  <1> QED
    BY <1>1, <1>2 DEF Consistent

-----------------------------------------------------------------------------
(* The inductive invariant: the manager's table is consistent. *)
LEMMA AlwaysConsistent == Spec => []Consistent(mgr)
  <1>1. Init => Consistent(mgr)
    BY NewManagerConsistent DEF Init
  <1>2. Consistent(mgr) /\ [Next]_mgr => Consistent(mgr)'
    <2>1. SUFFICES ASSUME Consistent(mgr), [Next]_mgr
                   PROVE  Consistent(mgr')
      BY DEF Consistent, Indexed, Exact, EntriesLead, KeysIssued, Manager
    <2>2. ASSUME NEW uid \in Uid, Produce(uid)
          PROVE  Consistent(mgr')
      BY <2>1, <2>2, ProduceConsistent DEF Produce
    <2>3. ASSUME NEW sid \in Sid, Destroy(sid)
          PROVE  Consistent(mgr')
      BY <2>1, <2>3, DestroyConsistent DEF Destroy
    <2>4. CASE UNCHANGED mgr
      BY <2>1, <2>4
    <2> QED
      BY <2>1, <2>2, <2>3, <2>4 DEF Next
  <1> QED
    BY <1>1, <1>2, PTL DEF Spec

(* Type correctness: whatever the callers do, both maps hold what their      *)
(* types in Session.h say.                                                   *)
THEOREM TypeCorrect == Spec => []TypeOK
  <1>1. Consistent(mgr) => TypeOK
    BY DEF Consistent, TypeOK
  <1> QED
    BY <1>1, AlwaysConsistent, PTL

(* For any number of users and identifiers, and however often the            *)
(* identifier wraps around, every session is filed under its own identifier  *)
(* and is the one its user's entry leads to.                                 *)
THEOREM MapsAgree == Spec => []SessionsIndexed
  <1>1. Consistent(mgr) => SessionsIndexed
    BY DEF Consistent, Indexed, SessionsIndexed
  <1> QED
    BY <1>1, AlwaysConsistent, PTL

(* Until sid_gen_ outgrows the uint16_t, a user's entry leads to a session   *)
(* of that very user and no session is lost.                                 *)
THEOREM EntriesAgree == Spec => []EntriesExact
  <1>1. Consistent(mgr) => EntriesExact
    BY DEF Consistent, Exact, EntriesLead, EntriesExact, NotWrapped,
           GetSessionByUid, GetSession
  <1> QED
    BY <1>1, AlwaysConsistent, PTL

-----------------------------------------------------------------------------
(* The refinement.  Before the wrap, what GetSessionByUid finds for the      *)
(* users is the map m_uid_sid_map itself.                                    *)
Found(t) == [u \in Uid |-> IF GetSessionByUid(t, u) = NoSession THEN NoSid
                           ELSE GetSessionByUid(t, u).sid]

LEMMA FoundIsMap ==
    ASSUME NEW t, Consistent(t), t.sid_gen < SidSpace
    PROVE  Found(t) = t.uid_sid_map
  <1>1. t.uid_sid_map \in [Uid -> Sid \cup {NoSid}] /\ EntriesLead(t)
    BY DEF Consistent, Manager, Exact
  <1>2. ASSUME NEW u \in Uid
        PROVE  Found(t)[u] = t.uid_sid_map[u]
    <2>1. CASE t.uid_sid_map[u] = NoSid
      BY <2>1 DEF Found, GetSessionByUid
    <2>2. CASE t.uid_sid_map[u] # NoSid
      <3>1. GetSessionByUid(t, u) # NoSession
        BY <1>1, <2>2 DEF EntriesLead, GetSessionByUid, GetSession
      <3> QED
        BY <3>1, FoundFiled DEF Found
    <2> QED
      BY <2>1, <2>2
  <1> QED
    BY <1>1, <1>2 DEF Found

(* StopCurrent touches the entry of its own user only. *)
LEMMA StopCurrentEntries ==
    ASSUME NEW t, Consistent(t), t.sid_gen < SidSpace, NEW uid \in Uid
    PROVE  \A k : [StopCurrent(t, uid).uid_sid_map EXCEPT ![uid] = k]
                     = [t.uid_sid_map EXCEPT ![uid] = k]
  <1> DEFINE e == t.uid_sid_map[uid]
  <1>1. CASE GetSessionByUid(t, uid) = NoSession
    BY <1>1 DEF StopCurrent
  <1>2. CASE GetSessionByUid(t, uid) # NoSession
    <2>1. /\ e \in Sid
          /\ t.session_map[e] # NoSession
          /\ GetSessionByUid(t, uid).sid = e
      BY <1>2, FoundFiled
    <2>2. StopCurrent(t, uid) = Remove(t, e)
      BY <1>2, <2>1 DEF StopCurrent, DestroySession, GetSession
    <2>3. t.session_map[e].uid = uid
      BY <2>1, ManagerAssumption DEF Consistent, Exact, EntriesLead
    <2>4. StopCurrent(t, uid).uid_sid_map = [t.uid_sid_map EXCEPT ![uid] = NoSid]
      BY <2>2, <2>3 DEF Remove
    <2> QED
      BY <2>4 DEF Consistent, Manager
  <1> QED
    BY <1>1, <1>2

(* Until identifiers run out, the manager implements SessionRegistry: a new  *)
(* session of a user is a Connect with an identifier nobody had, and the end *)
(* of a session is a Disconnect of its owner, each seen by one user only.    *)
THEOREM RegistryImplemented ==
    ASSUME GenMax < SidSpace
    PROVE  Spec => ImplementsRegistry
  <1> DEFINE Inv == Consistent(mgr) /\ mgr.sid_gen <= GenMax
  <1>1. Spec => [](mgr.sid_gen <= GenMax)
    <2>1. Init => mgr.sid_gen <= GenMax
      BY ManagerAssumption DEF Init, NewManager
    <2>2. Consistent(mgr) /\ mgr.sid_gen <= GenMax /\ [Next]_mgr
            => (mgr.sid_gen <= GenMax)'
      <3>1. SUFFICES ASSUME Consistent(mgr), mgr.sid_gen <= GenMax, [Next]_mgr
                     PROVE  mgr'.sid_gen <= GenMax
        OBVIOUS
      <3>2. mgr.sid_gen \in Nat /\ GenMax \in Nat
        BY <3>1, ManagerAssumption DEF Consistent, Manager
      <3>3. ASSUME NEW uid \in Uid, Produce(uid)
            PROVE  mgr'.sid_gen <= GenMax
        BY <3>1, <3>2, <3>3, StopCurrentConsistent
           DEF Produce, ProduceSession, Enter, NextGen
      <3>4. ASSUME NEW sid \in Sid, Destroy(sid)
            PROVE  mgr'.sid_gen <= GenMax
        BY <3>1, <3>4 DEF Destroy, DestroySession, Remove
      <3> QED
        BY <3>1, <3>3, <3>4 DEF Next
    <2> QED
      BY <2>1, <2>2, AlwaysConsistent, PTL DEF Spec
  <1>2. Init => Registry!RegistryInit
    <2>1. SUFFICES ASSUME Init
                   PROVE  Registry!RegistryInit
      OBVIOUS
    <2>2. mgr.sid_gen = 0 /\ \A u \in Uid : GetSessionByUid(mgr, u) = NoSession
      BY <2>1 DEF Init, NewManager, GetSessionByUid
    <2> QED
      BY <2>2 DEF Registry!RegistryInit, UserSession
  <1>3. Inv /\ Inv' /\ [Next]_mgr => [Registry!RegistryNext]_Registry!regVars
    <2>1. SUFFICES ASSUME Inv, Inv', [Next]_mgr
                   PROVE  [Registry!RegistryNext]_Registry!regVars
      OBVIOUS
    <2>2. /\ Consistent(mgr) /\ Consistent(mgr')
          /\ mgr.sid_gen < SidSpace /\ mgr'.sid_gen < SidSpace
          /\ mgr.sid_gen \in Nat /\ mgr'.sid_gen \in Nat
      BY <2>1, ManagerAssumption
         DEF Consistent, Manager, Indexed, Exact, EntriesLead, KeysIssued
    <2>3. UserSession = mgr.uid_sid_map /\ UserSession' = mgr'.uid_sid_map
      <3>1. UserSession = Found(mgr) /\ UserSession' = Found(mgr')
        BY DEF UserSession, Found, GetSessionByUid, GetSession
      <3> QED
        BY <2>2, <3>1, FoundIsMap
    <2>4. ASSUME NEW uid \in Uid, Produce(uid)
          PROVE  Registry!Connect(uid)
      <3> DEFINE t == StopCurrent(mgr, uid)
      <3>1. t.sid_gen = mgr.sid_gen /\ Consistent(t)
        BY <2>2, StopCurrentConsistent
      <3>2. mgr' = Enter(t, uid)
        BY <2>4 DEF Produce, ProduceSession
      <3> HIDE DEF t
      <3>3. mgr'.sid_gen = mgr.sid_gen + 1
        BY <3>1, <3>2 DEF Enter, NextGen
      <3>4. NextSid(t) = mgr.sid_gen + 1 /\ mgr.sid_gen + 1 \in Sid
        BY <2>2, <3>1, <3>3, NextSidType DEF NextGen, Consistent, Sid
      <3>5. mgr'.uid_sid_map = [mgr.uid_sid_map EXCEPT ![uid] = mgr.sid_gen + 1]
        BY <2>2, <3>2, <3>4, StopCurrentEntries DEF Enter, t
      <3>6. /\ mgr.sid_gen + 1 \in Sid \ (1 .. mgr.sid_gen)
            /\ 1 .. mgr'.sid_gen = (1 .. mgr.sid_gen) \cup {mgr.sid_gen + 1}
        BY <2>2, <3>3, <3>4
      <3> QED
        BY <2>3, <3>5, <3>6 DEF Registry!Connect
    <2>5. ASSUME NEW sid \in Sid, Destroy(sid)
          PROVE  UNCHANGED mgr \/ \E u \in Uid : Registry!Disconnect(u)
      <3>1. CASE mgr.session_map[sid] = NoSession
        BY <2>5, <3>1 DEF Destroy, DestroySession, GetSession
      <3>2. CASE mgr.session_map[sid] # NoSession
        <4> DEFINE owner == mgr.session_map[sid].uid
        <4>1. owner \in Uid /\ mgr.uid_sid_map[owner] = sid
          BY <2>2, <3>2, EntryType DEF Consistent, Indexed
        <4>2. mgr' = Remove(mgr, sid)
          BY <2>5, <3>2 DEF Destroy, DestroySession, GetSession
        <4>3. /\ mgr'.uid_sid_map = [mgr.uid_sid_map EXCEPT ![owner] = NoSid]
              /\ mgr'.sid_gen = mgr.sid_gen
          BY <4>2 DEF Remove
        <4>4. Registry!Disconnect(owner)
          BY <2>3, <4>1, <4>3, ManagerAssumption DEF Registry!Disconnect
        <4> QED
          BY <4>1, <4>4
      <3> QED
        BY <3>1, <3>2
    <2>6. CASE UNCHANGED mgr
      BY <2>3, <2>6 DEF Registry!regVars
    <2> QED
      BY <2>1, <2>4, <2>5, <2>6 DEF Next, Registry!RegistryNext
  <1> QED
    BY <1>1, <1>2, <1>3, AlwaysConsistent, PTL
       DEF Spec, ImplementsRegistry, Registry!RegistrySpec

-----------------------------------------------------------------------------
(* The registry's own specification keeps its sessions distinct, in any      *)
(* number of connects and disconnects.                                       *)
LEMMA RegistryDistinct == Registry!RegistrySpec => []Registry!SessionsDistinct
  <1> DEFINE Inv == /\ UserSession \in [Uid -> Sid \cup {NoSid}]
                    /\ Registry!SessionsDistinct
  <1>1. Registry!RegistryInit => Inv
    BY DEF Registry!RegistryInit, Registry!SessionsDistinct
  <1>2. Inv /\ [Registry!RegistryNext]_Registry!regVars => Inv'
    <2>1. SUFFICES ASSUME Inv, [Registry!RegistryNext]_Registry!regVars
                   PROVE  Inv'
      OBVIOUS
    <2>2. ASSUME NEW u \in Uid, Registry!Connect(u)
          PROVE  Inv'
      BY <2>1, <2>2 DEF Registry!Connect, Registry!SessionsDistinct
    <2>3. ASSUME NEW u \in Uid, Registry!Disconnect(u)
          PROVE  Inv'
      BY <2>1, <2>3 DEF Registry!Disconnect, Registry!SessionsDistinct
    <2>4. CASE UNCHANGED Registry!regVars
      BY <2>1, <2>4 DEF Registry!regVars, Registry!SessionsDistinct
    <2> QED
      BY <2>1, <2>2, <2>3, <2>4 DEF Registry!RegistryNext
  <1> QED
    BY <1>1, <1>2, PTL DEF Registry!RegistrySpec

(* What the manager inherits by implementing the registry: however sessions  *)
(* are produced, replaced and destroyed, no two users hold one session while *)
(* identifiers last.                                                         *)
THEOREM SessionsAlwaysDistinct ==
    ASSUME GenMax < SidSpace
    PROVE  Spec => []Registry!SessionsDistinct
  BY RegistryImplemented, RegistryDistinct, PTL DEF ImplementsRegistry

-----------------------------------------------------------------------------
(* Of the sessions there were, those in the table after ProduceSession are   *)
(* as they were, and are other users'; the new one has the next identifier.  *)
LEMMA ProduceEffect ==
    ASSUME NEW t, Consistent(t), NEW uid \in Uid
    PROVE  LET r == ProduceSession(t, uid)
               n == NextSid(t)
           IN  /\ Consistent(r)
               /\ n \in Sid
               /\ r.sid_gen = t.sid_gen + 1
               /\ r.session_map[n] = [sid |-> n, uid |-> uid, peer |-> NoAddress]
               /\ r.uid_sid_map[uid] = n
               /\ \A k \in Sid : k # n /\ r.session_map[k] # NoSession =>
                                    r.session_map[k] = t.session_map[k]
  <1> DEFINE c == StopCurrent(t, uid)
             r == ProduceSession(t, uid)
             n == NextSid(t)
  <1>1. /\ Consistent(c) /\ c.sid_gen = t.sid_gen
        /\ t \in Manager /\ c \in Manager
    BY StopCurrentConsistent DEF Consistent
  <1>2. \A k \in Sid : c.session_map[k] # NoSession => c.session_map[k] = t.session_map[k]
    <2>1. CASE GetSessionByUid(t, uid) = NoSession
      BY <2>1 DEF StopCurrent
    <2>2. CASE GetSessionByUid(t, uid) # NoSession
      <3>1. /\ t.uid_sid_map[uid] \in Sid
            /\ t.session_map[t.uid_sid_map[uid]] # NoSession
            /\ GetSessionByUid(t, uid).sid = t.uid_sid_map[uid]
        BY <2>2, FoundFiled
      <3>2. c = Remove(t, t.uid_sid_map[uid])
        BY <2>2, <3>1 DEF StopCurrent, DestroySession, GetSession
      <3> QED
        BY <1>1, <3>2 DEF Remove, Manager
    <2> QED
      BY <2>1, <2>2
  <1>3. n \in Sid /\ NextSid(c) = n /\ NextGen(c) = t.sid_gen + 1
    BY <1>1, NextSidType DEF NextSid, NextGen
  <1>4. Consistent(r) /\ r = Enter(c, uid)
    BY ProduceConsistent DEF ProduceSession
  <1>5. /\ r.session_map = [c.session_map EXCEPT ![n] =
                              [sid |-> n, uid |-> uid, peer |-> NoAddress]]
        /\ r.uid_sid_map = [c.uid_sid_map EXCEPT ![uid] = n]
        /\ r.sid_gen = t.sid_gen + 1
    BY <1>3, <1>4 DEF Enter
  <1>6. /\ DOMAIN c.session_map = Sid
        /\ DOMAIN c.uid_sid_map = Uid
    BY <1>1 DEF Manager
  <1> HIDE DEF c, r, n
  <1>7. ASSUME NEW k \in Sid, k # n, r.session_map[k] # NoSession
        PROVE  r.session_map[k] = t.session_map[k]
    BY <1>2, <1>5, <1>6, <1>7
  <1> QED
    BY <1>3, <1>4, <1>5, <1>6, <1>7 DEF n, r

(* SessionFor makes a session of the user with the next identifier and the   *)
(* requester as its peer; the other sessions left are as they were.          *)
LEMMA SessionForEffect ==
    ASSUME NEW t, Consistent(t), NEW uid \in Uid, NEW from \in Address
    PROVE  LET r == SessionFor(t, uid, from)
               n == NextSid(t)
           IN  /\ Consistent(r)
               /\ n \in Sid
               /\ r.sid_gen = t.sid_gen + 1
               /\ r.session_map[n] = [sid |-> n, uid |-> uid, peer |-> from]
               /\ r.uid_sid_map[uid] = n
               /\ \A k \in Sid : k # n /\ r.session_map[k] # NoSession =>
                                    r.session_map[k] = t.session_map[k]
  <1> DEFINE m == ProduceSession(t, uid)
             r == SessionFor(t, uid, from)
             n == NextSid(t)
             old == [sid |-> n, uid |-> uid, peer |-> NoAddress]
             s == [sid |-> n, uid |-> uid, peer |-> from]
  <1>1. /\ Consistent(m)
        /\ n \in Sid
        /\ m.sid_gen = t.sid_gen + 1
        /\ m.session_map[n] = old
        /\ m.uid_sid_map[uid] = n
        /\ \A k \in Sid : k # n /\ m.session_map[k] # NoSession =>
                             m.session_map[k] = t.session_map[k]
    BY ProduceEffect
  <1>2. /\ m.session_map \in [Sid -> Session \cup {NoSession}]
        /\ m.uid_sid_map \in [Uid -> Sid \cup {NoSid}]
        /\ m.sid_gen \in Nat /\ m.lost \in Nat
        /\ m \in Manager /\ Indexed(m) /\ Exact(m)
    BY <1>1 DEF Consistent, Manager
  <1>3. /\ s \in Session /\ s # NoSession
        /\ old \in Session /\ old # NoSession
    BY <1>1, ManagerAssumption DEF Session
  <1>4. s = [old EXCEPT !.peer = from]
    OBVIOUS
  <1>5. r = [m EXCEPT !.session_map = [m.session_map EXCEPT ![n] = s]]
    BY <1>1, <1>2, <1>4 DEF SessionFor
  <1>6. /\ r.session_map = [m.session_map EXCEPT ![n] = s]
        /\ r.uid_sid_map = m.uid_sid_map
        /\ r.sid_gen = m.sid_gen
        /\ r.lost = m.lost
        /\ r = [session_map |-> r.session_map, uid_sid_map |-> r.uid_sid_map,
                sid_gen |-> r.sid_gen, lost |-> r.lost]
    BY <1>2, <1>5 DEF Manager
  <1>7. /\ s.sid = n /\ s.uid = uid
        /\ old.sid = n /\ old.uid = uid
    OBVIOUS
  <1> HIDE DEF m, r, n, s, old
  <1>8. r.session_map \in [Sid -> Session \cup {NoSession}]
    BY <1>2, <1>3, <1>6
  <1>9. /\ r.session_map[n] = s
        /\ \A k \in Sid : k # n => r.session_map[k] = m.session_map[k]
    BY <1>1, <1>2, <1>6
  <1>10. r \in Manager
    BY <1>2, <1>6, <1>8 DEF Manager
  <1>11. Indexed(r)
    BY <1>1, <1>2, <1>3, <1>6, <1>7, <1>9 DEF Indexed
  <1>12. Exact(r)
    <2>1. SUFFICES ASSUME r.sid_gen < SidSpace
                   PROVE  r.lost = 0 /\ EntriesLead(r) /\ KeysIssued(r)
      BY DEF Exact
    <2>2. m.lost = 0 /\ EntriesLead(m) /\ KeysIssued(m)
      BY <1>2, <1>6, <2>1 DEF Exact
    <2>3. EntriesLead(r)
      BY <1>1, <1>2, <1>3, <1>6, <1>7, <1>9, <2>2 DEF EntriesLead
    <2>4. KeysIssued(r)
      BY <1>1, <1>3, <1>6, <1>9, <2>2 DEF KeysIssued
    <2> QED
      BY <1>6, <2>2, <2>3, <2>4
  <1>13. Consistent(r)
    BY <1>10, <1>11, <1>12 DEF Consistent
  <1> QED
    BY <1>1, <1>6, <1>9, <1>13 DEF r, n, s

(* The answer goes to the requester and names the new session. *)
LEMMA AnswerEffect ==
    ASSUME NEW t, Consistent(t), NEW uid \in Uid, NEW from \in Address, NEW boot
    PROVE  Answer(SessionFor(t, uid, from), uid, boot) = StartRsp(from, NextSid(t), boot)
  <1> DEFINE r == SessionFor(t, uid, from)
             n == NextSid(t)
  <1>1. /\ n \in Sid
        /\ r.session_map[n] = [sid |-> n, uid |-> uid, peer |-> from]
        /\ r.uid_sid_map[uid] = n
    BY SessionForEffect
  <1> HIDE DEF r, n
  <1>2. GetSessionByUid(r, uid) = r.session_map[n]
    BY <1>1, ManagerAssumption DEF GetSessionByUid, GetSession
  <1>3. Answer(r, uid, boot) = StartRsp(from, n, boot)
    BY <1>1, <1>2 DEF Answer
  <1> QED
    BY <1>3 DEF r, n

(* Until the identifier wraps, who had a session still has one. *)
LEMMA EntriesKept ==
    ASSUME NEW t, Consistent(t), t.sid_gen < SidSpace, NEW uid \in Uid,
           NEW from \in Address, NEW u \in Uid, t.uid_sid_map[u] # NoSid
    PROVE  SessionFor(t, uid, from).uid_sid_map[u] # NoSid
  <1> DEFINE c == StopCurrent(t, uid)
             m == ProduceSession(t, uid)
             n == NextSid(t)
  <1>1. Consistent(c) /\ c.sid_gen = t.sid_gen /\ n \in Sid /\ t \in Manager
    BY StopCurrentConsistent, NextSidType DEF Consistent
  <1>2. NextSid(c) = n
    BY <1>1 DEF NextSid, NextGen
  <1>3. m.uid_sid_map = [c.uid_sid_map EXCEPT ![uid] = n]
    BY <1>2 DEF ProduceSession, Enter
  <1>4. m.uid_sid_map = [t.uid_sid_map EXCEPT ![uid] = n]
    BY <1>3, StopCurrentEntries
  <1>5. DOMAIN t.uid_sid_map = Uid
    BY <1>1 DEF Manager
  <1>6. SessionFor(t, uid, from).uid_sid_map = m.uid_sid_map
    BY DEF SessionFor, ProduceSession, Enter
  <1> HIDE DEF m, n
  <1> QED
    BY <1>1, <1>4, <1>5, <1>6, ManagerAssumption

-----------------------------------------------------------------------------
(* The first invariant: types; the table is consistent, and empty while no   *)
(* server serves; its sessions' peers are known; no datagram and no client   *)
(* has an answer of a run of the server that is still to come; a client that *)
(* got none of any run has sid 0.                                            *)
PeersKnown ==
    \A k \in Sid : mgr.session_map[k] # NoSession =>
       \/ mgr.session_map[k].peer \in network.stray
       \/ /\ mgr.session_map[k].peer \in Clients
          /\ UserOf[mgr.session_map[k].peer] = mgr.session_map[k].uid

RunsPast ==
    /\ server.state = "on" => server.boot > 0
    /\ \A a \in Clients : /\ client[a].boot <= server.boot
                          /\ client[a].state = "connected" =>
                                client[a].sid \in Sid /\ (client[a].boot = 0 => client[a].sid = 0)
    /\ \A d \in net : d.kind = "StartRsp" => d.boot \in 1 .. server.boot

TableInv == /\ ConnTypeOK
            /\ Consistent(mgr)
            /\ server.state # "on" => mgr = NewManager
            /\ PeersKnown
            /\ \A d \in net : d.kind = "Short" => d.from \in network.stray
            /\ RunsPast

LEMMA TableInit == ConnInit => TableInv
  <1> SUFFICES ASSUME ConnInit PROVE TableInv
    OBVIOUS
  <1>1. Consistent(mgr) /\ mgr \in Manager
    BY NewManagerConsistent DEF ConnInit, Consistent
  <1>2. network \in Networks /\ network.dups \in Nat /\ network.stray \subseteq Address \ Clients
    BY ConnectionAssumption DEF ConnInit
  <1>3. ConnTypeOK
    <2>1. server \in [state : {"off", "deaf", "on"}, boot : Boot]
      BY ConnectionAssumption DEF ConnInit, Boot
    <2>2. client \in [Clients -> Client]
      BY ConnectionAssumption DEF ConnInit, Client, Boot
    <2>3. net \subseteq Datagram
      BY <1>2 DEF ConnInit, Datagram
    <2>4. copies \in 0 .. network.dups
      BY <1>2 DEF ConnInit
    <2> QED
      BY <1>1, <1>2, <2>1, <2>2, <2>3, <2>4 DEF ConnTypeOK
  <1>4. PeersKnown
    BY DEF ConnInit, PeersKnown, NewManager
  <1>5. RunsPast
    BY DEF ConnInit, RunsPast, Short
  <1>6. \A d \in net : d.kind = "Short" => d.from \in network.stray
    BY DEF ConnInit, Short
  <1> QED
    BY <1>1, <1>3, <1>4, <1>5, <1>6 DEF TableInv, ConnInit

(* A request that is served: the table stays consistent and its peers known. *)
LEMMA ServeTable ==
    ASSUME TableInv, UNCHANGED network,
           NEW uid \in Uid, NEW from \in Address,
           mgr' = SessionFor(mgr, uid, from),
           from \in network.stray \/ (from \in Clients /\ UserOf[from] = uid)
    PROVE  Consistent(mgr') /\ mgr' \in Manager /\ PeersKnown'
  <1> DEFINE n == NextSid(mgr)
  <1>1. /\ Consistent(mgr') /\ n \in Sid
        /\ mgr'.session_map[n] = [sid |-> n, uid |-> uid, peer |-> from]
        /\ \A k \in Sid : k # n /\ mgr'.session_map[k] # NoSession =>
                             mgr'.session_map[k] = mgr.session_map[k]
    BY SessionForEffect DEF TableInv
  <1> HIDE DEF n
  <1>2. PeersKnown'
    BY <1>1 DEF PeersKnown, TableInv
  <1> QED
    BY <1>1, <1>2 DEF Consistent

LEMMA TableNext == TableInv /\ [ConnNext]_connVars => TableInv'
  <1> SUFFICES ASSUME TableInv, [ConnNext]_connVars
               PROVE  TableInv'
    OBVIOUS
  <1>1. /\ mgr \in Manager /\ Consistent(mgr)
        /\ server \in [state : {"off", "deaf", "on"}, boot : Boot]
        /\ client \in [Clients -> Client]
        /\ net \subseteq Datagram
        /\ network \in Networks
        /\ copies \in 0 .. network.dups
        /\ server.state # "on" => mgr = NewManager
        /\ PeersKnown
        /\ \A d \in net : d.kind = "Short" => d.from \in network.stray
        /\ RunsPast
    BY DEF TableInv, ConnTypeOK
  <1>2. /\ network.dups \in Nat /\ network.stray \subseteq Address \ Clients
        /\ Clients \subseteq Address /\ UserOf \in [Clients -> Uid]
        /\ BootMax \in Nat
    BY <1>1, ConnectionAssumption
  <1>3. /\ server.boot \in 0 .. BootMax /\ Boot = 0 .. BootMax
        /\ \A a \in Clients : client[a].boot \in 0 .. BootMax
    BY <1>1 DEF Boot, Client
  <1>4. Consistent(NewManager) /\ NewManager \in Manager
    BY NewManagerConsistent DEF Consistent
  (* The copies a handler may leave of the datagram it takes. *)
  <1>5. ASSUME NEW d, NEW again \in BOOLEAN, Duplicates(again), UNCHANGED network
        PROVE  copies' \in 0 .. network'.dups /\ Rest(d, again) \subseteq net
    BY <1>1, <1>2, <1>5 DEF Duplicates, Rest
  <1>6. CASE \E bound \in Binds : Start(bound)
    <2>1. PICK bound \in Binds : Start(bound)
      BY <1>6
    <2>2. /\ server' \in [state : {"off", "deaf", "on"}, boot : Boot]
          /\ server'.boot = server.boot + 1
          /\ mgr' = NewManager
          /\ UNCHANGED <<client, net, copies, network>>
      BY <1>2, <1>3, <2>1 DEF Start
    <2>3. RunsPast'
      <3>1. server.boot \in Nat /\ \A a \in Clients : client[a].boot \in Nat
        BY <1>2, <1>3
      <3>2. \A a \in Clients : client[a].boot <= server.boot + 1
        BY <1>1, <3>1 DEF RunsPast
      <3>3. \A d \in net : d.kind = "StartRsp" => d.boot \in 1 .. server.boot + 1
        BY <1>1, <3>1 DEF RunsPast
      <3> QED
        BY <1>1, <2>2, <3>1, <3>2, <3>3 DEF RunsPast
    <2>4. PeersKnown'
      BY <2>2 DEF PeersKnown, NewManager
    <2> QED
      BY <1>1, <1>4, <2>2, <2>3, <2>4 DEF TableInv, ConnTypeOK
  <1>7. CASE Crash
    <2>1. /\ server' \in [state : {"off", "deaf", "on"}, boot : Boot]
          /\ server'.boot = server.boot /\ server'.state = "off"
          /\ mgr' = NewManager
          /\ UNCHANGED <<client, net, copies, network>>
      BY <1>1, <1>7 DEF Crash
    <2>2. RunsPast'
      BY <1>1, <2>1 DEF RunsPast
    <2>3. PeersKnown'
      BY <2>1 DEF PeersKnown, NewManager
    <2> QED
      BY <1>1, <1>4, <2>1, <2>2, <2>3 DEF TableInv, ConnTypeOK
  <1>8. CASE \E d \in net : Lose(d)
    <2>1. PICK d \in net : Lose(d)
      BY <1>8
    <2>2. net' \subseteq net /\ UNCHANGED <<mgr, server, client, copies, network>>
      BY <2>1 DEF Lose
    <2>3. RunsPast' /\ PeersKnown'
      BY <1>1, <2>2 DEF RunsPast, PeersKnown
    <2> QED
      BY <1>1, <2>2, <2>3 DEF TableInv, ConnTypeOK
  <1>9. ASSUME NEW a \in Clients, NEW again \in BOOLEAN, ProcessStart(a, again)
        PROVE  TableInv'
    <2>1. /\ server.state = "on"
          /\ mgr' = SessionFor(mgr, UserOf[a], a)
          /\ net' = Rest(StartReq(a), again) \cup {Answer(mgr', UserOf[a], server.boot)}
          /\ Duplicates(again)
          /\ UNCHANGED <<server, client, network>>
      BY <1>9 DEF ProcessStart
    <2>2. a \in Address /\ UserOf[a] \in Uid
      BY <1>2
    <2>3. Consistent(mgr') /\ mgr' \in Manager /\ PeersKnown'
      BY <2>1, <2>2, ServeTable
    <2>4. /\ Answer(mgr', UserOf[a], server.boot) = StartRsp(a, NextSid(mgr), server.boot)
          /\ NextSid(mgr) \in Sid
      BY <1>1, <2>1, <2>2, AnswerEffect, NextSidType
    <2>5. \A d \in net' : d \in net \/ d = StartRsp(a, NextSid(mgr), server.boot)
      BY <1>5, <2>1, <2>4
    <2>6. net' \subseteq Datagram
      BY <1>1, <2>2, <2>4, <2>5 DEF Datagram
    <2>7. RunsPast'
      BY <1>1, <1>3, <2>1, <2>5 DEF RunsPast, StartRsp
    <2>8. (\A d \in net : d.kind = "Short" => d.from \in network.stray)'
      BY <1>1, <2>1, <2>5 DEF StartRsp
    <2> QED
      BY <1>1, <1>5, <2>1, <2>3, <2>6, <2>7, <2>8 DEF TableInv, ConnTypeOK
  <1>10. ASSUME NEW a \in Clients, NEW again \in BOOLEAN, Connected(a, again)
         PROVE  TableInv'
    <2>1. PICK d \in net : /\ d.kind = "StartRsp"
                           /\ HanldeMsg(a, d.sid, d.boot)
                           /\ net' = Rest(d, again)
                           /\ Duplicates(again)
      BY <1>10 DEF Connected
    <2>2. d.sid \in Sid /\ d.boot \in Boot
      BY <1>1, <2>1 DEF Datagram, StartReq, StartRsp, Unreachable, Short
    <2>3. /\ client' = [client EXCEPT ![a] = [state |-> "connected", sid |-> d.sid,
                                              boot |-> d.boot]]
          /\ UNCHANGED <<mgr, server, network>>
      BY <2>1 DEF HanldeMsg
    <2>4. client' \in [Clients -> Client]
      BY <1>1, <2>2, <2>3 DEF Client
    <2>5. net' \subseteq net /\ copies' \in 0 .. network'.dups
      BY <1>5, <2>1, <2>3
    <2>6. d.boot <= server.boot /\ d.boot # 0
      BY <1>1, <1>3, <2>1, <2>2 DEF RunsPast
    <2>7. RunsPast' /\ PeersKnown'
      BY <1>1, <2>2, <2>3, <2>5, <2>6 DEF RunsPast, PeersKnown
    <2> QED
      BY <1>1, <2>3, <2>4, <2>5, <2>7 DEF TableInv, ConnTypeOK
  <1>11. ASSUME NEW a \in Clients, NEW again \in BOOLEAN, ReceiveFailed(a, again)
         PROVE  TableInv'
    <2>1. /\ client' = [client EXCEPT ![a] = [state |-> "connected", sid |-> 0, boot |-> 0]]
          /\ UNCHANGED <<mgr, server, network>>
          /\ net' = Rest(Unreachable(a), again)
          /\ Duplicates(again)
      BY <1>11 DEF ReceiveFailed, HanldeMsg
    <2>2. 0 \in Sid /\ 0 \in Boot
      BY <1>2, ManagerAssumption DEF Sid, Boot
    <2>3. client' \in [Clients -> Client]
      BY <1>1, <2>1, <2>2 DEF Client
    <2>4. net' \subseteq net /\ copies' \in 0 .. network'.dups
      BY <1>5, <2>1
    <2>5. RunsPast' /\ PeersKnown'
      BY <1>1, <1>3, <2>1, <2>2, <2>4 DEF RunsPast, PeersKnown
    <2> QED
      BY <1>1, <2>1, <2>3, <2>4, <2>5 DEF TableInv, ConnTypeOK
  <1>12. ASSUME NEW a \in Clients, EchoTest(a)
         PROVE  TableInv'
    <2>1. /\ client' = [client EXCEPT ![a].state = "waiting"]
          /\ net' = net \cup {StartReq(a)}
          /\ UNCHANGED <<mgr, server, copies, network>>
      BY <1>12 DEF EchoTest
    <2>2. client' \in [Clients -> Client]
      BY <1>1, <2>1 DEF Client
    <2>3. net' \subseteq Datagram
      BY <1>1, <2>1 DEF Datagram
    <2>4. RunsPast' /\ PeersKnown'
      BY <1>1, <2>1 DEF RunsPast, PeersKnown, StartReq
    <2> QED
      BY <1>1, <2>1, <2>2, <2>3, <2>4 DEF TableInv, ConnTypeOK, StartReq
  <1>13. ASSUME NEW a \in Clients, Refuse(a)
         PROVE  TableInv'
    <2>1. /\ \A d \in net' : d \in net \/ d = Unreachable(a)
          /\ UNCHANGED <<mgr, server, client, copies, network>>
      BY <1>13 DEF Refuse
    <2>2. net' \subseteq Datagram
      BY <1>1, <1>2, <2>1 DEF Datagram
    <2>3. RunsPast' /\ PeersKnown'
      BY <1>1, <2>1 DEF RunsPast, PeersKnown, Unreachable
    <2> QED
      BY <1>1, <2>1, <2>2, <2>3 DEF TableInv, ConnTypeOK, Unreachable
  <1>14. ASSUME NEW a \in Address \ Clients, NEW uid \in Uid, ProcessShort(a, uid)
         PROVE  TableInv'
    <2>1. /\ server.state = "on"
          /\ Short(a) \in net
          /\ mgr' = SessionFor(mgr, uid, a)
          /\ net' = (net \ {Short(a)}) \cup {Answer(mgr', uid, server.boot)}
          /\ UNCHANGED <<server, client, copies, network>>
      BY <1>14 DEF ProcessShort
    <2>2. a \in network.stray
      BY <1>1, <2>1 DEF Short
    <2>3. Consistent(mgr') /\ mgr' \in Manager /\ PeersKnown'
      BY <2>1, <2>2, ServeTable
    <2>4. /\ Answer(mgr', uid, server.boot) = StartRsp(a, NextSid(mgr), server.boot)
          /\ NextSid(mgr) \in Sid
      BY <1>1, <2>1, AnswerEffect, NextSidType
    <2>5. \A d \in net' : d \in net \/ d = StartRsp(a, NextSid(mgr), server.boot)
      BY <2>1, <2>4
    <2>6. net' \subseteq Datagram
      BY <1>1, <2>4, <2>5 DEF Datagram
    <2>7. RunsPast'
      BY <1>1, <1>3, <2>1, <2>5 DEF RunsPast, StartRsp
    <2>8. (\A d \in net : d.kind = "Short" => d.from \in network.stray)'
      BY <1>1, <2>1, <2>5 DEF StartRsp
    <2> QED
      BY <1>1, <2>1, <2>3, <2>6, <2>7, <2>8 DEF TableInv, ConnTypeOK
  <1>15. CASE UNCHANGED connVars
    <2>1. UNCHANGED <<mgr, server, client, net, copies, network>>
      BY <1>15 DEF connVars
    <2>2. RunsPast' /\ PeersKnown'
      BY <1>1, <2>1 DEF RunsPast, PeersKnown
    <2> QED
      BY <1>1, <2>1, <2>2 DEF TableInv, ConnTypeOK
  <1> QED
    BY <1>6, <1>7, <1>8, <1>9, <1>10, <1>11, <1>12, <1>13, <1>14, <1>15 DEF ConnNext

LEMMA TableAlways == ConnSpec => []TableInv
  BY TableInit, TableNext, PTL DEF ConnSpec

(* Type correctness of the handshake: whatever the network does, clients,    *)
(* server and the datagrams in flight hold what they should.                 *)
THEOREM ConnTypeCorrect == ConnSpec => []ConnTypeOK
  <1>1. TableInv => ConnTypeOK
    BY DEF TableInv
  <1> QED
    BY <1>1, TableAlways, PTL

(* For any number of users, clients, identifiers and restarts, even after    *)
(* the identifier has wrapped: the two maps agree, and the peer of a session *)
(* is a client of its user, or a program whose request was cut short.        *)
THEOREM PeersAreAlwaysUsers == ConnSpec => []PeersAreUsers
  <1>1. TableInv => PeersAreUsers
    BY DEF TableInv, PeersKnown, PeersAreUsers, Consistent, Indexed, SessionsIndexed
  <1> QED
    BY <1>1, TableAlways, PTL

-----------------------------------------------------------------------------
(* The second invariant: what the answers of the server that is running say, *)
(* on their way or taken in.  Until the identifiers wrap, an identifier told *)
(* to an address has been issued, is told to no other address, and names no  *)
(* session but that address's; and the user of a client told so is served.   *)
Answered(a, k) == \E d \in net : /\ d.kind = "StartRsp" /\ d.boot = server.boot
                                 /\ d.to = a /\ d.sid = k

Told(a, k) == Answered(a, k) \/ (a \in Served /\ client[a].sid = k)

OwnSid(a, k) == /\ k \in 1 .. mgr.sid_gen
                /\ mgr.session_map[k] # NoSession => mgr.session_map[k].peer = a
                /\ a \in Clients => mgr.uid_sid_map[UserOf[a]] # NoSid
                /\ \A b \in Address : Told(b, k) => b = a

ToldInv == server.state = "on" /\ NotWrapped =>
              \A a \in Address, k \in Sid : Told(a, k) => OwnSid(a, k)

(* A step that tells nobody anything and leaves the server alone. *)
LEMMA ToldKept ==
    ASSUME ToldInv, UNCHANGED <<mgr, server>>,
           \A a \in Address, k \in Sid : Told(a, k)' => Told(a, k)
    PROVE  ToldInv'
  <1>1. SUFFICES ASSUME server.state = "on", NotWrapped,
                        NEW a \in Address, NEW k \in Sid, Told(a, k)'
                 PROVE  OwnSid(a, k)'
    BY DEF ToldInv, NotWrapped
  <1>2. Told(a, k) /\ OwnSid(a, k)
    BY <1>1 DEF ToldInv
  <1>3. \A b \in Address : Told(b, k)' => b = a
    BY <1>2 DEF OwnSid
  <1> QED
    BY <1>2, <1>3 DEF OwnSid

(* A request that is served: the one identifier told is the next one. *)
LEMMA ServeTold ==
    ASSUME TableInv, ToldInv, server.state = "on", UNCHANGED <<server, client, network>>,
           NEW uid \in Uid, NEW from \in Address, from \in Clients => UserOf[from] = uid,
           mgr' = SessionFor(mgr, uid, from),
           \A d \in net' : d \in net \/ d = StartRsp(from, NextSid(mgr), server.boot)
    PROVE  ToldInv'
  <1> DEFINE n == NextSid(mgr)
  <1>1. SUFFICES ASSUME NotWrapped', NEW a \in Address, NEW k \in Sid, Told(a, k)'
                 PROVE  OwnSid(a, k)'
    BY DEF ToldInv
  <1>2. /\ Consistent(mgr) /\ mgr \in Manager /\ mgr.sid_gen \in Nat
        /\ UserOf \in [Clients -> Uid]
    BY ConnectionAssumption DEF TableInv, Consistent, Manager
  <1>3. /\ n \in Sid /\ mgr'.sid_gen = mgr.sid_gen + 1
        /\ mgr'.session_map[n] = [sid |-> n, uid |-> uid, peer |-> from]
        /\ mgr'.uid_sid_map[uid] = n
        /\ \A j \in Sid : j # n /\ mgr'.session_map[j] # NoSession =>
                             mgr'.session_map[j] = mgr.session_map[j]
    BY <1>2, SessionForEffect
  <1>4. n = mgr.sid_gen + 1 /\ mgr.sid_gen < SidSpace
    BY <1>1, <1>2, <1>3, NextSidType, ManagerAssumption DEF NotWrapped, NextGen
  <1>5. \A u \in Uid : mgr.uid_sid_map[u] # NoSid => mgr'.uid_sid_map[u] # NoSid
    BY <1>2, <1>4, EntriesKept
  <1> HIDE DEF n
  <1>6. \A b \in Address, j \in Sid :
           Told(b, j)' => Told(b, j) \/ (b = from /\ j = n)
    <2>1. SUFFICES ASSUME NEW b \in Address, NEW j \in Sid, Told(b, j)'
                   PROVE  Told(b, j) \/ (b = from /\ j = n)
      OBVIOUS
    <2>2. CASE b \in Served' /\ client'[b].sid = j
      BY <2>2 DEF Told, Served
    <2>3. CASE Answered(b, j)'
      BY <2>3 DEF Told, Answered, StartRsp, n
    <2> QED
      BY <2>1, <2>2, <2>3 DEF Told
  <1>7. \A b \in Address, j \in Sid : Told(b, j) => OwnSid(b, j)
    BY <1>4 DEF ToldInv, NotWrapped
  <1>8. \A b \in Address : ~ Told(b, n)
    BY <1>2, <1>3, <1>4, <1>7 DEF OwnSid
  <1>9. CASE a = from /\ k = n
    <2>1. \A b \in Address : Told(b, k)' => b = a
      BY <1>6, <1>8, <1>9
    <2>2. n \in 1 .. mgr'.sid_gen
      BY <1>2, <1>3, <1>4
    <2>3. n # NoSid
      BY <1>3, ManagerAssumption
    <2> QED
      BY <1>3, <1>9, <2>1, <2>2, <2>3 DEF OwnSid
  <1>10. CASE Told(a, k)
    <2>1. OwnSid(a, k) /\ k # n
      BY <1>7, <1>8, <1>10
    <2>2. \A b \in Address : Told(b, k)' => b = a
      BY <1>6, <2>1 DEF OwnSid
    <2>3. k \in 1 .. mgr'.sid_gen
      BY <1>2, <1>3, <2>1 DEF OwnSid
    <2>4. mgr'.session_map[k] # NoSession => mgr'.session_map[k].peer = a
      BY <1>3, <2>1 DEF OwnSid
    <2>5. a \in Clients => mgr'.uid_sid_map[UserOf[a]] # NoSid
      BY <1>2, <1>5, <2>1 DEF OwnSid
    <2> QED
      BY <2>2, <2>3, <2>4, <2>5 DEF OwnSid
  <1> QED
    BY <1>1, <1>6, <1>9, <1>10

LEMMA ToldNext == TableInv /\ ToldInv /\ [ConnNext]_connVars => ToldInv'
  <1> SUFFICES ASSUME TableInv, ToldInv, [ConnNext]_connVars
               PROVE  ToldInv'
    OBVIOUS
  <1>1. /\ server \in [state : {"off", "deaf", "on"}, boot : 0 .. BootMax]
        /\ client \in [Clients -> Client]
        /\ net \subseteq Datagram
        /\ \A d \in net : d.kind = "Short" => d.from \in network.stray
        /\ \A d \in net : d.kind = "StartRsp" => d.boot \in 1 .. server.boot
        /\ server.state = "on" => server.boot > 0
        /\ \A a \in Clients : client[a].boot <= server.boot
        /\ \A a \in Clients : client[a].state = "connected" => client[a].sid \in Sid
    BY DEF TableInv, ConnTypeOK, RunsPast, Boot
  <1>2. /\ Clients \subseteq Address /\ UserOf \in [Clients -> Uid]
        /\ mgr \in Manager /\ Consistent(mgr)
    BY ConnectionAssumption DEF TableInv, Consistent
  <1>0. /\ server.boot \in Nat
        /\ \A a \in Clients : client[a].boot \in Nat
    BY <1>1, ConnectionAssumption DEF Client, Boot
  <1>3. ASSUME NEW bound \in Binds, Start(bound)
        PROVE  ToldInv'
    <2>1. server'.boot = server.boot + 1 /\ UNCHANGED <<client, net>>
      BY <1>3 DEF Start
    <2>2. \A a, k : ~ Told(a, k)'
      BY <1>0, <1>1, <2>1 DEF Told, Answered, Served
    <2> QED
      BY <2>2 DEF ToldInv
  <1>4. CASE Crash
    BY <1>4, <1>1 DEF Crash, ToldInv, TableInv, ConnTypeOK
  <1>5. CASE \E d \in net : Lose(d)
    <2>1. net' \subseteq net /\ UNCHANGED <<mgr, server, client>>
      BY <1>5 DEF Lose
    <2>2. \A a \in Address, k \in Sid : Told(a, k)' => Told(a, k)
      BY <2>1 DEF Told, Answered, Served
    <2> QED
      BY <2>1, <2>2, ToldKept
  <1>6. ASSUME NEW a \in Clients, NEW again \in BOOLEAN, ProcessStart(a, again)
        PROVE  ToldInv'
    <2>1. /\ server.state = "on"
          /\ mgr' = SessionFor(mgr, UserOf[a], a)
          /\ net' = Rest(StartReq(a), again) \cup {Answer(mgr', UserOf[a], server.boot)}
          /\ UNCHANGED <<server, client, network>>
          /\ a \in Address /\ UserOf[a] \in Uid
      BY <1>2, <1>6 DEF ProcessStart
    <2>2. Answer(mgr', UserOf[a], server.boot) = StartRsp(a, NextSid(mgr), server.boot)
      BY <1>2, <2>1, AnswerEffect
    <2>3. \A d \in net' : d \in net \/ d = StartRsp(a, NextSid(mgr), server.boot)
      BY <2>1, <2>2 DEF Rest
    <2> QED
      BY <2>1, <2>3, ServeTold
  <1>7. ASSUME NEW a \in Clients, NEW again \in BOOLEAN, Connected(a, again)
        PROVE  ToldInv'
    <2>1. PICK d \in net : /\ d.kind = "StartRsp" /\ d.to = a
                           /\ client' = [client EXCEPT ![a] =
                                 [state |-> "connected", sid |-> d.sid, boot |-> d.boot]]
                           /\ net' = Rest(d, again)
                           /\ UNCHANGED <<mgr, server>>
      BY <1>7 DEF Connected, HanldeMsg
    <2>2. net' \subseteq net
      BY <2>1 DEF Rest
    <2>3. ASSUME NEW b \in Address, NEW k \in Sid, Told(b, k)'
          PROVE  Told(b, k)
      <3>1. CASE Answered(b, k)'
        BY <2>1, <2>2, <3>1 DEF Told, Answered
      <3>2. CASE b \in Served' /\ client'[b].sid = k /\ b = a
        BY <1>1, <2>1, <3>2 DEF Told, Answered, Served
      <3>3. CASE b \in Served' /\ client'[b].sid = k /\ b # a
        BY <1>1, <2>1, <3>3 DEF Told, Served
      <3> QED
        BY <2>3, <3>1, <3>2, <3>3 DEF Told
    <2> QED
      BY <2>1, <2>3, ToldKept
  <1>8. ASSUME NEW a \in Clients, NEW again \in BOOLEAN, ReceiveFailed(a, again)
        PROVE  ToldInv'
    <2>1. /\ client' = [client EXCEPT ![a] = [state |-> "connected", sid |-> 0, boot |-> 0]]
          /\ net' \subseteq net
          /\ UNCHANGED <<mgr, server>>
      BY <1>8 DEF ReceiveFailed, HanldeMsg, Rest
    <2>2. CASE server.state # "on"
      BY <2>1, <2>2 DEF ToldInv
    <2>3. CASE server.state = "on"
      <3>1. Served' \subseteq Served /\ \A b \in Served' : client'[b] = client[b]
        BY <1>1, <2>1, <2>3 DEF Served
      <3>2. \A b \in Address, k \in Sid : Told(b, k)' => Told(b, k)
        BY <2>1, <3>1 DEF Told, Answered
      <3> QED
        BY <2>1, <3>2, ToldKept
    <2> QED
      BY <2>2, <2>3
  <1>9. ASSUME NEW a \in Clients, EchoTest(a)
        PROVE  ToldInv'
    <2>1. /\ client' = [client EXCEPT ![a].state = "waiting"]
          /\ \A d \in net' : d \in net \/ d.kind # "StartRsp"
          /\ UNCHANGED <<mgr, server>>
      BY <1>9 DEF EchoTest, StartReq
    <2>2. Served' \subseteq Served /\ \A b \in Served' : client'[b] = client[b]
      BY <1>1, <2>1 DEF Served
    <2>3. \A b \in Address, k \in Sid : Told(b, k)' => Told(b, k)
      BY <2>1, <2>2 DEF Told, Answered
    <2> QED
      BY <2>1, <2>3, ToldKept
  <1>10. ASSUME NEW a \in Clients, Refuse(a)
         PROVE  ToldInv'
    <2>1. /\ \A d \in net' : d \in net \/ d.kind # "StartRsp"
          /\ UNCHANGED <<mgr, server, client>>
      BY <1>10 DEF Refuse, Unreachable
    <2>2. \A b \in Address, k \in Sid : Told(b, k)' => Told(b, k)
      BY <2>1 DEF Told, Answered, Served
    <2> QED
      BY <2>1, <2>2, ToldKept
  <1>11. ASSUME NEW a \in Address \ Clients, NEW uid \in Uid, ProcessShort(a, uid)
         PROVE  ToldInv'
    <2>1. /\ server.state = "on"
          /\ mgr' = SessionFor(mgr, uid, a)
          /\ net' = (net \ {Short(a)}) \cup {Answer(mgr', uid, server.boot)}
          /\ UNCHANGED <<server, client, network>>
      BY <1>11 DEF ProcessShort
    <2>2. Answer(mgr', uid, server.boot) = StartRsp(a, NextSid(mgr), server.boot)
      BY <1>2, <2>1, AnswerEffect
    <2> QED
      BY <2>1, <2>2, ServeTold
  <1>12. CASE UNCHANGED connVars
    <2>1. UNCHANGED <<mgr, server, client, net>>
      BY <1>12 DEF connVars
    <2>2. \A b \in Address, k \in Sid : Told(b, k)' => Told(b, k)
      BY <2>1 DEF Told, Answered, Served
    <2> QED
      BY <2>1, <2>2, ToldKept
  <1> QED
    BY <1>3, <1>4, <1>5, <1>6, <1>7, <1>8, <1>9, <1>10, <1>11, <1>12 DEF ConnNext

LEMMA ToldAlways == ConnSpec => []ToldInv
  <1>1. ConnInit => ToldInv
    BY DEF ConnInit, ToldInv
  <1> QED
    BY <1>1, ToldNext, TableAlways, PTL DEF ConnSpec

(* What a client that got its sid from this run of the server was told. *)
LEMMA ServedTold ==
    ASSUME TableInv, ToldInv, server.state = "on", NotWrapped, NEW a \in Served
    PROVE  /\ a \in Clients /\ a \in Address
           /\ client[a].sid \in Sid
           /\ Told(a, client[a].sid)
           /\ OwnSid(a, client[a].sid)
  BY ConnectionAssumption DEF TableInv, RunsPast, ToldInv, Told, Served

(* For any number of users, clients, restarts and datagrams lost, duplicated *)
(* and overtaken: until the identifiers wrap, the sid of a connected client  *)
(* is retired or its own session's, unless it comes from an earlier run of   *)
(* the server; and sid 0 comes from no answer of this run.                   *)
THEOREM SidIsAlwaysOwn == ConnSpec => []SidIsOwn
  <1>1. TableInv /\ ToldInv => SidIsOwn
    <2>1. SUFFICES ASSUME TableInv, ToldInv, server.state = "on", NotWrapped,
                          NEW a \in Clients, client[a].state = "connected"
                   PROVE  /\ client[a].sid = 0 => client[a].boot # server.boot
                          /\ \/ mgr.session_map[client[a].sid] = NoSession
                             \/ /\ mgr.session_map[client[a].sid].uid = UserOf[a]
                                /\ mgr.session_map[client[a].sid].peer = a
                             \/ client[a].boot \in 1 .. server.boot - 1
      BY DEF SidIsOwn
    <2>2. /\ client[a].sid \in Sid
          /\ client[a].boot = 0 => client[a].sid = 0
          /\ client[a].boot \in Nat /\ server.boot \in Nat
          /\ client[a].boot <= server.boot /\ server.boot > 0
      BY <2>1, ConnectionAssumption DEF TableInv, RunsPast, ConnTypeOK, Client, Boot
    <2>3. mgr.sid_gen \in Nat /\ PeersKnown /\ a \notin network.stray
      BY <2>1, ConnectionAssumption DEF TableInv, ConnTypeOK, Manager
    <2>4. CASE client[a].boot = server.boot
      <3>1. OwnSid(a, client[a].sid)
        BY <2>1, <2>4, ServedTold DEF Served
      <3> QED
        BY <2>2, <2>3, <3>1 DEF OwnSid, PeersKnown
    <2>5. CASE client[a].boot = 0
      <3>1. KeysIssued(mgr)
        BY <2>1 DEF TableInv, Consistent, Exact, NotWrapped
      <3> QED
        BY <2>2, <2>3, <2>5, <3>1 DEF KeysIssued
    <2>6. CASE client[a].boot # server.boot /\ client[a].boot # 0
      BY <2>2, <2>6
    <2> QED
      BY <2>4, <2>5, <2>6
  <1> QED
    BY <1>1, TableAlways, ToldAlways, PTL

(* Until the identifiers wrap, no two clients of one run of the server hold  *)
(* the same sid.                                                             *)
THEOREM SidsAlwaysDistinct == ConnSpec => []SidsDistinct
  <1>1. TableInv /\ ToldInv => SidsDistinct
    <2>1. SUFFICES ASSUME TableInv, ToldInv, server.state = "on", NotWrapped,
                          NEW a \in Served, NEW b \in Served, client[a].sid = client[b].sid
                   PROVE  a = b
      BY DEF SidsDistinct
    <2>2. OwnSid(a, client[a].sid) /\ Told(b, client[a].sid) /\ b \in Address
      BY <2>1, ServedTold
    <2> QED
      BY <2>2 DEF OwnSid
  <1> QED
    BY <1>1, TableAlways, ToldAlways, PTL

(* Until the identifiers wrap, a user with a connected client has a session, *)
(* whoever asks for one after it.                                            *)
THEOREM UserAlwaysServed == ConnSpec => []UserServed
  <1>1. TableInv /\ ToldInv => UserServed
    <2>1. SUFFICES ASSUME TableInv, ToldInv, server.state = "on", NotWrapped,
                          NEW a \in Served
                   PROVE  GetSessionByUid(mgr, UserOf[a]) # NoSession
      BY DEF UserServed
    <2>2. a \in Clients /\ mgr.uid_sid_map[UserOf[a]] # NoSid
      BY <2>1, ServedTold DEF OwnSid
    <2>3. UserOf[a] \in Uid /\ EntriesLead(mgr)
      BY <2>1, <2>2, ConnectionAssumption DEF TableInv, Consistent, Exact, NotWrapped
    <2> QED
      BY <2>2, <2>3 DEF EntriesLead, GetSessionByUid, GetSession
  <1> QED
    BY <1>1, TableAlways, ToldAlways, PTL

-----------------------------------------------------------------------------
(* The third invariant: until a datagram is duplicated, a client is one of   *)
(* idle, asking, told and connected, and has no session before it is told.   *)
Replies(a) == {d \in net : d.kind \in {"StartRsp", "Unreachable"} /\ d.to = a}

OnlySession(a, sid) ==
    \A k \in Sid : mgr.session_map[k] # NoSession /\ mgr.session_map[k].peer = a => k = sid

NoSessionOf(a) ==
    \A k \in Sid : mgr.session_map[k] # NoSession => mgr.session_map[k].peer # a

OneRequest(a) ==
    /\ client[a].state = "idle" => StartReq(a) \notin net /\ NoSessionOf(a)
    /\ client[a].state # "waiting" => StartReq(a) \notin net /\ Replies(a) = {}
    /\ StartReq(a) \in net => Replies(a) = {} /\ NoSessionOf(a)
    /\ \A d, e \in Replies(a) : d = e
    /\ \A d \in Replies(a) : d.kind = "StartRsp" => OnlySession(a, d.sid)
    /\ a \in Served => OnlySession(a, client[a].sid)

OnceInv == copies = 0 => \A a \in Clients : OneRequest(a)

(* A step that takes at most datagrams and sessions away from client b. *)
LEMMA OnceOther ==
    ASSUME NEW b \in Clients, OneRequest(b),
           UNCHANGED server, client'[b] = client[b],
           Replies(b)' \subseteq Replies(b),
           StartReq(b) \in net' => StartReq(b) \in net,
           \A k \in Sid : mgr'.session_map[k] # NoSession /\ mgr'.session_map[k].peer = b =>
                             mgr.session_map[k] # NoSession /\ mgr.session_map[k].peer = b
    PROVE  OneRequest(b)'
  <1>1. /\ NoSessionOf(b) => NoSessionOf(b)'
        /\ \A j : OnlySession(b, j) => OnlySession(b, j)'
    BY DEF NoSessionOf, OnlySession
  <1>2. OnlySession(b, client[b].sid) => OnlySession(b, client[b].sid)'
    BY DEF OnlySession
  <1>3. b \in Served' => b \in Served
    BY DEF Served
  <1>4. \A d \in Replies(b)' : d \in Replies(b)
    OBVIOUS
  <1> QED
    BY <1>1, <1>2, <1>3, <1>4 DEF OneRequest

(* A step that leaves no session. *)
LEMMA OnceNew ==
    ASSUME NEW b \in Clients, OneRequest(b), mgr' = NewManager, UNCHANGED <<client, net>>
    PROVE  OneRequest(b)'
  <1>1. NoSessionOf(b)' /\ \A j : OnlySession(b, j)'
    BY DEF NoSessionOf, OnlySession, NewManager
  <1>2. OnlySession(b, client[b].sid)'
    BY DEF OnlySession, NewManager
  <1>3. Replies(b)' = Replies(b)
    BY DEF Replies
  <1> QED
    BY <1>1, <1>2, <1>3 DEF OneRequest

LEMMA OnceNext == TableInv /\ OnceInv /\ [ConnNext]_connVars => OnceInv'
  <1> SUFFICES ASSUME TableInv, OnceInv, [ConnNext]_connVars, copies' = 0,
                      NEW b \in Clients
               PROVE  OneRequest(b)'
    BY DEF OnceInv
  <1>1. /\ mgr \in Manager /\ Consistent(mgr)
        /\ client \in [Clients -> Client]
        /\ copies \in Nat
        /\ server.state # "on" => mgr = NewManager
        /\ server.state = "on" => server.boot > 0
        /\ Clients \subseteq Address /\ UserOf \in [Clients -> Uid]
    BY ConnectionAssumption DEF TableInv, ConnTypeOK, RunsPast
  (* A handler that made no copy takes the datagram away. *)
  <1>2. ASSUME NEW d, NEW again \in BOOLEAN, Duplicates(again)
        PROVE  Rest(d, again) = net \ {d} /\ copies = 0
    BY <1>1, <1>2 DEF Duplicates, Rest
  <1>3. copies = 0 => OneRequest(b)
    BY DEF OnceInv
  <1>4. CASE \E bound \in Binds : Start(bound)
    <2>1. mgr' = NewManager /\ UNCHANGED <<client, net, copies>>
      BY <1>4 DEF Start
    <2> QED
      BY <1>3, <2>1, OnceNew
  <1>5. CASE Crash
    <2>1. mgr' = NewManager /\ UNCHANGED <<client, net, copies>>
      BY <1>5 DEF Crash
    <2> QED
      BY <1>3, <2>1, OnceNew
  <1>6. CASE \E d \in net : Lose(d)
    <2>1. net' \subseteq net /\ UNCHANGED <<mgr, server, client, copies>>
      BY <1>6 DEF Lose
    <2>2. Replies(b)' \subseteq Replies(b)
      BY <2>1 DEF Replies
    <2> QED
      BY <1>3, <2>1, <2>2, OnceOther
  <1>7. ASSUME NEW a \in Clients, NEW again \in BOOLEAN, ProcessStart(a, again)
        PROVE  OneRequest(b)'
    <2> DEFINE n == NextSid(mgr)
               rsp == StartRsp(a, n, server.boot)
    <2>1. /\ server.state = "on"
          /\ StartReq(a) \in net
          /\ mgr' = SessionFor(mgr, UserOf[a], a)
          /\ net' = (net \ {StartReq(a)}) \cup {Answer(mgr', UserOf[a], server.boot)}
          /\ copies = 0
          /\ UNCHANGED <<server, client>>
          /\ a \in Address /\ UserOf[a] \in Uid
      BY <1>1, <1>2, <1>7 DEF ProcessStart
    <2>2. net' = (net \ {StartReq(a)}) \cup {rsp}
      BY <1>1, <2>1, AnswerEffect
    <2>3. /\ n \in Sid
          /\ mgr'.session_map[n] = [sid |-> n, uid |-> UserOf[a], peer |-> a]
          /\ \A k \in Sid : k # n /\ mgr'.session_map[k] # NoSession =>
                               mgr'.session_map[k] = mgr.session_map[k]
      BY <1>1, <2>1, SessionForEffect
    <2>4. /\ rsp.kind = "StartRsp" /\ rsp.to = a /\ rsp.sid = n
          /\ StartReq(b) # rsp
      BY DEF StartRsp, StartReq
    <2> HIDE DEF n, rsp
    <2>5. CASE b = a
      <3>1. /\ OneRequest(a) /\ Replies(a) = {} /\ NoSessionOf(a)
            /\ client'[a].state = "waiting"
        BY <1>3, <2>1, <2>5 DEF OneRequest
      <3>2. Replies(a)' = {rsp} /\ StartReq(a) \notin net'
        BY <2>2, <2>4, <2>5, <3>1 DEF Replies
      <3>3. ASSUME NEW d \in Replies(a)'
            PROVE  OnlySession(a, d.sid)'
        BY <2>3, <2>4, <3>1, <3>2 DEF OnlySession, NoSessionOf
      <3>4. a \notin Served'
        BY <3>1 DEF Served
      <3> QED
        BY <2>5, <3>1, <3>2, <3>3, <3>4 DEF OneRequest
    <2>6. CASE b # a
      <3>1. Replies(b)' \subseteq Replies(b)
        BY <2>2, <2>4, <2>6 DEF Replies
      <3>2. StartReq(b) \in net' => StartReq(b) \in net
        BY <2>2, <2>4
      <3> QED
        BY <1>3, <2>1, <2>3, <2>6, <3>1, <3>2, OnceOther
    <2> QED
      BY <2>5, <2>6
  <1>8. ASSUME NEW a \in Clients, NEW again \in BOOLEAN, Connected(a, again)
        PROVE  OneRequest(b)'
    <2>1. PICK d \in net : /\ d.kind = "StartRsp" /\ d.to = a
                           /\ client' = [client EXCEPT ![a] =
                                 [state |-> "connected", sid |-> d.sid, boot |-> d.boot]]
                           /\ net' = net \ {d}
                           /\ copies = 0
                           /\ UNCHANGED <<mgr, server>>
      BY <1>2, <1>8 DEF Connected, HanldeMsg
    <2>2. CASE b = a
      <3>1. OneRequest(a) /\ d \in Replies(a)
        BY <1>3, <2>1, <2>2 DEF Replies
      <3>2. /\ StartReq(a) \notin net
            /\ Replies(a) = {d}
            /\ OnlySession(a, d.sid)
        BY <2>1, <3>1 DEF OneRequest
      <3>3. Replies(a)' = {} /\ StartReq(a) \notin net'
        BY <2>1, <3>2 DEF Replies
      <3>4. client'[a].state = "connected" /\ client'[a].sid = d.sid
        BY <1>1, <2>1
      <3>5. OnlySession(a, client[a].sid)'
        BY <2>1, <3>2, <3>4 DEF OnlySession
      <3> QED
        BY <2>2, <3>3, <3>4, <3>5 DEF OneRequest
    <2>3. CASE b # a
      <3>1. Replies(b)' \subseteq Replies(b) /\ client'[b] = client[b]
        BY <1>1, <2>1, <2>3 DEF Replies
      <3> QED
        BY <1>3, <2>1, <3>1, OnceOther
    <2> QED
      BY <2>2, <2>3
  <1>9. ASSUME NEW a \in Clients, NEW again \in BOOLEAN, ReceiveFailed(a, again)
        PROVE  OneRequest(b)'
    <2>1. /\ Unreachable(a) \in net
          /\ client' = [client EXCEPT ![a] = [state |-> "connected", sid |-> 0, boot |-> 0]]
          /\ net' = net \ {Unreachable(a)}
          /\ copies = 0
          /\ UNCHANGED <<mgr, server>>
      BY <1>2, <1>9 DEF ReceiveFailed, HanldeMsg
    <2>2. CASE b = a
      <3>1. OneRequest(a) /\ Unreachable(a) \in Replies(a)
        BY <1>3, <2>1, <2>2 DEF Replies, Unreachable
      <3>2. StartReq(a) \notin net /\ Replies(a) = {Unreachable(a)}
        BY <3>1 DEF OneRequest
      <3>3. Replies(a)' = {} /\ StartReq(a) \notin net'
        BY <2>1, <3>2 DEF Replies
      <3>4. client'[a] = [state |-> "connected", sid |-> 0, boot |-> 0]
        BY <1>1, <2>1
      <3>5. a \in Served' => mgr = NewManager
        BY <1>1, <2>1, <3>4 DEF Served
      <3>6. a \in Served' => OnlySession(a, client[a].sid)'
        BY <2>1, <3>5 DEF OnlySession, NewManager
      <3> QED
        BY <2>2, <3>3, <3>4, <3>6 DEF OneRequest
    <2>3. CASE b # a
      <3>1. Replies(b)' \subseteq Replies(b) /\ client'[b] = client[b]
        BY <1>1, <2>1, <2>3 DEF Replies
      <3> QED
        BY <1>3, <2>1, <3>1, OnceOther
    <2> QED
      BY <2>2, <2>3
  <1>10. ASSUME NEW a \in Clients, EchoTest(a)
         PROVE  OneRequest(b)'
    <2>1. /\ client[a].state = "idle"
          /\ client' = [client EXCEPT ![a].state = "waiting"]
          /\ net' = net \cup {StartReq(a)}
          /\ UNCHANGED <<mgr, server, copies>>
      BY <1>10 DEF EchoTest
    <2>2. Replies(b)' = Replies(b)
      BY <2>1 DEF Replies, StartReq
    <2>3. OneRequest(b)
      BY <1>3, <2>1
    <2>4. CASE b = a
      <3>1. Replies(a)' = {} /\ NoSessionOf(a)
        BY <2>1, <2>2, <2>3, <2>4 DEF OneRequest
      <3>2. NoSessionOf(a)'
        BY <2>1, <3>1 DEF NoSessionOf
      <3>3. client'[a].state = "waiting" /\ a \notin Served'
        BY <1>1, <2>1 DEF Served, Client
      <3> QED
        BY <2>4, <3>1, <3>2, <3>3 DEF OneRequest
    <2>5. CASE b # a
      <3>1. client'[b] = client[b] /\ (StartReq(b) \in net' => StartReq(b) \in net)
        BY <1>1, <2>1, <2>5 DEF StartReq
      <3> QED
        BY <2>1, <2>2, <2>3, <3>1, OnceOther
    <2> QED
      BY <2>4, <2>5
  <1>11. ASSUME NEW a \in Clients, Refuse(a)
         PROVE  OneRequest(b)'
    <2>1. /\ StartReq(a) \in net
          /\ net' \subseteq (net \ {StartReq(a)}) \cup {Unreachable(a)}
          /\ UNCHANGED <<mgr, server, client, copies>>
      BY <1>11 DEF Refuse
    <2>2. OneRequest(b) /\ Unreachable(a) # StartReq(b) /\ Unreachable(a).to = a
      BY <1>3, <2>1 DEF Unreachable, StartReq
    <2>3. CASE b = a
      <3>1. Replies(a) = {} /\ client'[a].state = "waiting"
        BY <2>1, <2>2, <2>3 DEF OneRequest
      <3>2. Replies(a)' \subseteq {Unreachable(a)} /\ StartReq(a) \notin net'
        BY <2>1, <2>2, <2>3, <3>1 DEF Replies
      <3>3. Unreachable(a).kind # "StartRsp" /\ a \notin Served'
        BY <3>1 DEF Unreachable, Served
      <3> QED
        BY <2>3, <3>1, <3>2, <3>3 DEF OneRequest
    <2>4. CASE b # a
      <3>1. Replies(b)' \subseteq Replies(b) /\ (StartReq(b) \in net' => StartReq(b) \in net)
        BY <2>1, <2>2, <2>4 DEF Replies
      <3> QED
        BY <2>1, <2>2, <3>1, OnceOther
    <2> QED
      BY <2>3, <2>4
  <1>12. ASSUME NEW a \in Address \ Clients, NEW uid \in Uid, ProcessShort(a, uid)
         PROVE  OneRequest(b)'
    <2>1. /\ mgr' = SessionFor(mgr, uid, a)
          /\ net' = (net \ {Short(a)}) \cup {Answer(mgr', uid, server.boot)}
          /\ UNCHANGED <<server, client, copies>>
      BY <1>12 DEF ProcessShort
    <2>2. Answer(mgr', uid, server.boot) = StartRsp(a, NextSid(mgr), server.boot)
      BY <1>1, <2>1, AnswerEffect
    <2>3. /\ mgr'.session_map[NextSid(mgr)]
                = [sid |-> NextSid(mgr), uid |-> uid, peer |-> a]
          /\ \A k \in Sid : k # NextSid(mgr) /\ mgr'.session_map[k] # NoSession =>
                               mgr'.session_map[k] = mgr.session_map[k]
      BY <1>1, <2>1, SessionForEffect
    <2>4. Replies(b)' \subseteq Replies(b) /\ (StartReq(b) \in net' => StartReq(b) \in net)
      BY <2>1, <2>2 DEF Replies, StartRsp, StartReq
    <2> QED
      BY <1>3, <2>1, <2>3, <2>4, OnceOther
  <1>13. CASE UNCHANGED connVars
    <2>1. UNCHANGED <<mgr, server, client, net, copies>>
      BY <1>13 DEF connVars
    <2>2. Replies(b)' \subseteq Replies(b)
      BY <2>1 DEF Replies
    <2> QED
      BY <1>3, <2>1, <2>2, OnceOther
  <1> QED
    BY <1>4, <1>5, <1>6, <1>7, <1>8, <1>9, <1>10, <1>11, <1>12, <1>13 DEF ConnNext

(* For any number of clients, requests lost and restarts, and even after the *)
(* identifier has wrapped: until a datagram is duplicated, the session whose *)
(* peer is a connected client is the one the client knows.                   *)
THEOREM NeverOrphaned == ConnSpec => []NoOrphan
  <1>1. ConnInit => OnceInv
    <2>1. SUFFICES ASSUME ConnInit, NEW b \in Clients
                   PROVE  OneRequest(b)
      BY DEF OnceInv
    <2>2. Replies(b) = {} /\ StartReq(b) \notin net /\ client[b].state = "idle"
      <3>1. \A d \in net : d.kind = "Short"
        BY <2>1 DEF ConnInit, Short
      <3> QED
        BY <2>1, <3>1 DEF ConnInit, Replies, StartReq
    <2>3. NoSessionOf(b) /\ b \notin Served
      BY <2>1, <2>2 DEF ConnInit, NoSessionOf, NewManager, Served
    <2> QED
      BY <2>2, <2>3 DEF OneRequest
  <1>2. TableInv /\ OnceInv => NoOrphan
    BY DEF OnceInv, OneRequest, OnlySession, NoOrphan, Served
  <1> QED
    BY <1>1, <1>2, OnceNext, TableAlways, PTL DEF ConnSpec
=============================================================================
