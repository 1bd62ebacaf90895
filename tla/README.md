# rudp_network: a verification project

`rudp_network` is a small UDP game-networking library: a C++ server library and
two programs (`svr/`) and a Unity client (`udp/`).  This directory holds TLA+
modules that model it, TLC configurations that check them on small instances,
and proofs that TLAPS checks for every instance.  `PROJECT.json` says which
lines of the source each definition stands for, which configuration checks
which property, and which line every known hazard sits at.

Contents: 1 inventory, 2 plan, 3 the modules and the code, 4 what the runs
check, 5 bounds, 6 fairness, 7 proofs, 8 what is not modelled, 9 how to run it.

## 1. Inventory: the system's parts

Paths are relative to `svr/library/networking` or `udp/Assets/Script/Network`.

| component | source | state | operations | what is hard |
|---|---|---|---|---|
| session manager | `Session.{h,cpp}` | two hash maps (sid to session, uid to sid), the generator `sid_gen_` | ProduceSession, DestroySession, GetSession, GetSessionByUid | two maps kept in step by hand; a 32-bit generator narrowed to a 16-bit sid |
| server | `Server.cpp`, `service/first/first.cpp` | its socket; the session manager | Tick, ReceivePackets, ProcessStart | requests repeated, reordered, of one user from two devices; restart with an empty table; a bind that failed |
| client | `TestUDP.cs` | one socket, one request | EchoTest, HanldeMsg | one request, no retry; the first datagram is taken for the answer |
| client socket | `NetSocket.cs` | `m_isRunning`, `m_threadv4`, `m_receiveProcessor`, the socket | constructor, SendData, ReceieveData, Close, Add/RemoveReceiveProcessor | a receive thread and the main thread share everything without a lock; Close may run in either |
| socket interface | `SocketInterface.{h,cpp}` | send and receive queue, counters | SendPacket, ReceivePacket, WritePackets, ReadPackets, the destructor | who owns a packet on each path; full queues; failures in the middle of a drain |
| socket | `Socket.{h,cpp}` | handle, error | constructor, SendPacket, ReceivePacket | error paths of the constructor |
| bit packer | `BitWriter.h`, `BitReader.h`, `BitWriter.cs`, `BitReader.cs` | scratch register, word index, bit count | WriteBits, WriteAlign, WriteBytes, FlushBits and the readers | the last word; flushing; alignment |
| streams | `Serialization.h`, the C# streams | a packer, an error | Serialize* | the three streams must agree |
| packet codec | `Network.cpp`, `PacketProcessor.cpp`, `PacketFactory.*` | buffers, last error, the number of packet types | WritePacket, ReadPacket, CreatePacket, DestroyPacket | writer and reader build the checksummed buffer differently; a packet created before it can be read; programs with other types; short datagrams |
| utilities | `NetworkUtil.{h,cpp}` | none | bits_required, sequence arithmetic, zig-zag, byte order, hashes | wrap around of 16-bit sequence numbers |
| address | `Address.{h,cpp}` | type, address, port | ten constructors, Parse, ToString, SetPort, Clear, == | the ':' of a port among those of an IPv6 address |
| logger | `commlib/logging.{h,cpp}` | descriptor, file name, two rotation times | setFileName, logv, maybeRotate | rotation by several threads without a lock; rename() and open() that fail; a restart in between |

How they interact.  `first.cpp` calls `Server::Tick` for ever; Tick drains the
server's `Socket` and hands each START_REQ, decoded by a `ReadStream`, to
ProcessStart, which asks the SessionManager singleton for a session, notes the
sender as its peer and answers through a `WriteStream` and the same socket.  A
client constructs a `NetSocket`, whose receive thread calls the delegate
`HanldeMsg`; that decodes the sid and closes the socket from inside the receive
thread.  The older packet layer (SocketInterface, PacketProcessor, Network,
PacketFactory) sits on the same Socket and streams and is not used by the two
server programs, but is the library's interface for packets with types and
checksums.  Streams sit on the bit packer.  Nothing on the server runs in a
second thread, except that the logger is written for several.

What makes each part correct:

* session manager: the maps agree; a user finds only their own session; no
  session becomes unreachable; identifiers are not shared.
* server and client: a client's sid names its own session or a retired one, and no
  client of the same run of the server shares it; whoever asked a running server is answered; a user with
  a connected client has a session.
* client socket: no thread runs into a null or a closed object; what was taken
  from the socket reaches the processor; Close returns and is final.
* socket interface: a packet has one owner at any time; nothing leaks but what
  is said to; counters account for every packet and every datagram that is not
  empty; nothing is sent in error.
* bit packer: what is read is what was written, in whatever portions; no word
  outside the buffer is touched; no bit of an earlier packet leaves.
* streams and codec: the streams of both languages agree on every width;
  measuring is an upper bound; a packet is accepted only with its checksum;
  everything allocated on a failing path is destroyed.
* utilities: agreement with a reference definition at the edges.
* address: Parse undoes ToString.
* logger: one rotation per interval, whichever threads log.

## 2. Plan

Done in this order, the most important behaviour first:

1. `SessionRegistry`: abstract specification of the table (users and the
   identifiers they hold; an identifier is issued once).
2. `SessionManager`: the two maps, refining 1; proofs.
3. `Connection`: clients, server and UDP around 2.
4. `NetSocket`: the client's two threads.
5. `SocketInterface`: queues and ownership over the outcomes of `Socket`.
6. `BitPacker`: registers, buffer, both readers and writers.
7. `StreamOps` and `Streams`: the write, read and measure streams of both languages.
8. `PacketTransport`: abstract specification of what the packet layer promises;
   `PacketCodec`: WritePacket and ReadPacket with header, type, checksum and the error
   paths, over the streams of 7, refining it.
9. `NetworkUtil`: bits_required, sequence arithmetic, zig-zag; proofs.
10. `Address`: Parse and ToString, against the comment on the form `[addr6]:portnum`.
11. `Logger`: maybeRotate by several threads, against the comment at `logging.cpp:81`.
12. `Connection` with a truncated request of another program.

The proofs follow the same order: the session manager and its registry, the two C#
threads, the socket interface, the handshake over the session manager's lemmas, the
logger, the bit packer, the streams, the codec over the streams' lemmas, and the texts
of addresses.  Section 7 has what is proved.  What could still be stated: the parts of
the refinement that hold of programs that differ (what a checksummed packet may be read
as).

## 3. The modules and the code

**SessionRegistry** says what a table of sessions promises: `Connect(u)` gives
user u an identifier never issued before, `Disconnect(u)` takes it away.

**SessionManager** has the state of the C++ singleton as one record `mgr`:
`session_map` and `uid_sid_map` as total functions with NoSession and NoSid for
"not found", `sid_gen`, and `lost`, which counts the sessions whose only pointer
was overwritten.  The operations are functions of that record (`ProduceSession`,
`DestroySession`, `GetSession`, `GetSessionByUid`), so that Connection can use
them inside its own handlers; `Produce` and `Destroy` are the actions of the
manager alone.  `NextSid` is the narrowing to uint16_t: `% SidSpace`.

**Connection** EXTENDS SessionManager and adds the server process (`off`, `deaf`
after a failed bind, `on`), the clients (`idle`, `waiting`, `connected`), and the set of
datagrams in flight.  `network` says what the network of a behaviour does: lose
datagrams, duplicate some, bring one of another program.  One action is one handler: `ProcessStart` is everything
the server does with a START_REQ, `EchoTest` the client's request, `Connected` and
`ReceiveFailed` the two ways HanldeMsg is called: with an answer, and with the
empty buffer that is left when ReceiveFrom throws.  `ProcessShort` is ProcessStart
with a request that ends before the uid: SerializeRead fails, nobody looks, and
the session is made for whatever the uninitialised uid is.  A sid carries the number of
the server's run in which it was issued, which only the properties look at.

**NetSocket** is one level lower: each read or write of a field that the two
threads share is a step.  `pc` says where a thread is; the action names follow
the lines of Close and ReceieveData.

**SocketInterface** gives packets heap addresses, and tracks which are allocated
(`live`) and which the application holds (`held`).  The drains run packet by
packet, with datagrams arriving in between.  What the codec answers is a free
choice; what the constructor of Socket left behind is one of the records of
`Socket`.  `ReadEmpty` is the datagram of no bytes: ReceivePacket returns 0 for it as
it does for an empty socket, so it is taken, ends the loop, and is counted nowhere;
`calls` counts what the application and the network did, which only the properties
look at.

**BitPacker** has the 64-bit scratch register and the buffer as functions from
bit positions, and every bit written is told from every other by the position
it was written at, so that a bit that is lost, doubled, moved or mixed with
another shows.  The writer's three operations update the word index, scratch
bits and bit count in their three different ways (bit by bit, by alignment,
by copy of whole words); `lang` chooses between the two versions of FlushBits.
The buffer is `Stale` at first: it is reused for packet after packet.

**StreamOps** sits on what BitPacker shows, and takes a buffer as the sequence of its
bits.  It has the calls of the streams as functions: `Encode` of a writer's buffer,
`Measure` of a count, `SerializeInteger` and the others of a ReadStream (`pos` is the
count of its BitReader, `bitsRead` its own, `ok` and `value` what the last call
answered).  `DecodeCpp` is the server's reading, in which the macros of
Serialization.h return at the first failure and check ranges; `DecodeCs` the
client's, whose extension methods look at no result and go on with zeros.  The
stream calls themselves are the same in both languages, and each is mapped to
one of the two.  A writer's buffer, and so a datagram, has no more bits than an int
counts (a guard of `Write`, and of WritePacket below); a length read from one may be
anything.  SerializeBytes then has two checks to get past, whose product and sum both
wrap: where they let a length by that the data does not have, the bit reader counts
bytes up to the end of its word and throws at its array (`threw`), so its count may
be past the end, within the last word.  That the array for the result can be
allocated is assumed.  The server's reading knows no length that large.  **Streams** runs
them: a behaviour is one packet of up to `CallMax`
calls, a datagram, which comes whole, cut to fewer bytes, or with one bit altered,
and the same calls on a ReadStream.

**PacketTransport** promises that the application gets packets that were sent, and
nothing else; it may get one again or not at all.  **PacketCodec** refines it: a
datagram is what `Written` makes of prefix, header, type and fields with the
functions of StreamOps, and its checksum (`sum`), which stands for the four bytes in
the middle.  `Fields` holds the layouts of PacketFactory.h.  `Read` follows ReadPacket
from one error to the next, the first that applies; `heap` is the reader's memory, where CreatePacket puts a
packet and DestroyPacket takes it away.  The two programs may have called
SetNumPacketTypes differently, and may exchange raw packets, without a checksum.

**NetworkUtil** has the arithmetic: `BitsRequired`, the comparison and difference of
16-bit sequence numbers, the zig-zag code.

**Logger** is a step for each access to the two rotation times and for each system
call of maybeRotate, in every thread, over a small file system: `names` leads from
names to inodes, `lines[i]` are the intervals whose lines inode i holds, of every
process that wrote there.  The clock counts from a local midnight.  `since` is a history
variable: the interval the logger took for the last rotation's when setFileName opened
the file.

**Address** has texts as sequences of characters, because where a ':' stands is what
the parser is about.  `Scan` is the loop over the last six characters, which
Parse runs twice with different ends and cuts.  `ntop6`, `pton6`, `pton4`, `atoi` and
the decimal output are what the C library does.  All of them are recursive functions
over the positions of a text, so that they can be proved about.

Each module contains, next to the operations, *faults*: plausible mistakes
that are not part of its specification.  PROJECT.json pairs every property
with a fault that violates it, so that no property is one which nothing could
break.

## 4. What the runs check

| run | question | answer |
|---|---|---|
| manager | do the maps agree, and implement the registry? | yes, while identifiers last |
| manager_found | is a session found for a uid that user's? | **no**, after 65536 sessions; see below |
| handshake | duplicates, loss or a stray request, failed bind, restart, wrap: whose sid does a client hold, and is it answered? | its own or a retired one, unless an earlier run of the server told it; two clients of one run share none, until the sids wrap; the user is served; the tables agree and peers are clients of their users even after; where nothing is lost, a request that reaches the server's last run is answered |
| socket | EchoTest closing in the processor; Close by main; everything at once | no exception in the first two; never a closed socket in use; no datagram dropped; Close returns and is final; the thread ends |
| interface | a working socket and every failed one, full queues, failing packets | one owner each; only failed writes leak; the counters miss the empty datagrams and nothing else; nothing queued or sent in error |
| packer | every sequence of calls, in every portion, in both languages | what is read is what was written, no word outside the buffer is touched |
| streams | every short packet in either language, its datagram whole, cut or altered: what does the reader make of it? | without an error noted and nothing altered, what was written; a short datagram is always noticed, and refused by the server; the measure is enough; the two counts of bits are equal while every call returns true, and stay in the data but when the bit reader throws |
| codec | packets of two protocols, raw or not, with or without a header, read whole, cut or altered: what reaches the application? | with a checksum, and the same types on both sides, only packets that were sent (PacketTransport is implemented); raw, no field out of range and no cut packet; what is intact is read; no packet leaks |
| logger | three threads, failing disk, restarts, no interval ending during a maybeRotate: is a line lost, a file rotated twice? | no; and lines go to the file of their interval, once there was a rotation after setFileName |
| logger_delayed | an interval may end during maybeRotate: does whoever rotates hold an old value? | **no**; see below |
| address | is Parse the inverse of ToString? | for IPv4, for IPv6 without a port, and for IPv6 whose text has no ':' but the port's among the last six characters |
| address_bracket | and for every IPv6 address with a port? | **no**; see below |

The findings.

manager_found.  `sid_gen_` is an int; a sid is a uint16_t.
After 65536 sessions ProduceSession overwrites the table entry of a session that
may still be alive.  That session's object is leaked, and its user's entry in
`m_uid_sid_map` now leads to the new owner's session.  GetSessionByUid answers
with it, where `Server.cpp:84-86` takes a session found for a uid to be an
earlier one of the same user.  `SessionsIndexed` still holds: the next
ProduceSession for the victim destroys the other user's session consistently.

logger_delayed.  maybeRotate reads the clock, stores it in lastRotate_, and
exchanges it with realRotate_; the comment at `logging.cpp:81` says that whoever
gets the old value rotates.  The code compares the two for difference only: a
thread that read the clock before midnight and goes on after somebody rotated gets
a newer value, rotates, and sets both times back, so that the next thread
rotates once more.  Within a minute the rotated files have the same name, and
rename() replaces the first.

address_bracket.  The loop that looks for the port of `[addr6]:portnum` goes through
all of the last six characters.  When a ':' of the address is among them it is
taken for the port's, and the address is cut there: `[fe80::1]:80`, which ToString
prints, is parsed to an undefined address, and `[1::2:3]:4` to `1::`, port 3, without any
sign of an error.  The loopback `[::1]:80` escapes because the loop does not look at
the first three characters.  Nothing in the repository parses addresses today.

Some things are the way they are and no property calls them wrong: a client that was
told its sid by an earlier run of the server, and holds one that this run has given to
somebody else (`SidIsOwn` names it as its one exception: no message tells the runs
apart), a process that is started again after midnight and logs into yesterday's file
until its first rotation, because its constructor takes the start for the last rotation
(`FileOfTheDay` says from when on lines are where they belong), an empty datagram that
no counter sees and that keeps those behind it waiting (`CountersBalance` counts it
apart), a leak of the packet whose serialisation failed (`LeaksAreWriteFailures` says it
is the only one), a client that waits for ever when its one request is lost, a receive
thread that dies when Close meets AddReceiveProcessor (`NoException` is claimed only for
one-sided closing, as the repository does it), the session a duplicated request leaves
behind (`NoOrphan` is claimed until the first duplicate), the enumerator that
`serialize_enum` reads and drops (Serialization.h:454; left out of `AsWritten`), the
client's integers out of range from an altered datagram (`AcceptedIsSound` is claimed of
the server's reading), a datagram cut within its checksum, whose length turns negative
(`ReadTooShort`, after which nothing is known), programs with different packet types,
which read one packet as another in spite of the checksum (`DeliversOnlySent` is claimed
of the same types), lines that go on to the renamed file when the new one cannot be
opened (`FdIsNamed` says so), texts like "1.2.3.4:5:6" that Parse accepts, and the
client's strings: as many bytes are sent as there are characters, and a length whose
product with eight wraps sends the bit reader off its array (outcome `threw`;
`CountsAgree` says how far its count can get).  The strings of the two languages have
different formats, and no packet has one in common: the run writes and reads them in one
language.

## 5. Bounds, and why they are enough

* `GenMax` bounds `sid_gen_`; `SidSpace` stands for 65536.  In the run manager GenMax <
  SidSpace, so no identifier repeats; in manager_found and handshake it passes
  SidSpace, so identifiers meet sessions that are alive.  Three users are one
  more than a clash needs.  The proofs have no such limits.
* `Networks`, `BootMax`, `Binds`: one network duplicates two datagrams, one duplicates
  one and loses any, one brings a short request of another program; each with
  two runs of the server.  A datagram may also stay in flight for ever, which to
  an invariant is the same as being lost.  That gives every order of a
  repeated, a late and an overtaken request around a restart, and five requests in
  one run, one more than there are sids: the fifth session overwrites a live one.
  `GenMax` = 5 never stops the server from answering, because no more requests can
  reach it.  Three clients of two users are what two devices of one user and a
  bystander need.
* `Uses` in NetSocket: the way EchoTest uses it (the processor closes), the way a
  program that closes in its main thread does, and all of it at once.
  `ArriveMax` = 4: a datagram for each of the places the receive thread can be
  in when Close happens, and one more.
* `SendMax` = `ArriveMax` = 4 with queues of two: both queues overflow twice.
  Packets are interchangeable: SYMMETRY is sound, because no property names one.
* `ByteBits` and `NumWords`: three words of four bytes hold head, whole word and
  tail of a WriteBytes in every combination, with bits before and after; bytes of
  three bits give paddings of one and of two bits.  WriteBits takes every width
  up to a word.  `PadMax` limits how many paddings one packet has: two at most.
* Streams: bytes of four bits and ints of eight, so that lengths wrap (the product, as
  in 127 * 4 > 127, and its sum with the bits read) with words of sixteen bits, and
  paddings are of one to three bits.  The values are the ends of the full range, ranges
  that fill their bits and that do not, words of one bit and of all, an empty
  and a longer array, a string with a character of two bytes.  Three calls: one
  that sets the alignment, one that fails, one that reads on after it.  One
  altered bit reaches each field, padding and length; what several would do is
  not claimed.

* PacketCodec: ints of 16 bits and bytes of 8, with the layouts of the real packets:
  TestPacketB with the ends of its ranges, which do not fill their bits, and a
  CONNECTION_STOP_REQ; a header of one int, or none.  Two datagrams, of the same or of different packets and protocols, and a heap of one: the
  reader is sequential, so a second packet would only repeat the first.  Type
  counts of 104 and 106 give one program types the other does not know.
* Logger: three threads so that two may rotate while the third logs; four
  ticks of the clock, with an interval of two minutes or so, pass two midnights;
  one restart.  `Prompt` excludes, in the run logger, that an interval ends during a
  maybeRotate, which logger_delayed shows to matter.
* Address: IPv6 addresses with the longest run of zeros at the start, in the middle, at
  the end and twice, with last groups of one to four digits, and none; ports of no, one,
  two, four and five digits, and the int16_t -1.  The loops see six characters, so
  nothing longer could behave otherwise.

Deadlock is checked where a system cannot stop (manager, address).  Handshake, client
socket, interface, packer and streams end: all clients connected, both threads done, the
destructor run, the packet read or refused.

## 6. Fairness

* handshake: weak fairness of the server's handler and of each client's
  receive thread.  `first.cpp` ticks in an endless loop and each tick drains the
  socket; ReceieveData polls until its socket is closed.  Neither client starts nor
  operator actions are fair.  The network is not fair either: RequestAnswered asks
  for one that loses nothing, and for the server's last run (`BootMax`), which does
  not end; so the property says what it needs.
* NetSocket: weak fairness of the receive thread, which the runtime schedules, and
  of a Close main has begun.  What main calls after EchoTest is its own choice.
  A weakly fair receive thread may spin in Poll for ever: ReceiveEnds must come
  from m_isRunning.

No other run claims liveness.

## 7. Proofs

The first part of `ConnectionProofs` proves of the session manager, for any set of
users, any size of identifier space greater than one and any number of operations:

* `TypeCorrect` (TypeOK), `MapsAgree` (SessionsIndexed) and `EntriesAgree` (EntriesExact);
* `RegistryImplemented`: Spec implements SessionRegistry, provided GenMax < SidSpace.
  The proviso is needed: beyond it the registry's promise is what manager_found
  refutes.

They use `ManagerAssumption` only: SidSpace is a natural number above one, GenMax one,
NoSid is no sid and NoSession no session.

The argument.  EntriesExact is not inductive: that the user's entry leads to a
session of that user says nothing about the table entry which ProduceSession
is about to overwrite.  The invariant is `Consistent(mgr)`: the type, `Indexed`, and
`Exact`, which adds to EntriesExact that the keys in use are among 1 .. sid_gen
(`KeysIssued`): so, before the wrap, the entry for sid_gen + 1 is free.  It is
proved of each operation as a function of the manager's state (`RemoveConsistent`,
`StopCurrentConsistent`, `EnterConsistent`, then `ProduceConsistent` and
`DestroyConsistent`), which makes the lemmas usable for Connection too, whose
handlers apply the same functions.  `NoneOf` is what StopCurrent leaves for Enter:
the user has no session in the table.  The refinement adds GenMax's bound, shows
how Found (the registry's view of the two maps) changes, and maps Produce to
Connect and Destroy to Disconnect or a stutter.

The rest of `ConnectionProofs` proves of the handshake, for any set of clients and
users, any network, any number of restarts and the assumptions of Connection and
SessionManager: `ConnTypeCorrect`, `PeersAreAlwaysUsers`, `SidIsAlwaysOwn`,
`SidsAlwaysDistinct`, `UserAlwaysServed` and `NeverOrphaned`, which is all the run
handshake checks but liveness.  What the server does to the table is one operator,
SessionFor; `SessionForEffect` and `AnswerEffect` say what comes of it, from the lemmas
about the session manager.  Three invariants build on one another.  `TableInv`: the
tables agree (`Indexed`), every peer is a client of the session's user or a stray
program (`PeersKnown`), and before the wrap the manager is `Consistent`.  `ToldInv`: a
sid that an address was told by this run of the server, whether the answer is still in
flight or has come, has been issued, was told to no other address, and names no session
but one of that address; and the client's user has a session.  It is about the datagrams
in flight because an answer may come long after its session was replaced. `OnceInv`:
until a datagram is duplicated, of a client's request and its answer at most one is
there, there is no session of the client while its request is, and none but the one the
answer names from then on; this needs no bound on the identifiers.

A sid that was taken from an empty buffer is 0, and the sessions of this run that are in
the table before the wrap have sids from 1 on (`KeysIssued`): so `SidIsAlwaysOwn` covers
those clients too.

`SessionsAlwaysDistinct` is the registry's promise carried over: two users of the manager
never hold one session.  It combines the refinement with a lemma about the registry.

The first part of `RoundTripProofs` proves of the streams, for any calls in any ranges, any widths of int and byte, any
datagram cut or altered, from `StreamsAssumption`, `StreamOpsAssumption` and
`PowersAssumption`: `AlwaysAsWritten`, `ErrorAlwaysMeansShort`, `MeasureAlwaysBounds` and
`CountsAlwaysAgree`, which is all the run streams checks.  PowersAssumption is arithmetic,
2^(n + 1) = 2 * 2^n for the few n that occur: the provers know no more of ^ than that it
is an int, and TLC evaluates it for the constants of every run.

The work is in `StreamOpsProofs`, where each call is a function of a stream.  What a
recursive function computes needs induction, and the library's induction theorems take a
predicate, which no prover here instantiates; but its `WFMin` is about sets, and gives
`Induction` over subsets of Nat and `Recursion`, what a recursive LET function is.  So
`FromBitsOf` is proved: the bits of v, taken together again, are v modulo 2^n. `Holds(d,
from, v, n)` says that d has the bits of v at an offset; `Carries` that it has those of
a whole call.  `EncodeOK`: a call leaves what was in the buffer and adds what carries
it.  `CarriesStays`: it stays while others write behind it, and is as long as Measure
has it.  `DecodeCppOK` and `DecodeCsOK`: a reader that stands before what carries a call
and has all of its bits gives back the value, counts the bits and notes no error;
without all of them the server's call fails and notes the error, and so does the
client's, which may go on to read nonsense but can never clear it.  The two languages
differ in their strings and in what they do after a failure (`OrZeroOK`, `BothCalls`).

A reader's state is `InData`: its counts are in the data, but when it has thrown, and
then not past the last word (`ToWordOK`); `Stepped` says that a call keeps it so and
that the two counts move together when it returns true, which is CountsAgree.  What
arrives may be any bits, so these need nothing of what was written.

The invariant is `StreamsInv`: there are `marks`, the offsets at which the calls ended,
each carried from the mark before it (`Marked`); the datagram begins like what was sent,
and is shorter than the last mark if cut (`Received`); and a reader without an error
stands at the mark of the calls it has answered, while one with an error is short, and
refused if it is the server's (`InStep`).  ErrorMeansShort is the one that needs all of
it: a reader that is through without an error stands at the last mark, which a short
datagram does not reach.

At the end of StreamOpsProofs stand the helpers of NetworkUtil, at their real width:
`OneIsGreater` and `LaterIsGreater` (a sequence number is greater than each of the 32767
before it, across the wrap), `DifferenceIsDistance` (the difference leads from one to the
other modulo 65536), and `DifferenceAgrees`: sequence_difference has the sign that
sequence_greater_than says for exactly those pairs that are not 32769 to 32785 apart.
The code wraps the difference at 32786 where the comparison wraps at 32768;
the theorem gives the whole set of pairs on which the two disagree.
`ZigZagRoundTrip` holds for every 32-bit int.  No run is needed for them.

`PacketCodecProofs` proves for any packets of the known types with values in their
ranges, any headers, prefix and type counts and widths of int and byte, from
`PacketCodecAssumption` and those of StreamOps: `TransportImplemented`
(DeliversOnlySent), `AlwaysAcceptedSound`, `IntactAlwaysRead`, `NothingLeaks` and
`CodecTypeCorrect`, which is all the run codec checks.  The argument has three layers.
A list of calls: `WriteAllOK` has what a header or a packet leaves in the buffer, each
call behind the last (`Laid`), and `ReadAllOK` that a reader before it gets all of it,
or is short of bits and fails.  `FieldsOK` and `CallsOK` show that the layouts of
PacketFactory.h and any packet with them are such lists.  A datagram: `WrittenOK` says
where header, type and fields stand in it (`Layout`) and that this does not depend on
the prefix; `ReadsWhatIsThere` that a datagram which begins like it and passes the
checksum is read if and only if it has all the bits up to the last field, and then as
the packet written; `ReadIsSound` that whatever is read is a packet of the factory, in
range.  `SumPasses` combines them: the checksum is over all but the prefix, so what
passes differs in the prefix at most; it rests on the model's checksum, which never
collides.  A cut datagram lacks a whole byte, the padding less than one: so a raw packet
that was cut cannot come through either.  `ArrivalRead` has it all for one arrival.  The
programs: `CodecInv` says that every datagram is one WritePacket makes (`Honest`), that
the packets alive are those the application has, each sound, and of those sent if there
is a checksum (`Memory`), and what the last reading came to (`LastRead`). In the
refinement WritePacket is Send, a reading that succeeds Deliver, DestroyPacket Release
or, while an equal packet is alive, a stutter.

`NetSocketProofs` proves for any set of uses and any number of datagrams and errors,
from `NetSocketAssumption`: `SocketNeverUsedClosed`, `SilentWhenClosed`, `AllHandedOver`,
`NeverThrows` and `TypeCorrect`.  None of these properties is inductive.  `Closing` is
what makes the first two so: whoever is in Close past its first step, or has closed the
socket, has cleared m_isRunning for good; main is past the join only when the receive
thread has ended; and a closed socket finds the receive thread at the head of its
loop, where it can only end, because a Close inside the processor returns there.
`Counted` adds to HandedOver what keeps it: the buffer is cleared before each receive
(or an exception would hand the last datagram over again), and what is queued and
taken never exceeds what arrived, from which `TypeCorrect` has the bounds.  NoException
needs who does what in a use of one closer (`EchoUse`): the processor is there before
anything can arrive, and stays (`Wired`); only the side that may close does
(`OneCloser`); and neither thread has failed so far (`NeverFailed`).

`SocketInterfaceProofs` proves for queues of any size and any number of packets, calls
and datagrams, from `InterfaceAssumption`: `PacketsHaveOneOwner`,
`OnlyWriteFailuresLeak`, `CountersAddUp`, `NothingSentOnError` and `TypeCorrect`, which
includes that neither queue outgrows its size.  OneOwner is inductive with the
type alone: its last part, that what is queued or held is allocated, keeps ReadOne's
new packet from being one in use.  `Popped` and `Pushed` say what a step does to the
packets in a queue, and the counters' part is arithmetic over `SendSide` and
`ReadSide`, by how much a step raises each counter.  LeaksAreWriteFailures is a
cardinality: the inductive form, `LeaksCounted`, also says that the leaked packets are
finitely many, and `LeaksKept` that only WriteFails changes their set, by one packet that
OneOwner shows was not leaked before.

`LoggerProofs` proves for any number of threads, restarts and failures and any length
of the clock, from `LoggerAssumption`, `LoggerTypeCorrect`; and, for a scheduler that is
`Prompt` (the hypothesis of the four theorems; the run logger has it, and
logger_delayed shows what happens without): `NothingEverLost`, `OneRotationOnly`,
`FdIsAlwaysNamed` and `FileIsAlwaysOfTheDay`.  LoggerAssumption says that programs do
not give a log the name a rotation would make of another.  The argument: `Race` is
about the two times.  `Exchanged`: when nobody is between store and exchange, realRotate_
is of an interval no earlier than lastRotate_; `OneWinner`: of all the threads that came
away from the exchange with an old interval there is one.  `Directory` is about the
names: no rotated file is of an interval that realRotate_ has not reached, and none of
its own until the winner has renamed (`RotatedBefore`), so nothing is in the way of the
rename; every file has a name (`AllNamed`).  `FdFollows` has the name lead to the file
that is open, but from rename to dup2, and `LinesOfDay` that on a sound disk, once
realRotate_ is of a later interval than `since`, older lines are in the file only while
there is a winner to rename it.

`BitPackerProofs` proves for bytes of any size, a buffer of any length and both
languages, from `PackerAssumption`: `AlwaysReadBack`, `AssertsAlwaysHold`,
`WriterAlwaysBalanced` and `PackerTypeCorrect`.  The properties say nothing of the
registers, so none is inductive.  `WriterOK(w, ps)` says what the state of a writer
means: the words stored and the bits in the register are the bits written so far, with
zeros at the positions ps.  Each of PutBits, PutBytes, CopyWords and PutArray takes such a
writer to one with that many bits more (`Wrote`); `Portions` is the arithmetic of head,
words and tail, for any byte size.  `FlushOK` shows that after the last flush the words
up to GetBytesWritten hold what was written and zeros behind it (`Readable`), and
`ReaderOK` and `Gave` are the reader's half: the bits returned and the bits in its
register are those of the words fetched.

TypeOK of NetSocket and SocketInterface is proved and in no run.

The second part of `RoundTripProofs` is about Address.  `PrintedIsRead`: Parse makes of
what ToString prints the same address, for all 2^32 IPv4 addresses with every port, all
IPv6 addresses without a port, and those with a port whose text is unambiguous.  From it
follow `AlwaysRoundTrip` and `AddressTypeCorrect`, for any hosts, ports and texts that
satisfy `AddressAssumption` and `TextsAssumption`: a text is a sequence, and the model's
ntop6 is inet_ntop only for a host that is not printed with a dotted IPv4 tail (`Plain6`).
PrintedIsRead does not need the latter, but says less of the code where it is not so.
AddressInv is small (what is held is an address, and the copy is what Parse makes of the
text); the work is in the functions.  Each loop is recursive over positions, and
`Recursion` with `BoundedInduction` gives its steps (`NumberRecurs`, `PiecesRecur`,
`DelimitedRecurs`, `ScanRecurs`).  A number of 16 bits is printed with digits that make up
the number again, without leading zeros.  `DelimitedOK`: pieces without a delimiter in
them, made one text, are its pieces, and no delimiter stands at an end or next to another
(`Single`), so the "::" that ntop6 writes is the only gap pton6 finds (`GapText`), and the
zeros it stands for are as many as were left out (`Halves`).  An IPv4 text has too few
pieces to be taken for IPv6.  The loops leave a text alone that has no ':' among its last
six characters (`ScanUnseen`), and cut it at the port if that ':' is the only one
(`ScanFound`): here it matters that a port has five digits at the most and that the loops
look at six characters.

Only model-checked is liveness under fairness, which this prover does not do:
`RequestAnswered`, `CloseReturns` and `ReceiveEnds`.

## 8. What is not modelled

The system calls of Socket are the operating system's: the models take their
outcomes as choices.  The hash functions (CRC tables, murmur) and byte swaps would be
checked against a copy of themselves; PacketCodec takes a checksum to be different
for different data.  serialize_check is compiled out.  Of the logger: rotation
intervals that are no multiple of a minute, setFileName while a thread logs
(filename_ is a std::string, and racing on it is undefined), levels, the line's
text, syslog.  Of the addresses: the mixed notation `::ffff:1.2.3.4`, texts of more than
255 characters, and what atoi makes of blanks and signs.  Logging calls, printing,
the support headers, the test program, CMake files, and the Unity project's
settings and scenes have no state the properties could be about.

The references into a queue's popped element in SocketInterface.cpp (lines 153 to
164 and 174 to 202) are undefined behaviour which std::deque happens to survive,
because nothing is allocated in between; the model reads the entry as it was.

## 9. How to run it

`tlc -config <cfg> <module>` for a run, with module and cfg from PROJECT.json;
`tlapm <module>.tla` with each of the modules *Proofs for the proofs.  The longest
runs (handshake, streams, codec, logger) take about a minute each, the longest proofs
(BitPackerProofs, LoggerProofs, StreamOpsProofs, PacketCodecProofs, RoundTripProofs) some minutes.
