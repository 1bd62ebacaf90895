----------------------------- MODULE PacketCodec ------------------------------
(* WritePacket and ReadPacket of Network.cpp, as PacketProcessor.cpp calls    *)
(* them, with the packets PacketFactory.cpp creates: a datagram is prefix,    *)
(* checksum, header, packet type and the packet's own fields.  Whatever was   *)
(* written may be read any number of times, in any order, whole, cut short or *)
(* with a bit altered.                                                        *)
EXTENDS StreamOps

CONSTANTS Packets,      \* the packets a program writes: their type and values
          Headers,      \* what may be serialised before a packet; << >> is no header
          TypeCounts,   \* what programs give to SetNumPacketTypes
          PrefixBytes,  \* info.prefixBytes; 1 in PacketProcessor
          Own, Foreign, \* protocol ids
          WriteMax, HeapMax   \* bounds on the datagrams and the packets alive

-----------------------------------------------------------------------------
\* PacketFactory.h: the packet types and what their Serialize() calls.

TEST_PACKET_A == 0
TEST_PACKET_B == 1
TEST_PACKET_C == 2
RUDP_CMD_DATA == 100
RUDP_CMD_CONNECTION_START_REQ == 101
RUDP_CMD_CONNECTION_START_RSP == 102
RUDP_CMD_CONNECTION_STOP_REQ  == 103
RUDP_CMD_CONNECTION_STOP_RSP  == 104
RUDP_CMD_HEARTBEAT == 105
TEST_PACKET_NUM_TYPES == 106

IntField(min, max) == [op |-> "int", value |-> <<0>>, min |-> min, max |-> max]
BitField(n) == [op |-> "bits", value |-> <<0>>, size |-> n]
LongField   == [op |-> "uint64", value |-> <<0, 0>>]
CmdAndSid   == <<BitField(8), BitField(16)>>

TestPacketA == <<IntField(-10, 10), IntField(-20, 20), IntField(-30, 30)>>
TestPacketB == <<IntField(-5, 5), IntField(-5, 5)>>
TestPacketC == [i \in 1 .. 16 |-> IntField(0, 255)]
ConnectionHeartBeat == CmdAndSid
ConnectionStartReq  == CmdAndSid \o <<LongField>>
ConnectionStartRsp  == CmdAndSid
ConnectionStopReq   == CmdAndSid \o <<BitField(8)>>
ConnectionStopRsp   == CmdAndSid \o <<BitField(8)>>

\* What CreatePacket() knows; it has no packet for RUDP_CMD_DATA.
Registered == {TEST_PACKET_A, TEST_PACKET_B, TEST_PACKET_C,
               RUDP_CMD_CONNECTION_START_REQ, RUDP_CMD_CONNECTION_START_RSP,
               RUDP_CMD_CONNECTION_STOP_REQ, RUDP_CMD_CONNECTION_STOP_RSP, RUDP_CMD_HEARTBEAT}

Fields == [type \in Registered |->
    CASE type = TEST_PACKET_A -> TestPacketA
      [] type = TEST_PACKET_B -> TestPacketB
      [] type = TEST_PACKET_C -> TestPacketC
      [] type = RUDP_CMD_CONNECTION_START_REQ -> ConnectionStartReq
      [] type = RUDP_CMD_CONNECTION_START_RSP -> ConnectionStartRsp
      [] type = RUDP_CMD_CONNECTION_STOP_REQ -> ConnectionStopReq
      [] type = RUDP_CMD_CONNECTION_STOP_RSP -> ConnectionStopRsp
      [] type = RUDP_CMD_HEARTBEAT -> ConnectionHeartBeat]

PacketsRead == [type : Registered, values : Seq(Seq(Int))]

\* The calls of a packet's Serialize(), with the values it has.
Calls(p) == [i \in 1 .. Len(Fields[p.type]) |-> [Fields[p.type][i] EXCEPT !.value = p.values[i]]]

ASSUME PacketCodecAssumption ==
    /\ IntBits % ByteBits = 0 /\ IntBits >= 16 /\ PrefixBytes \in Nat
    /\ \A p \in Packets : /\ p \in PacketsRead /\ Len(p.values) = Len(Fields[p.type])
                          /\ \A i \in 1 .. Len(p.values) : Legal(Calls(p)[i], "cpp")
    /\ \A h \in Headers : Len(h) \in Nat /\ \A i \in 1 .. Len(h) : Legal(h[i], "cpp")
    /\ TypeCounts \subseteq 1 .. IntMax /\ Own # Foreign
    /\ WriteMax \in Nat \ {0} /\ HeapMax \in Nat \ {0}

VARIABLES rawFormat, header, writerTypes, readerTypes,  \* how the programs are set up
          written,   \* the datagrams written: bits, checksum, and protocol id
          sent,      \* the packets written with the reader's protocol id
          heap,      \* the packets alive in the reader's program
          held,      \* those the application has
          last       \* what was read last, and what came of it

codecVars == <<rawFormat, header, writerTypes, readerTypes, written, sent, heap, held, last>>
setup == <<rawFormat, header, writerTypes, readerTypes>>

NoSum   == << >>        \* rawFormat
Garbled == <<0>>
NoPacket == [type |-> -1, values |-> << >>]
Errors == {"none", "crc32_mismatch", "serialize_header_failed", "invalid_packet_type",
           "create_packet_failed", "serialize_packet_failed", "stream_overflow", "undefined"}

TypeOK == /\ rawFormat \in BOOLEAN /\ header \in Headers
          /\ writerTypes \in TypeCounts /\ readerTypes \in TypeCounts
          /\ Len(written) <= WriteMax
          /\ \A i \in DOMAIN written : Len(written[i].bits) % ByteBits = 0
          /\ sent \subseteq Packets
          /\ heap \in [1 .. HeapMax -> PacketsRead \cup {NoPacket}] /\ held \subseteq 1 .. HeapMax
          /\ last.how \in {"nothing", "whole", "altered", "cut"} /\ last.error \in Errors

-----------------------------------------------------------------------------
\* WritePacket.

PrefixBits == PrefixBytes * ByteBits
Rest(bits) == SubSeq(bits, PrefixBits + 1, Len(bits))

\* Fault: the protocol id is left out
ChecksumOfData(id, bits) == <<Own, Rest(bits)>>

\* calculate_crc32 over protocol id, zeros and what follows, taken not to collide.
Checksum(id, bits) == <<id, Rest(bits)>>

\* Fault: the sum starts at the buffer, with the prefix
StampFromStart(id, bits) == IF rawFormat THEN NoSum ELSE <<id, bits>>

Stamp(id, bits) == IF rawFormat THEN NoSum ELSE Checksum(id, bits)

WriteAll(s, calls) ==
    LET buffer[n \in 0 .. Len(calls)] ==
            IF n = 0 THEN s ELSE Encode(buffer[n - 1], calls[n], "cpp")
    IN buffer[Len(calls)]

WriteType(s, type) == IF writerTypes > 1 THEN WriteInteger(s, type, 0, writerTypes - 1) ELSE s

\* Fault: the stream is not flushed
WrittenUnflushed(p) ==
    WriteAll(WriteType([i \in 1 .. PrefixBits |-> 0], p.type), Calls(p))

\* The checksum's own four bytes stay out of bits; they do not change the alignment.
Written(p) ==
    LET prefix == [i \in 1 .. PrefixBits |-> 0]
    IN WriteAlign(WriteAll(WriteType(WriteAll(prefix, header), p.type), Calls(p)))

WritePacket(p, id) ==
    /\ Len(written) < WriteMax /\ p.type < writerTypes /\ last.error # "undefined"
    /\ Len(Written(p)) <= IntMax  \* a buffer's bits are counted in an int
    /\ written' = Append(written,
                         [bits |-> Written(p), id |-> id, sum |-> Stamp(id, Written(p))])
    /\ sent' = IF id = Own THEN sent \cup {p} ELSE sent
    /\ UNCHANGED <<setup, heap, held, last>>

-----------------------------------------------------------------------------
\* ReadPacket.

ReadPrefix(bits) ==
    LET stream[n \in 0 .. PrefixBytes] ==
            IF n = 0 THEN NewReader(bits) ELSE SerializeBits(stream[n - 1], ByteBits)
    IN stream[PrefixBytes]

\* Serialize() returns at the first call that fails.
ReadOne(a, c) == IF ~a.stream.ok THEN a
                 ELSE LET s == DecodeCpp(a.stream, c)
                      IN [stream |-> s, values |-> Append(a.values, s.value)]

ReadAll(r, calls) ==
    LET after[n \in 0 .. Len(calls)] ==
            IF n = 0 THEN [stream |-> [r EXCEPT !.ok = TRUE], values |-> << >>]
            ELSE ReadOne(after[n - 1], calls[n])
    IN after[Len(calls)]

ReadType(r) == IF readerTypes > 1 THEN SerializeInteger(r, 0, readerTypes - 1)
               ELSE [r EXCEPT !.ok = TRUE, !.value = <<0>>]

Result(error, packet) == [error |-> error, packet |-> packet]
Refused(error) == Result(error, NoPacket)

Fill(r, type) ==
    LET body == ReadAll(r, Fields[type])
    IN IF ~body.stream.ok THEN Refused("serialize_packet_failed")
       ELSE IF body.stream.error THEN Refused("stream_overflow")
       ELSE Result("none", [type |-> type, values |-> body.values])

Read(d) ==
    LET head == ReadAll(ReadPrefix(d.bits), header).stream
        type == ReadType(head)
    IN IF d.sum # NoSum /\ d.sum # Checksum(Own, d.bits) THEN Refused("crc32_mismatch")
       ELSE IF ~head.ok THEN Refused("serialize_header_failed")
       ELSE IF ~type.ok THEN Refused("invalid_packet_type")
       ELSE IF type.value[1] \notin Registered THEN Refused("create_packet_failed")
       ELSE Fill(type, type.value[1])

CreatePacket(o, p)  == [heap EXCEPT ![o] = p]
DestroyPacket(h, o) == [h EXCEPT ![o] = NoPacket]

\* The packet was created, and the reading of it failed.
CreatedInVain(r) == r.error \in {"serialize_packet_failed", "stream_overflow"}

\* Fault: the packet that could not be read is not destroyed
Forget(o, r) == CreatePacket(o, [type |-> 0, values |-> << >>])

Discard(o, r) == DestroyPacket(CreatePacket(o, r.packet), o)

\* What may come of a datagram on its way.
Alter(d) == {[d EXCEPT !.bits[i] = 1 - @] : i \in DOMAIN d.bits}
            \cup IF rawFormat THEN {} ELSE {[d EXCEPT !.sum = Garbled]}
Cut(d) == LET bytes == Len(d.bits) \div ByteBits
          IN {[d EXCEPT !.bits = SubSeq(@, 1, n * ByteBits)] :
                 n \in (IF rawFormat THEN 1 ELSE PrefixBytes) .. bytes - 1}

Arrivals(d) == {[how |-> "whole", d |-> d]}
               \cup {[how |-> "altered", d |-> a] : a \in Alter(d)}
               \cup {[how |-> "cut", d |-> c] : c \in Cut(d)}

ReadPacket(i, a, o) ==
    LET r == Read(a.d) IN
    /\ last.error # "undefined" /\ heap[o] = NoPacket
    /\ last' = [how |-> a.how, error |-> r.error, own |-> a.d.id = Own]
    /\ heap' = IF r.error = "none" THEN CreatePacket(o, r.packet)
               ELSE IF CreatedInVain(r) THEN Discard(o, r) ELSE heap
    /\ held' = IF r.error = "none" THEN held \cup {o} ELSE held
    /\ UNCHANGED <<setup, written, sent>>

\* Cut in the checksum or before: the length of what follows it is negative, and
\* as a size_t leads calculate_crc32 through the whole memory.
ReadTooShort(i) == /\ last.error # "undefined" /\ ~rawFormat
                   /\ last' = [how |-> "cut", error |-> "undefined", own |-> written[i].id = Own]
                   /\ UNCHANGED <<setup, written, sent, heap, held>>

Release(o) == /\ o \in held /\ last.error # "undefined"
              /\ heap' = DestroyPacket(heap, o)
              /\ held' = held \ {o}
              /\ UNCHANGED <<setup, written, sent, last>>

Init == /\ rawFormat \in BOOLEAN /\ header \in Headers
        /\ writerTypes \in TypeCounts /\ readerTypes \in TypeCounts
        /\ written = << >> /\ sent = {}
        /\ heap = [o \in 1 .. HeapMax |-> NoPacket] /\ held = {}
        /\ last = [how |-> "nothing", error |-> "none", own |-> TRUE]

Next == \/ \E p \in Packets, id \in {Own, Foreign} : WritePacket(p, id)
        \/ \E i \in DOMAIN written : \/ \E a \in Arrivals(written[i]), o \in 1 .. HeapMax :
                                           ReadPacket(i, a, o)
                                     \/ ReadTooShort(i)
        \/ \E o \in 1 .. HeapMax : Release(o)

Spec == Init /\ [][Next]_codecVars

-----------------------------------------------------------------------------
\* Properties.

(* With a checksum, and both programs having the same types, every packet the *)
(* application gets was written by a program of the same protocol, field for  *)
(* field: the codec implements PacketTransport over a network that alters,    *)
(* cuts, repeats and mixes datagrams.                                         *)
SameTypes == writerTypes = readerTypes

Transport == INSTANCE PacketTransport
    WITH Packet <- Packets,
         inbox  <- IF rawFormat \/ ~SameTypes THEN {} ELSE {heap[o] : o \in held}

DeliversOnlySent == Transport!Spec

(* Without one, and whatever the two programs take for the number of types,   *)
(* no packet comes through with a field out of its range, nor a cut one.      *)
AcceptedIsSound ==
    /\ \A o \in held : \A i \in DOMAIN Fields[heap[o].type] :
          LET c == Fields[heap[o].type][i]
          IN c.op = "int" => heap[o].values[i][1] \in c.min .. c.max
    /\ last.how = "cut" /\ SameTypes => last.error # "none"

(* What arrives unharmed is read, and with a checksum nothing fails later:    *)
(* the six other errors are for raw packets and for programs that differ.     *)
IntactIsRead ==
    SameTypes =>
        /\ last.how = "whole" /\ (last.own \/ rawFormat) => last.error = "none"
        /\ ~rawFormat => last.error \in {"none", "crc32_mismatch", "undefined"}

(* No packet that ReadPacket creates is left behind when the reading fails.   *)
NoLeak == {o \in 1 .. HeapMax : heap[o] # NoPacket} = held
=============================================================================
