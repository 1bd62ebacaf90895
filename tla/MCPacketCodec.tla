---------------------------- MODULE MCPacketCodec -----------------------------
(* Instance of the codec: a packet with ranges that do not fill their bits,   *)
(* a command, and headers of no field and of one.                             *)
EXTENDS PacketCodec

MCPackets == {[type |-> TEST_PACKET_B, values |-> <<<<-5>>, <<5>>>>],
              [type |-> RUDP_CMD_CONNECTION_STOP_REQ, values |-> <<<<103>>, <<65535>>, <<1>>>>]}
MCHeaders == {<< >>, <<IntField(0, 2)>>}
=============================================================================
