-------------------------- MODULE MCSocketInterface -------------------------
(* Instances of the socket interface: heap addresses are interchangeable.    *)
EXTENDS SocketInterface, TLC

PacketSymmetry == Permutations(Packet)
=============================================================================
