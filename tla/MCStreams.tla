----------------------------- MODULE MCStreams ------------------------------
(* Instance of the streams: bytes of four bits, ints of eight.  A range that  *)
(* does not fill its bits, the full range, and 0 up; an empty, a short and a  *)
(* longer array; a string of single-byte characters and one that is not.      *)
EXTENDS Streams

MCInts == {<<-128, -128, 127>>, <<127, -128, 127>>, <<0, -1, 1>>, <<2, 0, 2>>}
MCWords == {<<1, 1>>, <<5, 3>>, <<151, 8>>}
MCLongs == {<<9, 138>>}
MCByteArrays == {<< >>, <<9>>, <<5, 10>>}
MCStrings == {[bytes |-> <<6>>, chars |-> 1], [bytes |-> <<12, 3>>, chars |-> 1]}
=============================================================================
