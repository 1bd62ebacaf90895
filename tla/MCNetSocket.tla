---------------------------- MODULE MCNetSocket -----------------------------
(* The client socket used as EchoTest does, closed by the main thread only,  *)
(* and used by both threads in every way.                                    *)
EXTENDS NetSocket

MCUses == {[main |-> {}, handlerCloses |-> TRUE],
           [main |-> {"Close"}, handlerCloses |-> FALSE],
           [main |-> {"Add", "Remove", "Close"}, handlerCloses |-> TRUE]}
=============================================================================
