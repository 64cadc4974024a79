------------------------- MODULE MCServerLifecycle -------------------------
(* Two servers, so that one is restarted or races the other, and three     *)
(* clients: one more than wait at a server that has not accepted.  The two *)
(* port arguments have the same lower 16 bits; a client refuses one.       *)
EXTENDS ServerLifecycle
=============================================================================
