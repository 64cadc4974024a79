--------------------------- MODULE MCFramedSocket ---------------------------
(* Bytes of one bit: the header counts in binary and bodies may look like   *)
(* headers.                                                                 *)
EXTENDS FramedSocket

MCBody == {<<>>, <<0, 0, 1>>}
=============================================================================
