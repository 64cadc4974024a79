---------------------------- MODULE MCReadFramed ----------------------------
(* Bytes of one bit, as in MCFramedSocket.                                  *)
EXTENDS ReadFramed

MCBody == {<<>>, <<1>>, <<0, 0, 1>>}
=============================================================================
