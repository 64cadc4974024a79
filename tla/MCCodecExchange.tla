-------------------------- MODULE MCCodecExchange --------------------------
(* Every bit index of a session, and one that needs the longest varint.    *)
EXTENDS CodecExchange

MCBitIndex == (0 .. 255) \cup {2147483647}
=============================================================================
