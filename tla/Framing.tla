------------------------------ MODULE Framing ------------------------------
(***************************************************************************)
(* The encoding both programs give a frame: four bytes with the length of  *)
(* the body, most significant first, and the body.                         *)
(***************************************************************************)
EXTENDS Integers, Sequences, SequencesExt

CONSTANTS
  Base,       \* the values of a byte, 256 in the code
  Body,       \* the bodies written: sequences of bytes
  MaxFrames   \* bound: how many bodies are written

Byte       == 0 .. (Base - 1)
HeaderSize == 4

ASSUME FramingAssumption ==
  /\ Base \in Nat /\ Base > 1
  /\ \A body \in Body : body \in Seq(Byte) /\ Len(body) < Base * Base * Base * Base
  /\ MaxFrames \in Nat

\* writeUInt32BE, and the shifts and masks of write_framed
Header(size) ==
  << (size \div (Base * Base * Base)) % Base,
     (size \div (Base * Base)) % Base,
     (size \div Base) % Base,
     size % Base >>

\* readUInt32BE, and the shifts of read_framed
HeaderSizeOf(h) ==
  h[1] * Base * Base * Base + h[2] * Base * Base + h[3] * Base + h[4]

Encode(body) == Header(Len(body)) \o body
=============================================================================
