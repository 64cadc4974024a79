---------------------------- MODULE FrameChannel ----------------------------
(***************************************************************************)
(* What the framing layer promises either direction of the connection:     *)
(* bodies come out whole, in the order they were written, none twice.      *)
(***************************************************************************)
EXTENDS Naturals, Sequences

CONSTANT Body

VARIABLES sent,       \* the bodies given to write, in order
          received    \* the bodies read has returned, in order

Init == sent = <<>> /\ received = <<>>

Write(body) == sent' = Append(sent, body) /\ UNCHANGED received

Read ==
  /\ Len(received) < Len(sent)
  /\ received' = Append(received, sent[Len(received) + 1])
  /\ UNCHANGED sent

Next == Read \/ \E body \in Body : Write(body)

Spec == Init /\ [][Next]_<<sent, received>>
=============================================================================
