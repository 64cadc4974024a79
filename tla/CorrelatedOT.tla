---------------------------- MODULE CorrelatedOT ----------------------------
(***************************************************************************)
(* What a session promises, whatever carries it: Bob picks y, and every    *)
(* transfer hands Alice a mask u and Bob u + y_i * x, both at once, in the *)
(* order of the bits of y.  A run may stop after any transfer.  K such     *)
(* transfers are additive shares of x * y.                                 *)
(***************************************************************************)
EXTENDS Scalars

CONSTANTS Secret,     \* the multiplicative shares x and y are drawn from it
          Mask        \* the masks are drawn from it

ASSUME DrawAssumption == Secret \subseteq Scalar /\ Mask \subseteq Scalar

VARIABLES x,      \* Alice's multiplicative share
          y,      \* Bob's, 0 until he has picked it
          us,     \* Alice's masks
          mcs     \* what Bob received

vars == <<x, y, us, mcs>>

Init == x \in Secret /\ y = 0 /\ us = <<>> /\ mcs = <<>>

Choose == y = 0 /\ y' \in Secret /\ UNCHANGED <<x, us, mcs>>

Transfer ==
  /\ y # 0
  /\ Len(mcs) < K
  /\ \E u \in Mask :
       /\ us'  = Append(us, u)
       /\ mcs' = Append(mcs, (u + GetBit(y, Len(mcs)) * x) % N)
  /\ UNCHANGED <<x, y>>

Next == Choose \/ Transfer

Spec == Init /\ [][Next]_vars
-----------------------------------------------------------------------------
TypeOK ==
  /\ x \in Secret
  /\ y \in Secret \cup {0}
  /\ us \in Seq(Mask)
  /\ mcs \in Seq(Residue)
  /\ Len(us) = Len(mcs)
  /\ Len(mcs) <= K

\* After K transfers the two aggregates add up to the product.
SharesMultiply ==
  Len(mcs) = K =>
    Verify(x, y, ComputeAliceShare(us), ComputeBobShare(mcs))
=============================================================================
