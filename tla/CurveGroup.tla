----------------------------- MODULE CurveGroup -----------------------------
(***************************************************************************)
(* What the curve arithmetic of CryptoOps has to be: a group of Order      *)
(* elements in which scalarMultiply is repeated addition.  The behaviours  *)
(* add a point to itself, one addition at a time, until the sum is at      *)
(* infinity; the algorithms are compared with the sum at every step.       *)
(***************************************************************************)
EXTENDS CryptoOps

VARIABLES point,   \* a point of the curve
          n,       \* how many times it has been added
          sum      \* what it has added up to

groupVars == <<point, n, sum>>

GroupInit == point \in OnCurve /\ n = 0 /\ sum = Infinite

AddOnce ==
  /\ n < Order
  /\ n' = n + 1 /\ sum' = AddPoints(sum, point)
  /\ UNCHANGED point

\* The sum is at infinity again.
Cycled == n = Order /\ UNCHANGED groupVars

GroupNext == AddOnce \/ Cycled

GroupSpec == GroupInit /\ [][GroupNext]_groupVars
-----------------------------------------------------------------------------
\* addPoints takes three shortcuts (infinity on either side, opposite points) and
\* has two formulas for the slope: all of them together are commutative and
\* associative, and negatePoint gives the inverse.
GroupLaw ==
  /\ AddPoints(sum, point) = AddPoints(point, sum)
  /\ AddPoints(sum, NegatePoint(sum)) = Infinite
  /\ \A P \in Element :
       AddPoints(AddPoints(sum, point), P) = AddPoints(sum, AddPoints(point, P))

\* Double-and-add is repeated addition, for every scalar the program draws, and
\* never meets infinity there: a scalar multiple always has an encoding.
MultiplicationIsRepeatedAddition ==
  n \in 1 .. (Order-1) => sum # Infinite /\ ScalarMultiply(n, point) = sum

\* Every point survives its encoding, which keeps only the parity of y: the square
\* root of decode and the choice between the two roots agree with encode.
EncodingInvertible ==
  ~sum.infinity => DecodeCompressedPoint(EncodeCompressedPoint(sum)) = sum
=============================================================================
