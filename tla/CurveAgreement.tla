--------------------------- MODULE CurveAgreement ---------------------------
(***************************************************************************)
(* The same arithmetic twice: CryptoOps of the client, in TypeScript, and  *)
(* CryptoOps of the server, in C++ over trezor-crypto.  A transfer uses    *)
(* both: what one side computes the other takes apart.  The behaviours are *)
(* those of CurveGroup: sum is n times point.                              *)
(***************************************************************************)
EXTENDS CurveGroup

CONSTANTS Bound, Capacity     \* the widths of a 32-byte string and a bignum256

\* 2^256 is above the prime, and 2^270 far above it.
ASSUME FieldWidthAssumption ==
  Bound \in Nat /\ Capacity \in Nat /\ Field <= Bound /\ 4 * Field <= Capacity

Server == INSTANCE ServerCryptoOps

Scalars == 1 .. (Order-1)
-----------------------------------------------------------------------------
\* On every pair of points the server's scalar multiplication, sum, negation and x
\* coordinate are what the client computes, with an empty optional exactly where the
\* client finds no encoding: in particular they do not depend on carries between
\* limbs.  Nothing is said of point_subtract, which no session calls and which is not
\* the client's subtraction (MathCheck): process_init only multiplies and adds.
ServerPointsAgree ==
  LET P == EncodeCompressedPoint(sum)
      Q == EncodeCompressedPoint(point)
  IN  /\ n \in Scalars => Server!ScalarMultiplyPoint(n, Q) = P
      /\ ~sum.infinity =>
           /\ Server!PointAdd(P, Q) = {PointAdd(P, Q)}
           /\ Server!PointNegate(P) = PointNegate(P)
           /\ Server!GetXCoordinate(P) = GetXCoordinate(P)

\* A transfer across the two languages, with Alice's ephemeral scalar n and any b
\* of Bob's.  Bob's point exists and Alice's subtraction from it has an encoding
\* unless one collision of a and b happens, one for each bit; otherwise the key
\* under which the client encrypts the chosen message is the one the server
\* derived, and the other message is under another key, except where a = 2b or
\* a = -2b.
KeysAcrossLanguages ==
  point = Generator /\ n \in Scalars =>
    LET A == EncodeCompressedPoint(sum) IN
    \A b \in Scalars, bit \in {0, 1} : \A B \in Server!ProcessInit(bit, b, A) :
      LET bobs    == Server!SharedX(b, A)
          unusual == IF bit = 1 THEN b = Order - n ELSE b = n
          keyM0   == GetXCoordinate(ScalarMultiplyPoint(n, B))
          keyM1   == GetXCoordinate(ScalarMultiplyPoint(n, PointSubtract(B, A)))
      IN  /\ unusual <=> (B = Server!Nullopt \/ PointSubtract(B, A) = NoEncoding)
          /\ ~unusual =>
               IF bit = 0
               THEN keyM0 = bobs /\ (keyM1 = bobs <=> n = (2 * b) % Order)
               ELSE keyM1 = bobs /\ (keyM0 = bobs <=> n = (-2 * b) % Order)
=============================================================================
