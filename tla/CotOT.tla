------------------------------- MODULE CotOT -------------------------------
(***************************************************************************)
(* One correlated oblivious transfer: Alice (the client) offers m0 and     *)
(* m1 = m0 + x, Bob (the server) obtains the one his bit selects.          *)
(*    client/src/ot_protocol.ts  (AliceOT)                                 *)
(*    server/src/ot_protocol.cpp (BobOT)                                   *)
(* The addition of points, SHA-256 and XOR are constant operators,         *)
(* constrained by the assumptions the protocol relies on; multiplication   *)
(* is the client's loop over the addition.  The server multiplies with     *)
(* trezor-crypto, which has to return the same points.                     *)
(***************************************************************************)
EXTENDS Scalars, DoubleAndAdd

CONSTANTS
  BasePoint,         \* GENERATOR
  Neg(_),            \* negatePoint
  Word,              \* the 32-byte strings
  XCoord(_),         \* get_x_coordinate / getXCoordinate
  DeriveKey(_),      \* derive_key / deriveKey: SHA-256
  XorEncrypt(_, _)   \* xor_encrypt / xorEncrypt

\* The points form a group of prime order N: its elements are taken to infinity by
\* N and, N being prime, by no smaller scalar (a lemma, not an assumption).
ASSUME GroupAssumption ==
  /\ BasePoint \in Point
  /\ \A P \in Point : Neg(P) \in Point /\ Add(P, Neg(P)) = Infinity
  /\ \A P \in Point : Multiple(N, P) = Infinity
  /\ \A d \in 2 .. (N-1) : N % d # 0

ASSUME KeyAssumption ==
  /\ Residue \subseteq Word /\ Word \subseteq Nat
  /\ \A P \in Point : DeriveKey(XCoord(P)) \in Word
  /\ \A m, k \in Word : XorEncrypt(m, k) \in Word /\ XorEncrypt(XorEncrypt(m, k), k) = m
-----------------------------------------------------------------------------
\* scalar_multiply_g / scalarMultiplyG, scalar_multiply_point / scalarMultiplyPoint
MulG(s)   == ScalarMultiply(s, BasePoint)
Mul(s, P) == ScalarMultiply(s, P)

KeyOf(P) == DeriveKey(XCoord(P))

PointSubtract(P, Q) == Add(P, Neg(Q))

(* BobOT *)

\* The key process_init derives from Alice's point A.
BobKey(b, A) == KeyOf(Mul(b, A))

\* mutant: the choice bit inverted
BobPointInverted(bit, b, A) == IF bit = 1 THEN MulG(b) ELSE Add(MulG(b), A)

\* The point process_init answers; Infinity is point_add's nullopt.
BobPoint(bit, b, A) == IF bit = 0 THEN MulG(b) ELSE Add(MulG(b), A)

\* decrypt_message
BobDecrypt(bit, key, encrypted) ==
  XorEncrypt(IF bit = 0 THEN encrypted.m0 ELSE encrypted.m1, key)

(* AliceOT *)

\* pointSubtract throws when B = A: the difference has no encoding.
AliceRefuses(a, B) == PointSubtract(B, MulG(a)) = Infinity

\* mutant: both messages under the key of aB
AliceEncryptOneKey(a, B, m0, x) ==
  [ m0 |-> XorEncrypt(m0,            KeyOf(Mul(a, B))),
    m1 |-> XorEncrypt(ModAdd(m0, x), KeyOf(Mul(a, B))) ]

\* processResponse, with m1 = modAdd(m0, x) of the caller.
AliceEncrypt(a, B, m0, x) ==
  [ m0 |-> XorEncrypt(m0,            KeyOf(Mul(a, B))),
    m1 |-> XorEncrypt(ModAdd(m0, x), KeyOf(Mul(a, PointSubtract(B, MulG(a))))) ]
=============================================================================
