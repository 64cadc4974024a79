-------------------------- MODULE ServerCryptoOps --------------------------
(***************************************************************************)
(* CryptoOps of server/src/crypto_ops.cpp, on the curve y^2 = x^3 + 7 of   *)
(* CryptoOps.tla.  A curve_point is a pair of numbers, (0, 0) at infinity; *)
(* trezor-crypto compares the limbs of coordinates and not their residues. *)
(* An encoding is a prefix and an x coordinate, an empty optional Nullopt. *)
(***************************************************************************)
EXTENDS ServerScalars

CONSTANTS Field, GeneratorX, GeneratorY

Nullopt    == <<0, 0>>
NoPoint    == [x |-> -1, y |-> -1]
AtInfinity == [x |-> 0, y |-> 0]
Generator  == [x |-> GeneratorX, y |-> GeneratorY]

\* the remainder that bn_fast_mod and bn_mod, or bn_inverse, end with
Reduced(value) == value % Field
Inverse(value) ==
  IF Reduced(value) = 0 THEN 0
  ELSE CHOOSE i \in 1 .. (Field-1) : (i * Reduced(value)) % Field = 1
-----------------------------------------------------------------------------
(* trezor-crypto: point_add, point_multiply, ecdsa_read_pubkey.            *)

PointDouble(P) ==
  LET lambda == Reduced(3 * P.x * P.x * Inverse(2 * P.y))
      xr     == Reduced(lambda * lambda - 2 * P.x)
  IN  [x |-> xr, y |-> Reduced(lambda * (P.x - xr) - P.y)]

\* The line through P and Q, with the differences that bn_subtractmod computes.
Chord(P, Q) ==
  LET inv    == Inverse(BnSubtractMod(Q.x, P.x, Field))
      lambda == Reduced(BnSubtractMod(Q.y, P.y, Field) * inv)
      xr     == Reduced(lambda * lambda - P.x - Q.x)
  IN  { [x |-> xr, y |-> Reduced(BnSubtractMod(t, P.y, Field))] :
          t \in BnMultiply(lambda, BnSubtractMod(P.x, xr, Field), Field) }

\* The possible values of cp2 after ::point_add(&curve, &cp1, &cp2).
TrezorAdd(cp1, cp2) ==
  IF cp1 = AtInfinity THEN {cp2}
  ELSE IF cp2 = AtInfinity THEN {cp1}
  ELSE IF cp1 = cp2 THEN {PointDouble(cp2)}
  ELSE IF cp1.x = cp2.x /\ cp1.y # 0 THEN {AtInfinity}
  ELSE Chord(cp1, cp2)

\* point_multiply and scalar_multiply: k times P
TrezorMultiply(k, P) ==
  LET times[i \in 0 .. k] ==
        IF i = 0 THEN AtInfinity ELSE CHOOSE R \in TrezorAdd(P, times[i-1]) : TRUE
  IN  times[k]

\* decode_point: on the curve, both coordinates below the prime, y of the parity
\* that the prefix names.  A Point has 33 bytes and every one that is received or
\* encoded here has prefix 2 or 3: the form with both coordinates after a prefix 4,
\* which ecdsa_read_pubkey also reads, is left out.
DecodePoint(point) ==
  LET roots == { y \in 0 .. (Field-1) :
                   /\ (y * y) % Field = (point[2] * point[2] * point[2] + 7) % Field
                   /\ y % 2 = point[1] % 2 }
  IN  IF point[1] \notin {2, 3} \/ point[2] >= Field \/ roots = {}
      THEN NoPoint
      ELSE [x |-> point[2], y |-> CHOOSE y \in roots : TRUE]

EncodePoint(P) == << IF P.y % 2 = 1 THEN 3 ELSE 2, P.x >>
-----------------------------------------------------------------------------
(* Points.                                                                 *)

ScalarMultiplyG(scalar) ==
  IF IsValidScalar(scalar) THEN EncodePoint(TrezorMultiply(scalar, Generator)) ELSE Nullopt

ScalarMultiplyPoint(scalar, point) ==
  IF ~IsValidScalar(scalar) \/ DecodePoint(point) = NoPoint
  THEN Nullopt
  ELSE EncodePoint(TrezorMultiply(scalar, DecodePoint(point)))

\* An empty optional for a sum without encoding.
Encoded(P) == IF P = AtInfinity THEN Nullopt ELSE EncodePoint(P)

\* mutant: the point at infinity is encoded like any other
PointAddUnchecked(lhs, rhs) ==
  IF DecodePoint(lhs) = NoPoint \/ DecodePoint(rhs) = NoPoint
  THEN {Nullopt}
  ELSE { EncodePoint(R) : R \in TrezorAdd(DecodePoint(lhs), DecodePoint(rhs)) }

PointAdd(lhs, rhs) ==
  IF DecodePoint(lhs) = NoPoint \/ DecodePoint(rhs) = NoPoint
  THEN {Nullopt}
  ELSE { Encoded(R) : R \in TrezorAdd(DecodePoint(lhs), DecodePoint(rhs)) }

PointNegate(point) ==
  IF point[1] \notin {2, 3} THEN Nullopt ELSE << 5 - point[1], point[2] >>

\* right->y becomes prime + 2*prime - y, which is not even partly reduced, and is
\* given to point_add in this form.
PointSubtract(lhs, rhs) ==
  LET left  == DecodePoint(lhs)
      right == DecodePoint(rhs)
      negY  == BnSubtractMod(Field, right.y, Field)
  IN  IF left = NoPoint \/ right = NoPoint
      THEN {Nullopt}
      ELSE { Encoded(R) : R \in TrezorAdd([right EXCEPT !.y = negY], left) }

GetXCoordinate(point) == IF point[1] \notin {2, 3} THEN -1 ELSE point[2]
-----------------------------------------------------------------------------
(* BobOT.                                                                  *)

\* The point shared with Alice, of which process_init hashes the x coordinate.
SharedX(secretB, aPoint) == GetXCoordinate(ScalarMultiplyPoint(secretB, aPoint))

\* mutant: Alice's point is added for the other bit
ProcessInitInverted(choiceBit, secretB, aPoint) ==
  IF choiceBit = 1 THEN {ScalarMultiplyG(secretB)}
  ELSE PointAdd(ScalarMultiplyG(secretB), aPoint)

ProcessInit(choiceBit, secretB, aPoint) ==
  IF ScalarMultiplyPoint(secretB, aPoint) = Nullopt THEN {Nullopt}
  ELSE IF choiceBit = 0 THEN {ScalarMultiplyG(secretB)}
  ELSE PointAdd(ScalarMultiplyG(secretB), aPoint)
=============================================================================
