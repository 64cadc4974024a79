----------------------------- MODULE CryptoOps -----------------------------
(***************************************************************************)
(* The curve arithmetic of client/src/crypto_ops.ts, on any curve          *)
(*      y^2 = x^3 + 7   over the integers modulo a prime Field.            *)
(* The loops are recursive functions of the variables they assign.  An     *)
(* encoding of 33 bytes is the pair of its prefix and its x coordinate.    *)
(***************************************************************************)
EXTENDS Integers, FiniteSets

CONSTANTS
  Field,                      \* FIELD: a prime that is 3 modulo 4
  Order,                      \* ORDER: the number of points, a prime
  GeneratorX, GeneratorY      \* GENERATOR

\* As their number is an odd prime, no point of the curve has y = 0.
ASSUME CurveAssumption ==
  /\ Field \in Nat /\ Field % 4 = 3 /\ \A d \in 2 .. (Field-1) : Field % d # 0
  /\ \A px \in 0 .. (Field-1) : (px * px * px + 7) % Field # 0
  /\ Order \in Nat /\ Order > 2 /\ \A d \in 2 .. (Order-1) : Order % d # 0
  /\ GeneratorX \in 0 .. (Field-1) /\ GeneratorY \in 0 .. (Field-1)
  /\ (GeneratorY * GeneratorY) % Field = (GeneratorX * GeneratorX * GeneratorX + 7) % Field
-----------------------------------------------------------------------------
(* Modular arithmetic.                                                     *)

ModPow(base, exponent, modulus) ==
  LET loop[st \in [power : Nat, current : Nat, result : Nat]] ==
        IF st.power = 0 THEN st
        ELSE loop[ [ power   |-> st.power \div 2,
                     current |-> (st.current * st.current) % modulus,
                     result  |-> IF st.power % 2 = 1 THEN (st.result * st.current) % modulus
                                 ELSE st.result ] ]
  IN  loop[ [power |-> exponent, current |-> base % modulus, result |-> 1] ].result

\* The variables of the extended Euclidean algorithm when its loop ends.
Euclid(value, modulus) ==
  LET loop[st \in [t : Int, newT : Int, r : Nat, newR : Nat]] ==
        IF st.newR = 0 THEN st
        ELSE loop[ [ t    |-> st.newT,
                     newT |-> st.t - (st.r \div st.newR) * st.newT,
                     r    |-> st.newR,
                     newR |-> st.r % st.newR ] ]
  IN  loop[ [t |-> 0, newT |-> 1, r |-> modulus, newR |-> value % modulus] ]

\* For the error thrown when there is no inverse.
NoInverse == 0

ModInverse(value, modulus) ==
  LET e == Euclid(value, modulus) IN
  IF e.r # 1 THEN NoInverse
  ELSE IF e.t < 0 THEN e.t + modulus ELSE e.t
-----------------------------------------------------------------------------
(* Points.                                                                 *)

Infinite        == [infinity |-> TRUE, x |-> 0, y |-> 0]
Affine(px, py)  == [infinity |-> FALSE, x |-> px, y |-> py]
Generator       == Affine(GeneratorX, GeneratorY)

NegatePoint(P) == IF P.infinity THEN P ELSE Affine(P.x, (-P.y) % Field)

\* mutant: the chord is used for doubling, too
LambdaChord(P, Q) == ((Q.y - P.y) * ModInverse(Q.x - P.x, Field)) % Field

\* The slope of the tangent at P, or of the line through P and Q.
Lambda(P, Q) ==
  IF P.x = Q.x /\ P.y = Q.y
  THEN (3 * P.x * P.x * ModInverse(2 * P.y, Field)) % Field
  ELSE ((Q.y - P.y) * ModInverse(Q.x - P.x, Field)) % Field

\* Opposite points, the same point twice with y = 0 among them, add up to infinity.
AddPoints(P, Q) ==
  IF P.infinity THEN Q
  ELSE IF Q.infinity THEN P
  ELSE IF P.x = Q.x /\ (P.y + Q.y) % Field = 0 THEN Infinite
  ELSE LET lambda == Lambda(P, Q)
           x3     == (lambda * lambda - P.x - Q.x) % Field
           y3     == (lambda * (P.x - x3) - P.y) % Field
       IN  Affine(x3, y3)

\* The points of the curve, by its equation.
OnCurve ==
  { P \in [infinity : {FALSE}, x : 0 .. (Field-1), y : 0 .. (Field-1)] :
      (P.y * P.y) % Field = (P.x * P.x * P.x + 7) % Field }

\* ORDER counts infinity, too.
ASSUME OrderAssumption == Cardinality(OnCurve) + 1 = Order

\* scalarMultiply
INSTANCE DoubleAndAdd WITH Point <- OnCurve, Infinity <- Infinite, Add <- AddPoints
-----------------------------------------------------------------------------
(* Encodings.                                                              *)

\* What encodeCompressedPoint throws on, and decodeCompressedPoint throws for.
NoEncoding == <<0, 0>>
NoPoint    == [infinity |-> FALSE, x |-> -1, y |-> -1]

EncodeCompressedPoint(P) ==
  IF P.infinity THEN NoEncoding
  ELSE << IF P.y % 2 = 1 THEN 3 ELSE 2, P.x >>

\* mutant: the parity is compared the wrong way round
DecodeCompressedPointFlipped(point) ==
  LET rhs == (point[2] * point[2] * point[2] + 7) % Field
      yCandidate == ModPow(rhs, (Field + 1) \div 4, Field)
  IN  IF point[1] \notin {2, 3} \/ (yCandidate * yCandidate) % Field # rhs
      THEN NoPoint
      ELSE Affine(point[2],
                  IF (yCandidate % 2 = 1) = (point[1] = 2)
                  THEN yCandidate ELSE Field - yCandidate)

\* A root of x^3 + 7, and the one of the two that the prefix asks for.
DecodeCompressedPoint(point) ==
  LET rhs == (point[2] * point[2] * point[2] + 7) % Field
      yCandidate == ModPow(rhs, (Field + 1) \div 4, Field)
  IN  IF point[1] \notin {2, 3} \/ (yCandidate * yCandidate) % Field # rhs
      THEN NoPoint
      ELSE Affine(point[2],
                  IF (yCandidate % 2 = 1) = (point[1] = 3)
                  THEN yCandidate ELSE Field - yCandidate)

ScalarMultiplyG(scalar) == EncodeCompressedPoint(ScalarMultiply(scalar, Generator))

ScalarMultiplyPoint(scalar, point) ==
  EncodeCompressedPoint(ScalarMultiply(scalar, DecodeCompressedPoint(point)))

PointAdd(lhs, rhs) ==
  EncodeCompressedPoint(AddPoints(DecodeCompressedPoint(lhs), DecodeCompressedPoint(rhs)))

PointNegate(point) == EncodeCompressedPoint(NegatePoint(DecodeCompressedPoint(point)))

PointSubtract(lhs, rhs) ==
  EncodeCompressedPoint(AddPoints(DecodeCompressedPoint(lhs),
                                  NegatePoint(DecodeCompressedPoint(rhs))))

GetXCoordinate(point) == DecodeCompressedPoint(point).x
=============================================================================
