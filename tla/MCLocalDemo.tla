---------------------------- MODULE MCLocalDemo ----------------------------
(***************************************************************************)
(* LocalDemo, and with it the assumptions of CotOT, over the arithmetic of *)
(* CryptoOps on y^2 = x^3 + 7 modulo 43.  TLC evaluates the assumptions    *)
(* for all of its 31 elements.                                             *)
(***************************************************************************)
EXTENDS LocalDemo, Bitwise

Curve == INSTANCE CryptoOps
           WITH Field <- 43, Order <- 31, GeneratorX <- 2, GeneratorY <- 12

\* Every point is its encoding.
Points      == { Curve!EncodeCompressedPoint(P) : P \in Curve!OnCurve }
MCPoint     == Points
MCInfinity  == Curve!NoEncoding
MCBasePoint == Curve!EncodeCompressedPoint(Curve!Generator)
MCWord      == 0 .. 63

\* pointAdd, continued to infinity as addPoints is.
MCAdd(P, Q) ==
  IF P = MCInfinity THEN Q ELSE IF Q = MCInfinity THEN P ELSE Curve!PointAdd(P, Q)
MCNeg(P)       == Curve!PointNegate(P)
MCXCoord(P)    == Curve!GetXCoordinate(P)
MCDeriveKey(c) == (5 * c + 3) % 64     \* one word for each x coordinate
MCXorEncrypt(m, k) == m ^^ k
=============================================================================
