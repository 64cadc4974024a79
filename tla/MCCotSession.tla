---------------------------- MODULE MCCotSession ----------------------------
(***************************************************************************)
(* CotSession over the additive group of the integers modulo N: the point  *)
(* kG is k, Infinity is 0, and P and -P share an x coordinate.             *)
(***************************************************************************)
EXTENDS CotSessionInv, Bitwise

MCPoint    == 1 .. (N-1)
MCInfinity == 0
MCBasePoint == 1
MCWord     == 0 .. 7          \* N <= 8 in every configuration

MCAdd(P, Q)    == (P + Q) % N
MCNeg(P)       == N - P
MCXCoord(P)    == IF P <= N - P THEN P ELSE N - P
MCDeriveKey(c) == (3 * c) % 8    \* a permutation of the words
MCXorEncrypt(m, k)    == m ^^ k
=============================================================================
