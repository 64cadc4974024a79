---------------------------- MODULE MCCurveGroup ----------------------------
(* y^2 = x^3 + 7 modulo 43 has 31 points, as secp256k1 a prime number.  As *)
(* there, both are below Bound and Bound is below twice either of them.     *)
EXTENDS CurveAgreement
=============================================================================
