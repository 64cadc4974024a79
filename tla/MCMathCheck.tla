---------------------------- MODULE MCMathCheck ----------------------------
(* The curve of MCCurveGroup.                                              *)
EXTENDS MathCheck
=============================================================================
