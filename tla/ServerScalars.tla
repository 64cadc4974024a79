--------------------------- MODULE ServerScalars ---------------------------
(***************************************************************************)
(* The scalar functions of server/src/crypto_ops.cpp, over trezor-crypto's *)
(* numbers.  A scalar is a string of 32 bytes.                             *)
(***************************************************************************)
EXTENDS Bignum

CONSTANT Order

IsValidScalar(scalar) == scalar # 0 /\ scalar < Order

\* what generate_random_scalar may return
RandomScalar == { s \in 0 .. (Bound-1) : IsValidScalar(s) }

\* The possible results; more than one if the reduction is not complete.
ModAdd(lhs, rhs) == { BnWriteBe(BnMod(sum, Order)) : sum \in BnAddMod(lhs, rhs, Order) }

\* mutant: reduced once only
ModSubOnce(lhs, rhs) == BnWriteBe(BnMod(BnSubtractMod(lhs, rhs, Order), Order))

ModSub(lhs, rhs) ==
  BnWriteBe(BnMod(BnMod(BnSubtractMod(lhs, rhs, Order), Order), Order))

ModMul(lhs, rhs) ==
  { BnWriteBe(BnMod(product, Order)) : product \in BnMultiply(rhs, lhs, Order) }

ModNegate(value) == IF value = 0 THEN value ELSE ModSub(0, value)
=============================================================================
