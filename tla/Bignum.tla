------------------------------- MODULE Bignum -------------------------------
(***************************************************************************)
(* The arithmetic of trezor-crypto's bignum256 as far as the server relies *)
(* on it (server/external/trezor-crypto/bignum.c).  A bignum256 is nine    *)
(* limbs of 30 bits: a number below Capacity (2^270).  A 32-byte string is *)
(* a number below Bound (2^256).  Several functions leave their result     *)
(* "partly reduced", below twice the modulus: which of the two it is       *)
(* depends on carries between limbs, and is a choice here.                 *)
(***************************************************************************)
EXTENDS Integers

CONSTANTS Bound, Capacity

ASSUME WidthAssumption ==
  Bound \in Nat /\ Capacity \in Nat /\ 0 < Bound /\ Bound <= Capacity

PartlyReduced(value, prime) == { value % prime, (value % prime) + prime }

\* One conditional subtraction: reduces fully what is partly reduced.
BnMod(x, prime) == IF x < prime THEN x ELSE x - prime

\* bn_fast_mod of the sum: the possible results
BnAddMod(a, b, prime) == PartlyReduced(a + b, prime)

\* What bn_addmod and bn_multiply require of a number: limbs of 30 bits, and for
\* bn_multiply a bound.
BnFits(x) == x < Capacity
BnMultiplicable(x, prime) == BnFits(x) /\ x < 180 * prime

\* The possible results of bn_multiply(&k, &x, &prime) in x, for such inputs.
BnMultiply(k, x, prime) == PartlyReduced(k * x, prime)

\* a + (2*prime - b), not reduced.  The limb above the ninth is dropped: with a b
\* that is not partly reduced the difference wraps around.
BnSubtractMod(a, b, prime) == (a + (2 * prime - b)) % Capacity

\* bn_read_be is the number itself; bn_write_be keeps 32 bytes of it.
BnWriteBe(x) == x % Bound
=============================================================================
