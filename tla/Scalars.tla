------------------------------ MODULE Scalars ------------------------------
(***************************************************************************)
(* Scalars modulo the order of the curve, and the aggregation of the 256   *)
(* correlated oblivious transfers into additive shares:                    *)
(*    client/src/ot_protocol.ts  (MTAProtocol)                             *)
(*    client/src/crypto_ops.ts   (modAdd, generateRandomScalar)            *)
(*    server/src/ot_protocol.cpp (compute_bob_share, verify_mta)           *)
(* A 32-byte big-endian string is the number it encodes.                   *)
(***************************************************************************)
EXTENDS Integers, Sequences

CONSTANTS N,   \* the order of the group (ORDER in crypto_ops.ts)
          K    \* number of transfers, one per bit of y (256 in the code)

\* Two to the power i, as a recursive function.
Pow2[i \in Nat] == IF i = 0 THEN 1 ELSE 2 * Pow2[i-1]

ASSUME OrderAssumption  == N \in Nat /\ N > 1
\* Every scalar fits in the K bits that are transferred (n < 2^256).
ASSUME RoundsAssumption == K \in Nat /\ K > 0 /\ N <= Pow2[K]

Residue == 0 .. (N-1)
Scalar  == 1 .. (N-1)     \* what generateRandomScalar and scalarFromHex accept

\* mutant: the bits taken from the other end of the string
GetBitBigEndian(s, i) == (s \div Pow2[K-1-i]) % 2

\* get_bit of server.cpp, getBit of client.ts: bit 0 is the lowest bit of the
\* last byte.
GetBit(s, i) == (s \div Pow2[i]) % 2

ModAdd(s, t) == (s + t) % N
-----------------------------------------------------------------------------
(* The aggregation of the client (TypeScript, exact integers).             *)

\* sum of values[i] << i, reduced at every iteration of the loop
WeightedSum(values) ==
  LET sum[i \in 0 .. Len(values)] ==
        IF i = 0 THEN 0 ELSE (sum[i-1] + values[i] * Pow2[i-1]) % N
  IN  sum[Len(values)]

ComputeAliceShare(ui) == (N - WeightedSum(ui)) % N

ComputeBobShare(mc) == WeightedSum(mc)

Verify(x, y, u, v) == (x * y) % N = (u + v) % N
-----------------------------------------------------------------------------
(* The aggregation of the server (C++).  trezor-crypto's bn_copy(a, b)     *)
(* assigns its FIRST argument to its second, so that                       *)
(*    bn_copy(&term, &mc_bn)                                               *)
(* leaves term as it was (uninitialised in the first iteration) and        *)
(* overwrites mc_bn.  An uninitialised bignum256 is a parameter of the     *)
(* operators below: the specification quantifies over it.                  *)

BnCopy(a, b) == a      \* the value of b after bn_copy(&a, &b)

\* One iteration of the loop of compute_bob_share over its four locals.
CppBobIteration(st, mc) ==
  LET mcBn == BnCopy(st.term, mc)              \* mc_bn, never read again
      term == (st.twoPowI * st.term) % N
  IN  [ term    |-> term,
        mcBn    |-> mcBn,
        sum     |-> (st.sum + term) % N,
        twoPowI |-> (2 * st.twoPowI) % N ]

\* compute_bob_share when the uninitialised term holds `garbage'.
CppComputeBobShare(mc, garbage) ==
  LET st[i \in 0 .. Len(mc)] ==
        IF i = 0 THEN [term |-> garbage, mcBn |-> 0, sum |-> 0, twoPowI |-> 1]
                 ELSE CppBobIteration(st[i-1], mc[i])
  IN  st[Len(mc)].sum

\* verify_mta: bn_copy(&bn_xy, &bn_x) and bn_copy(&bn_uv, &bn_u) overwrite x
\* and u; the products are built on the uninitialised bn_xy and bn_uv.  The two
\* numbers compared are partly reduced: congruent ones may differ by N.  The possible
\* verdicts:
CppVerifyMta(y, v, bnXy, bnUv) ==
  IF (y * bnXy) % N = (bnUv + v) % N THEN BOOLEAN ELSE {FALSE}
=============================================================================
