---------------------------- MODULE CotOTProofs ----------------------------
(***************************************************************************)
(* Facts about the scalars and the share aggregation, for every order N    *)
(* and every number of transfers K; then about one transfer: whatever      *)
(* scalars the two sides draw, Bob opens the message his bit selects, and  *)
(* the transfer can only fail when a sum of points has no encoding.        *)
(* The first part uses the assumptions of Scalars alone, none about points *)
(* or keys.  The aggregation loops are recursive functions, so its facts   *)
(* are proved by induction on the naturals, stated for sets of naturals.   *)
(***************************************************************************)
EXTENDS CotOT, WellFoundedInduction, TLAPS

\* A sequence over a set is one over any larger set.
LEMMA SeqMonotone ==
  ASSUME NEW S, NEW T, S \subseteq T, NEW s \in Seq(S)
  PROVE  s \in Seq(T)
<1>1. Len(s) \in Nat /\ s = [i \in 1 .. Len(s) |-> s[i]]
  OBVIOUS
<1>2. \A i \in 1 .. Len(s) : s[i] \in T
  OBVIOUS
<1>3. QED
  BY <1>1, <1>2

LessThan == {p \in Nat \X Nat : p[1] < p[2]}

\* The usual order of the naturals is well founded.
LEMMA LessThanWellFounded == IsWellFoundedOn(LessThan, Nat)
<1>1. LessThan = OpToRel(<, Nat)
  BY DEF LessThan, OpToRel
<1>2. QED
  BY <1>1, NatLessThanWellFounded

\* A set of naturals with 0 that is closed under successor holds them all.
LEMMA SetInduction ==
  ASSUME NEW T \in SUBSET Nat, 0 \in T, \A n \in T : n + 1 \in T
  PROVE  T = Nat
<1>1. SUFFICES ASSUME Nat \ T # {} PROVE FALSE
  OBVIOUS
<1>2. PICK m \in Nat \ T : \A k \in Nat \ T : ~ (<<k, m>> \in LessThan)
  <2>1. Nat \ T \subseteq Nat
    OBVIOUS
  <2>2. QED
    BY <1>1, <2>1, LessThanWellFounded, WFMin
<1>3. m # 0 /\ m - 1 \in Nat
  BY <1>2
<1>4. <<m-1, m>> \in LessThan
  BY <1>3, <1>2 DEF LessThan
<1>5. m - 1 \in T
  BY <1>2, <1>3, <1>4
<1>6. QED
  BY <1>5, <1>2, <1>3

\* g is the run of n iterations of a loop that starts in state c and whose body
\* maps the state and the iteration number to the next state.
IsRun(g, n, S, c, D) ==
  g \in [0 .. n -> S] /\ g[0] = c /\ \A i \in 1 .. n : g[i] = D[<<g[i-1], i>>]

\* g is the unbounded run of that loop.
IsLoop(g, S, c, D) ==
  g \in [Nat -> S] /\ g[0] = c /\ \A i \in Nat \ {0} : g[i] = D[<<g[i-1], i>>]

\* A loop has a run of every length.
LEMMA FiniteRunExists ==
  ASSUME NEW S, NEW c \in S, NEW D \in [S \X Nat -> S], NEW n \in Nat
  PROVE  \E g : IsRun(g, n, S, c, D)
<1> DEFINE T == {m \in Nat : \E g : IsRun(g, m, S, c, D)}
<1>1. 0 \in T
  <2>1. IsRun([i \in 0 .. 0 |-> c], 0, S, c, D)
    BY DEF IsRun
  <2>2. QED
    BY <2>1
<1>2. ASSUME NEW m \in T PROVE m + 1 \in T
  <2>1. PICK g : IsRun(g, m, S, c, D)
    OBVIOUS
  <2>2. m \in Nat /\ m \in 0 .. m /\ (m+1) - 1 = m /\ m # m + 1
    OBVIOUS
  <2>3. g \in [0 .. m -> S] /\ D[<<g[m], m+1>>] \in S
    BY <2>1, <2>2 DEF IsRun
  <2> DEFINE h == [i \in 0 .. (m+1) |-> IF i = m+1 THEN D[<<g[m], m+1>>] ELSE g[i]]
  <2>4. h \in [0 .. (m+1) -> S]
    BY <2>2, <2>3
  <2>5. h[m+1] = D[<<g[m], m+1>>] /\ \A i \in 0 .. m : h[i] = g[i]
    BY <2>2
  <2> HIDE DEF h
  <2>6. h[0] = c
    BY <2>1, <2>2, <2>5 DEF IsRun
  <2>7. ASSUME NEW i \in 1 .. (m+1) PROVE h[i] = D[<<h[i-1], i>>]
    <3>1. CASE i = m + 1
      BY <3>1, <2>2, <2>5
    <3>2. CASE i \in 1 .. m
      <4>1. i - 1 \in 0 .. m /\ i \in 0 .. m
        BY <3>2, <2>2
      <4>2. QED
        BY <4>1, <3>2, <2>1, <2>5 DEF IsRun
    <3>3. QED
      BY <3>1, <3>2, <2>2
  <2>8. IsRun(h, m+1, S, c, D)
    BY <2>4, <2>6, <2>7 DEF IsRun
  <2>9. QED
    BY <2>2, <2>8
<1>3. T = Nat
  BY <1>1, <1>2, SetInduction
<1>4. QED
  BY <1>3

\* Two runs of the same loop agree as far as both go.
LEMMA RunUnique ==
  ASSUME NEW S, NEW c, NEW D, NEW n \in Nat, NEW m \in Nat,
         NEW g, IsRun(g, n, S, c, D), NEW h, IsRun(h, m, S, c, D),
         NEW k \in Nat, k <= n, k <= m
  PROVE  g[k] = h[k]
<1> DEFINE T == {j \in Nat : j <= n /\ j <= m => g[j] = h[j]}
<1>1. 0 \in T
  BY DEF IsRun
<1>2. ASSUME NEW j \in T PROVE j + 1 \in T
  <2>1. SUFFICES ASSUME j + 1 <= n, j + 1 <= m PROVE g[j+1] = h[j+1]
    OBVIOUS
  <2>2. g[j] = h[j] /\ (j+1) - 1 = j
    BY <2>1
  <2>3. g[j+1] = D[<<g[(j+1)-1], j+1>>] /\ h[j+1] = D[<<h[(j+1)-1], j+1>>]
    BY <2>1 DEF IsRun
  <2>4. QED
    BY <2>2, <2>3
<1>3. T = Nat
  BY <1>1, <1>2, SetInduction
<1>4. QED
  BY <1>3

\* ... and one infinite run.
LEMMA RunExists ==
  ASSUME NEW S, NEW c \in S, NEW D \in [S \X Nat -> S]
  PROVE  \E g : IsLoop(g, S, c, D)
<1> DEFINE R == [n \in Nat |-> CHOOSE g : IsRun(g, n, S, c, D)]
           G == [n \in Nat |-> R[n][n]]
<1>1. ASSUME NEW n \in Nat PROVE IsRun(R[n], n, S, c, D)
  <2>1. \E g : IsRun(g, n, S, c, D)
    BY FiniteRunExists
  <2>2. R[n] = CHOOSE g : IsRun(g, n, S, c, D)
    OBVIOUS
  <2>3. QED
    BY <2>1, <2>2
<1> HIDE DEF R
<1>2. ASSUME NEW n \in Nat PROVE R[n][n] \in S
  BY <1>1 DEF IsRun
<1>3. G \in [Nat -> S]
  BY <1>2
<1>4. G[0] = c
  BY <1>1 DEF IsRun
<1>5. ASSUME NEW i \in Nat \ {0} PROVE G[i] = D[<<G[i-1], i>>]
  <2>1. i - 1 \in Nat /\ i - 1 <= i /\ i - 1 <= i - 1 /\ i \in 1 .. i /\ i \in Nat
    OBVIOUS
  <2>2. IsRun(R[i], i, S, c, D) /\ IsRun(R[i-1], i-1, S, c, D)
    BY <1>1, <2>1
  <2>3. R[i][i-1] = R[i-1][i-1]
    <3>1. \A g, h : \A j \in Nat :
            IsRun(g, i, S, c, D) /\ IsRun(h, j, S, c, D) /\ j <= i => g[j] = h[j]
      <4>1. TAKE g, h
      <4>2. TAKE j \in Nat
      <4>3. HAVE IsRun(g, i, S, c, D) /\ IsRun(h, j, S, c, D) /\ j <= i
      <4>4. j <= j
        OBVIOUS
      <4>5. QED
        BY <4>3, <4>4, RunUnique
    <3>2. QED
      BY <2>1, <2>2, <3>1
  <2>4. R[i][i] = D[<<R[i][i-1], i>>]
    BY <2>1, <2>2 DEF IsRun
  <2>5. QED
    BY <2>1, <2>3, <2>4
<1>6. IsLoop(G, S, c, D)
  BY <1>3, <1>4, <1>5 DEF IsLoop
<1>7. QED
  BY <1>6
-----------------------------------------------------------------------------
(* Powers of two and bits.                                                 *)

LEMMA Pow2Def ==
  /\ Pow2 \in [Nat -> Nat \ {0}]
  /\ Pow2[0] = 1
  /\ \A i \in Nat : Pow2[i+1] = 2 * Pow2[i]
<1> DEFINE P == Nat \ {0}
           D == [p \in P \X Nat |-> 2 * p[1]]
<1>1. D \in [P \X Nat -> P] /\ 1 \in P
  OBVIOUS
<1>2. PICK g \in [Nat -> P] :
        g[0] = 1 /\ \A i \in Nat \ {0} : g[i] = D[<<g[i-1], i>>]
  <2> HIDE DEF P, D
  <2>1. \E g : IsLoop(g, P, 1, D)
    BY <1>1, RunExists
  <2>2. QED
    BY <2>1 DEF IsLoop
<1>3. \A i \in Nat \ {0} : g[i] = 2 * g[i-1]
  <2>1. TAKE i \in Nat \ {0}
  <2>2. <<g[i-1], i>> \in P \X Nat
    BY <1>2
  <2>3. QED
    BY <1>2, <2>2
<1>4. g = [i \in Nat |-> IF i = 0 THEN 1 ELSE 2 * g[i-1]]
  BY <1>2, <1>3
<1>5. Pow2 = [i \in Nat |-> IF i = 0 THEN 1 ELSE 2 * Pow2[i-1]]
  BY <1>4 DEF Pow2
<1> DEFINE T == {i \in Nat : Pow2[i] \in P}
<1>6. T = Nat
  <2>1. 0 \in T
    BY <1>5
  <2>2. ASSUME NEW i \in T PROVE i + 1 \in T
    BY <1>5
  <2>3. QED
    BY <2>1, <2>2, SetInduction
<1>7. Pow2 \in [Nat -> P]
  BY <1>5, <1>6
<1>8. \A i \in Nat : Pow2[i+1] = 2 * Pow2[i]
  BY <1>5
<1>9. QED
  BY <1>5, <1>7, <1>8

\* Division with remainder by a positive number, and its uniqueness.
LEMMA DivMod ==
  ASSUME NEW n \in Nat, n > 0, NEW p \in Int
  PROVE  /\ p % n \in 0 .. (n-1)
         /\ p \div n \in Int
         /\ p = n * (p \div n) + (p % n)
  OBVIOUS

LEMMA DivModUnique ==
  ASSUME NEW n \in Nat, n > 0, NEW q \in Int, NEW r \in 0 .. (n-1)
  PROVE  (n * q + r) % n = r /\ (n * q + r) \div n = q
<1> DEFINE s == (n * q + r) % n
           t == (n * q + r) \div n
<1>1. s \in 0 .. (n-1) /\ t \in Int /\ n * q + r = n * t + s
  <2>1. n * q + r \in Int
    OBVIOUS
  <2>2. QED
    BY <2>1, DivMod
<1>2. n * (q - t) = s - r
  BY <1>1
<1>3. s - r > -n /\ s - r < n
  BY <1>1
<1>4. q - t = 0
  <2>1. CASE q - t >= 1
    <3>1. n * (q - t) >= n
      BY <2>1, <1>1
    <3>2. QED
      BY <3>1, <1>2, <1>3, <1>1
  <2>2. CASE q - t <= -1
    <3>1. n * (q - t) <= -n
      BY <2>2, <1>1
    <3>2. QED
      BY <3>1, <1>2, <1>3, <1>1
  <2>3. QED
    BY <2>1, <2>2, <1>1
<1>5. QED
  BY <1>1, <1>2, <1>4

\* Adding a multiple of the modulus changes no remainder.
LEMMA ModShift ==
  ASSUME NEW n \in Nat, n > 0, NEW p \in Int, NEW q \in Int, NEW t \in Int,
         p = q + n * t
  PROVE  p % n = q % n
<1>1. q % n \in 0 .. (n-1) /\ q \div n \in Int /\ q = n * (q \div n) + (q % n)
  BY DivMod
<1>2. p = n * ((q \div n) + t) + (q % n) /\ (q \div n) + t \in Int
  BY <1>1
<1>3. QED
  BY <1>1, <1>2, DivModUnique

LEMMA GetBitType ==
  ASSUME NEW s \in Nat, NEW i \in Nat
  PROVE  GetBit(s, i) \in {0, 1}
<1>1. Pow2[i] \in Nat /\ Pow2[i] > 0
  BY Pow2Def
<1>2. s \div Pow2[i] \in Int
  BY <1>1, DivMod
<1>3. (s \div Pow2[i]) % 2 \in 0 .. 1
  BY <1>2, DivMod
<1>4. QED
  BY <1>3 DEF GetBit

\* Bit i is what the remainder modulo 2^(i+1) has over the one modulo 2^i.
LEMMA BitExpansion ==
  ASSUME NEW s \in Nat, NEW i \in Nat
  PROVE  s % Pow2[i+1] = (s % Pow2[i]) + GetBit(s, i) * Pow2[i]
<1> DEFINE p == Pow2[i]
           q == s \div p
           r == s % p
           d == q \div 2
           e == GetBit(s, i)
<1>1. p \in Nat /\ p > 0 /\ Pow2[i+1] = 2 * p
  BY Pow2Def
<1>2. q \in Int /\ r \in 0 .. (p-1) /\ s = p * q + r
  <2> HIDE DEF p
  <2>1. QED
    BY <1>1, DivMod
<1>3. d \in Int /\ e \in 0 .. 1 /\ q = 2 * d + e
  <2>1. e = q % 2
    BY DEF GetBit
  <2>2. QED
    BY <1>2, <2>1, DivMod
<1> HIDE DEF p, q, r, d, e
<1>4. s = (2 * p) * d + (r + e * p)
  <2>1. p * q = p * (2 * d + e)
    BY <1>3
  <2>2. p * (2 * d + e) = (2 * p) * d + e * p
    BY <1>1, <1>3
  <2>3. QED
    BY <1>1, <1>2, <1>3, <2>1, <2>2
<1>5. r + e * p \in 0 .. (2 * p - 1)
  <2>1. CASE e = 0
    BY <2>1, <1>1, <1>2
  <2>2. CASE e = 1
    BY <2>2, <1>1, <1>2
  <2>3. QED
    BY <2>1, <2>2, <1>3
<1>6. 2 * p \in Nat /\ 2 * p > 0
  BY <1>1
<1>7. s % (2 * p) = r + e * p
  BY <1>3, <1>4, <1>5, <1>6, DivModUnique
<1>8. QED
  BY <1>1, <1>7 DEF p, r, e
-----------------------------------------------------------------------------
(* The aggregation loops.                                                  *)

\* WeightedSum runs its loop: the partial sums are residues, and each adds the
\* next value times its power of two.
LEMMA WeightedSumLoop ==
  ASSUME NEW values \in Seq(Nat)
  PROVE  \E sum \in [0 .. Len(values) -> Residue] :
           /\ sum[0] = 0
           /\ \A i \in 1 .. Len(values) :
                sum[i] = (sum[i-1] + values[i] * Pow2[i-1]) % N
           /\ WeightedSum(values) = sum[Len(values)]
<1> DEFINE n == Len(values)
           Body(u, i) == (u + values[i] * Pow2[i-1]) % N
           D == [p \in Residue \X Nat |-> IF p[2] \in 1 .. n THEN Body(p[1], p[2]) ELSE 0]
<1>1. n \in Nat /\ \A i \in 1 .. n : values[i] \in Nat
  OBVIOUS
<1>2. 0 \in Residue
  BY OrderAssumption DEF Residue
<1>3. ASSUME NEW u \in Residue, NEW i \in 1 .. n PROVE Body(u, i) \in Residue
  <2>1. u \in Nat /\ values[i] \in Nat /\ Pow2[i-1] \in Nat
    <3>1. u \in Nat
      BY OrderAssumption DEF Residue
    <3>2. i - 1 \in Nat
      BY <1>1
    <3>3. QED
      BY <1>1, <3>1, <3>2, Pow2Def
  <2>2. u + values[i] * Pow2[i-1] \in Int
    BY <2>1
  <2>3. QED
    BY <2>2, DivMod, OrderAssumption DEF Residue
<1> HIDE DEF Body
<1>4. D \in [Residue \X Nat -> Residue]
  BY <1>2, <1>3
<1>5. PICK g : IsRun(g, n, Residue, 0, D)
  <2> HIDE DEF D, n
  <2>1. QED
    BY <1>1, <1>2, <1>4, FiniteRunExists
<1>6. g \in [0 .. n -> Residue] /\ g[0] = 0
  BY <1>5 DEF IsRun
<1>7. ASSUME NEW i \in 1 .. n PROVE g[i] = Body(g[i-1], i)
  <2>1. i \in Nat /\ i - 1 \in 0 .. n
    BY <1>1
  <2>2. g[i-1] \in Residue /\ g[i] = D[<<g[i-1], i>>]
    BY <1>5, <1>6, <2>1 DEF IsRun
  <2>3. QED
    BY <2>1, <2>2
<1>8. g = [i \in 0 .. n |-> IF i = 0 THEN 0 ELSE (g[i-1] + values[i] * Pow2[i-1]) % N]
  BY <1>1, <1>6, <1>7 DEF Body
<1>9. PICK sum : /\ sum = [i \in 0 .. n |-> IF i = 0 THEN 0 ELSE Body(sum[i-1], i)]
                 /\ WeightedSum(values) = sum[n]
  <2> DEFINE f[i \in 0 .. n] == IF i = 0 THEN 0 ELSE (f[i-1] + values[i] * Pow2[i-1]) % N
  <2>1. f = [i \in 0 .. n |-> IF i = 0 THEN 0 ELSE (f[i-1] + values[i] * Pow2[i-1]) % N]
    BY <1>8
  <2>2. WeightedSum(values) = f[n]
    BY DEF WeightedSum
  <2> HIDE DEF f
  <2>3. QED
    BY <2>1, <2>2 DEF Body
<1>10. \A i \in 0 .. n : sum[i] = IF i = 0 THEN 0 ELSE Body(sum[i-1], i)
  BY <1>9
<1>11. sum[0] = 0 /\ \A i \in 1 .. n : sum[i] = Body(sum[i-1], i)
  BY <1>1, <1>10
<1> DEFINE T == {i \in Nat : i <= n => sum[i] \in Residue}
<1>12. T = Nat
  <2>1. 0 \in T
    BY <1>2, <1>11
  <2>2. ASSUME NEW i \in T PROVE i + 1 \in T
    <3>1. SUFFICES ASSUME i + 1 <= n PROVE sum[i+1] \in Residue
      OBVIOUS
    <3>2. i + 1 \in 1 .. n /\ sum[(i+1)-1] \in Residue
      BY <3>1, <1>1
    <3>3. QED
      BY <3>2, <1>3, <1>11
  <2>3. QED
    BY <2>1, <2>2, SetInduction
<1>13. sum \in [0 .. n -> Residue]
  <2>1. \A i \in 0 .. n : sum[i] \in Residue
    BY <1>1, <1>12
  <2>2. sum = [i \in 0 .. n |-> sum[i]]
    BY <1>9
  <2>3. QED
    BY <2>1, <2>2
<1>14. QED
  BY <1>9, <1>11, <1>13 DEF Body

\* computeAliceShare and computeBobShare return residues.
LEMMA ShareTypes ==
  ASSUME NEW values \in Seq(Nat)
  PROVE  /\ WeightedSum(values) \in Residue
         /\ ComputeAliceShare(values) \in Residue
         /\ ComputeBobShare(values) \in Residue
<1>1. WeightedSum(values) \in Residue
  BY WeightedSumLoop
<1>2. (N - WeightedSum(values)) % N \in Residue
  <2>1. N - WeightedSum(values) \in Int
    BY <1>1, OrderAssumption DEF Residue
  <2>2. QED
    BY <2>1, DivMod, OrderAssumption DEF Residue
<1>3. QED
  BY <1>1, <1>2 DEF ComputeAliceShare, ComputeBobShare

\* The states of the loop of compute_bob_share, on residues.
CppState == [term : Residue, mcBn : Residue, sum : Residue, twoPowI : Residue]

LEMMA CppIterationType ==
  ASSUME NEW st \in CppState, NEW c
  PROVE  CppBobIteration(st, c) \in CppState
<1>1. \A p \in Int : p % N \in Residue
  BY DivMod, OrderAssumption DEF Residue
<1>2. /\ st.term \in Residue /\ st.sum \in Residue /\ st.twoPowI \in Residue
      /\ Residue \subseteq Int
  BY OrderAssumption DEF Residue, CppState
<1> DEFINE term == (st.twoPowI * st.term) % N
<1>3. term \in Residue
  <2>1. st.twoPowI \in Int /\ st.term \in Int
    BY <1>2, Zenon
  <2>2. st.twoPowI * st.term \in Int
    BY <2>1
  <2>3. QED
    BY <1>1, <2>2
<1> HIDE DEF term
<1>4. (st.sum + term) % N \in Residue /\ (2 * st.twoPowI) % N \in Residue
  <2>1. st.sum \in Int /\ st.twoPowI \in Int /\ term \in Int
    BY <1>2, <1>3, Zenon
  <2>2. st.sum + term \in Int /\ 2 * st.twoPowI \in Int
    BY <2>1
  <2>3. QED
    BY <1>1, <2>2
<1>5. CppBobIteration(st, c) =
        [term |-> term, mcBn |-> st.term, sum |-> (st.sum + term) % N,
         twoPowI |-> (2 * st.twoPowI) % N]
  BY DEF CppBobIteration, BnCopy, term
<1>6. QED
  BY <1>2, <1>3, <1>4, <1>5 DEF CppState

\* compute_bob_share is the last state of its loop.
LEMMA CppLoop ==
  ASSUME NEW mc \in Seq(Nat), NEW garbage \in Residue
  PROVE  \E st \in [0 .. Len(mc) -> CppState] :
           /\ st[0] = [term |-> garbage, mcBn |-> 0, sum |-> 0, twoPowI |-> 1]
           /\ \A i \in 1 .. Len(mc) : st[i] = CppBobIteration(st[i-1], mc[i])
           /\ CppComputeBobShare(mc, garbage) = st[Len(mc)].sum
<1> DEFINE n == Len(mc)
           start == [term |-> garbage, mcBn |-> 0, sum |-> 0, twoPowI |-> 1]
           D == [p \in CppState \X Nat |-> CppBobIteration(p[1], mc[p[2]])]
<1>1. start \in CppState
  BY OrderAssumption DEF Residue, CppState
<1>2. n \in Nat
  OBVIOUS
<1> HIDE DEF start
<1>3. D \in [CppState \X Nat -> CppState]
  BY CppIterationType
<1>4. PICK g : IsRun(g, n, CppState, start, D)
  <2> HIDE DEF D, n
  <2>1. QED
    BY <1>1, <1>2, <1>3, FiniteRunExists
<1>5. g \in [0 .. n -> CppState] /\ g[0] = start
  BY <1>4 DEF IsRun
<1>6. ASSUME NEW i \in 1 .. n PROVE g[i] = CppBobIteration(g[i-1], mc[i])
  <2>1. i \in Nat /\ i - 1 \in 0 .. n
    BY <1>2
  <2>2. g[i-1] \in CppState /\ g[i] = D[<<g[i-1], i>>]
    BY <1>4, <1>5, <2>1 DEF IsRun
  <2>3. QED
    BY <2>1, <2>2
<1>7. g = [i \in 0 .. n |-> IF i = 0 THEN start ELSE CppBobIteration(g[i-1], mc[i])]
  BY <1>2, <1>5, <1>6
<1>8. PICK st : /\ st = [i \in 0 .. n |-> IF i = 0 THEN start
                                            ELSE CppBobIteration(st[i-1], mc[i])]
                /\ CppComputeBobShare(mc, garbage) = st[n].sum
  <2> DEFINE f[i \in 0 .. n] == IF i = 0 THEN start ELSE CppBobIteration(f[i-1], mc[i])
  <2>1. f = [i \in 0 .. n |-> IF i = 0 THEN start ELSE CppBobIteration(f[i-1], mc[i])]
    BY <1>7
  <2>2. CppComputeBobShare(mc, garbage) = f[n].sum
    BY DEF CppComputeBobShare, start
  <2> HIDE DEF f
  <2>3. QED
    BY <2>1, <2>2
<1>9. \A i \in 0 .. n : st[i] = IF i = 0 THEN start ELSE CppBobIteration(st[i-1], mc[i])
  BY <1>8
<1>10. st[0] = start /\ \A i \in 1 .. n : st[i] = CppBobIteration(st[i-1], mc[i])
  BY <1>2, <1>9
<1> DEFINE T == {i \in Nat : i <= n => st[i] \in CppState}
<1>11. T = Nat
  <2>1. 0 \in T
    BY <1>1, <1>2, <1>9
  <2>2. ASSUME NEW i \in T PROVE i + 1 \in T
    <3>1. SUFFICES ASSUME i + 1 <= n PROVE st[i+1] \in CppState
      OBVIOUS
    <3>2. i + 1 \in 0 .. n /\ i + 1 # 0 /\ st[(i+1)-1] \in CppState
      BY <3>1, <1>2
    <3>3. QED
      BY <3>2, <1>9, CppIterationType
  <2>3. QED
    BY <2>1, <2>2, SetInduction
<1>12. st \in [0 .. n -> CppState]
  <2>1. ASSUME NEW i \in 0 .. n PROVE st[i] \in CppState
    <3>1. i \in Nat /\ i <= n
      BY <1>2
    <3>2. i \in T
      BY <3>1, <1>11
    <3>3. QED
      BY <3>1, <3>2
  <2>2. QED
    BY <1>8, <2>1
<1>13. QED
  BY <1>8, <1>10, <1>12 DEF start

\* compute_bob_share returns a residue, whatever the uninitialised term holds.
LEMMA CppComputeBobShareType ==
  ASSUME NEW mc \in Seq(Nat), NEW garbage \in Residue
  PROVE  CppComputeBobShare(mc, garbage) \in Residue
<1>1. PICK st \in [0 .. Len(mc) -> CppState] :
        CppComputeBobShare(mc, garbage) = st[Len(mc)].sum
  BY CppLoop
<1>2. Len(mc) \in 0 .. Len(mc)
  OBVIOUS
<1>3. QED
  BY <1>1, <1>2 DEF CppState

\* A remainder differs from the number by a multiple of the modulus.
LEMMA ModWitness ==
  ASSUME NEW p \in Int
  PROVE  \E q \in Int : p % N = p + N * q
<1>1. p \div N \in Int /\ p = N * (p \div N) + (p % N) /\ p % N \in Int
  BY OrderAssumption, DivMod
<1>2. p % N = p + N * (-(p \div N))
  BY <1>1, OrderAssumption
<1>3. QED
  BY <1>1, <1>2

Congruent(s, t) == \E q \in Int : s = t + N * q

\* The state of the two aggregation loops before the iteration for a bit e: the
\* partial sums differ by r * x, the pair (u, m) is correlated, P is the weight.
LoopsBefore(x, e, P, r, u, m, su, sm) ==
  /\ x \in Int /\ e \in Int /\ P \in Int /\ r \in Int
  /\ u \in Int /\ m \in Int /\ su \in Int /\ sm \in Int
  /\ m = (u + e * x) % N
  /\ Congruent(sm, su + r * x)

\* ... and after it: they differ by (r + e * P) * x.
LoopsAfter(x, e, P, r, u, m, su, sm) ==
  Congruent((sm + m * P) % N, ((su + u * P) % N) + (r + e * P) * x)

\* One iteration of the two aggregation loops side by side.
LEMMA CorrelatedIteration ==
  ASSUME NEW x, NEW e, NEW P, NEW r, NEW u, NEW m, NEW su, NEW sm,
         LoopsBefore(x, e, P, r, u, m, su, sm)
  PROVE  LoopsAfter(x, e, P, r, u, m, su, sm)
<1>0. /\ x \in Int /\ e \in Int /\ P \in Int /\ r \in Int
      /\ u \in Int /\ m \in Int /\ su \in Int /\ sm \in Int
      /\ m = (u + e * x) % N
      /\ \E q \in Int : sm = su + r * x + N * q
  BY DEF LoopsBefore, Congruent
<1>1. PICK q0 \in Int : sm = su + r * x + N * q0
  BY <1>0
<1>2. PICK q1 \in Int : m = u + e * x + N * q1
  BY <1>0, ModWitness
<1>3. PICK q2 \in Int : (su + u * P) % N = su + u * P + N * q2
  BY <1>0, ModWitness
<1>4. PICK q3 \in Int : (sm + m * P) % N = sm + m * P + N * q3
  BY <1>0, ModWitness
<1>5. N \in Int
  BY OrderAssumption
<1>6. m * P = u * P + (e * P) * x + N * (q1 * P)
  BY <1>0, <1>2, <1>5
<1>7. (r + e * P) * x = r * x + (e * P) * x
  BY <1>0
<1>8. N * (q0 + q1 * P + q3 - q2) = N * q0 + N * (q1 * P) + N * q3 - N * q2
  BY <1>0, <1>5
<1>9. (sm + m * P) % N = ((su + u * P) % N) + (r + e * P) * x + N * (q0 + q1 * P + q3 - q2)
  <2> DEFINE A == r * x   B == (e * P) * x   C == N * q0   D == N * (q1 * P)
             E == N * q3  F == N * q2   G == u * P
  <2>1. A \in Int /\ B \in Int /\ C \in Int /\ D \in Int /\ E \in Int /\ F \in Int /\ G \in Int
    BY <1>0, <1>5
  <2>2. /\ sm = su + A + C
        /\ m * P = G + B + D
        /\ (su + u * P) % N = su + G + F
        /\ (sm + m * P) % N = sm + (m * P) + E
        /\ (r + e * P) * x = A + B
        /\ N * (q0 + q1 * P + q3 - q2) = C + D + E - F
    BY <1>1, <1>3, <1>4, <1>6, <1>7, <1>8
  <2> HIDE DEF A, B, C, D, E, F, G
  <2>3. QED
    BY <1>0, <2>1, <2>2
<1>10. q0 + q1 * P + q3 - q2 \in Int
  BY <1>0
<1>11. QED
  BY <1>9, <1>10 DEF LoopsAfter, Congruent

\* K correlated pairs are additive shares of the product: with mc_i = u_i + y_i x
\* for every bit of y, U + V = x * y modulo n.
THEOREM CorrelatedPairsMultiply ==
  ASSUME NEW x \in Residue, NEW y \in Residue,
         NEW us \in Seq(Nat), NEW mcs \in Seq(Nat), Len(us) = K, Len(mcs) = K,
         \A i \in 1 .. K : mcs[i] = (us[i] + GetBit(y, i-1) * x) % N
  PROVE  Verify(x, y, ComputeAliceShare(us), ComputeBobShare(mcs))
<1>1. PICK su \in [0 .. K -> Residue] :
        /\ su[0] = 0
        /\ \A i \in 1 .. K : su[i] = (su[i-1] + us[i] * Pow2[i-1]) % N
        /\ WeightedSum(us) = su[K]
  BY WeightedSumLoop
<1>2. PICK sm \in [0 .. K -> Residue] :
        /\ sm[0] = 0
        /\ \A i \in 1 .. K : sm[i] = (sm[i-1] + mcs[i] * Pow2[i-1]) % N
        /\ WeightedSum(mcs) = sm[K]
  BY WeightedSumLoop
<1>3. N \in Int /\ N > 0 /\ K \in Nat /\ x \in Int /\ y \in Nat /\ y < N
  BY OrderAssumption, RoundsAssumption DEF Residue
<1>4. \A i \in 0 .. K : su[i] \in Int /\ sm[i] \in Int
  <2>1. Residue \subseteq Int
    BY OrderAssumption DEF Residue
  <2>2. QED
    BY <1>1, <1>2, <2>1
<1> DEFINE Related(k) == Congruent(sm[k], su[k] + (y % Pow2[k]) * x)
           T == {k \in Nat : k <= K => Related(k)}
<1>5. 0 \in T
  <2>1. y % Pow2[0] = 0
    BY <1>3, Pow2Def
  <2>2. sm[0] = su[0] + (y % Pow2[0]) * x + N * 0
    BY <1>1, <1>2, <1>3, <2>1
  <2>3. QED
    BY <2>2 DEF Congruent
<1>6. ASSUME NEW k \in T PROVE k + 1 \in T
  <2>1. SUFFICES ASSUME k + 1 <= K PROVE Related(k+1)
    OBVIOUS
  <2>2. k \in Nat /\ k \in 0 .. K /\ k + 1 \in 1 .. K /\ (k+1) - 1 = k
    BY <2>1, <1>3
  <2>3. Pow2[k] \in Nat /\ Pow2[k] > 0 /\ GetBit(y, k) \in Int /\ y % Pow2[k] \in Int
    <3>1. Pow2[k] \in Nat /\ Pow2[k] > 0
      BY <2>2, Pow2Def
    <3>2. GetBit(y, k) \in {0, 1}
      BY <2>2, <1>3, GetBitType
    <3>3. y % Pow2[k] \in Int
      BY <3>1, <1>3, DivMod
    <3>4. QED
      BY <3>1, <3>2, <3>3
  <2>4. us[k+1] \in Int /\ mcs[k+1] \in Int /\ mcs[k+1] = (us[k+1] + GetBit(y, k) * x) % N
    BY <2>2
  <2>5. Congruent(sm[k], su[k] + (y % Pow2[k]) * x)
    BY <2>2
  <2>6. LoopsBefore(x, GetBit(y, k), Pow2[k], y % Pow2[k],
                    us[k+1], mcs[k+1], su[k], sm[k])
    <3>1. su[k] \in Int /\ sm[k] \in Int
      BY <1>4, <2>2
    <3>2. Pow2[k] \in Int
      BY <2>3
    <3>3. QED
      BY <1>3, <2>3, <2>4, <2>5, <3>1, <3>2, Zenon DEF LoopsBefore
  <2>7. Congruent((sm[k] + mcs[k+1] * Pow2[k]) % N,
                  ((su[k] + us[k+1] * Pow2[k]) % N)
                    + ((y % Pow2[k]) + GetBit(y, k) * Pow2[k]) * x)
    <3>1. LoopsAfter(x, GetBit(y, k), Pow2[k], y % Pow2[k],
                     us[k+1], mcs[k+1], su[k], sm[k])
      BY <2>6, CorrelatedIteration
    <3>2. QED
      BY <3>1, Zenon DEF LoopsAfter
  <2>8. y % Pow2[k+1] = (y % Pow2[k]) + GetBit(y, k) * Pow2[k]
    BY <1>3, <2>2, BitExpansion
  <2>9. /\ sm[k+1] = (sm[k] + mcs[k+1] * Pow2[k]) % N
        /\ su[k+1] = (su[k] + us[k+1] * Pow2[k]) % N
    BY <1>1, <1>2, <2>2
  <2>10. QED
    BY <2>7, <2>8, <2>9, Zenon
<1>7. T = Nat
  BY <1>5, <1>6, SetInduction
<1>8. PICK q \in Int : sm[K] = su[K] + (y % Pow2[K]) * x + N * q
  <2>1. K \in T
    <3> HIDE DEF T
    <3>1. QED
      BY <1>3, <1>7
  <2>2. K <= K
    BY <1>3
  <2>3. Related(K)
    BY <2>1, <2>2
  <2>4. QED
    BY <2>3 DEF Congruent
<1>9. y % Pow2[K] = y
  <2>1. Pow2[K] \in Nat /\ Pow2[K] > 0
    BY <1>3, Pow2Def
  <2>2. y \in 0 .. (Pow2[K] - 1)
    BY <1>3, <2>1, RoundsAssumption
  <2> DEFINE p == Pow2[K]
  <2> HIDE DEF p
  <2>3. p \in Nat /\ p > 0 /\ y \in 0 .. (p-1)
    BY <2>1, <2>2 DEF p
  <2>4. (p * 0 + y) % p = y
    BY <2>3, DivModUnique
  <2>5. p * 0 + y = y
    BY <2>3
  <2>6. QED
    BY <2>4, <2>5 DEF p
<1>10. PICK q1 \in Int : ComputeAliceShare(us) = (N - su[K]) + N * q1
  <2>1. N - su[K] \in Int
    BY <1>3, <1>4
  <2>2. QED
    BY <2>1, <1>1, ModWitness DEF ComputeAliceShare
<1>11. ComputeBobShare(mcs) = sm[K]
  BY <1>2 DEF ComputeBobShare
<1>12. ComputeAliceShare(us) + ComputeBobShare(mcs) = x * y + N * (1 + q1 + q)
  <2>1. su[K] \in Int
    BY <1>3, <1>4
  <2>2. N * (1 + q1 + q) = N + N * q1 + N * q
    BY <1>3
  <2>3. y * x = x * y
    BY <1>3
  <2>4. N * q \in Int /\ N * q1 \in Int /\ x * y \in Int
    BY <1>3
  <2>5. QED
    BY <1>3, <1>8, <1>9, <1>10, <1>11, <2>1, <2>2, <2>3, <2>4
<1>13. QED
  <2>1. x * y \in Int /\ 1 + q1 + q \in Int /\ x * y + N * (1 + q1 + q) \in Int
    BY <1>3
  <2>2. (x * y + N * (1 + q1 + q)) % N = (x * y) % N
    BY <1>3, <2>1, OrderAssumption, ModShift
  <2>3. QED
    BY <1>12, <2>2 DEF Verify
-----------------------------------------------------------------------------
(* Multiples of a point.                                                   *)

\* Repeated addition, one addition at a time.
LEMMA MultipleSum ==
  ASSUME NEW P \in Element, NEW n \in Nat
  PROVE  \E total \in [0 .. n -> Element] :
           /\ total[0] = Infinity
           /\ \A i \in 1 .. n : total[i] = Add(total[i-1], P)
           /\ Multiple(n, P) = total[n]
<1> DEFINE D == [p \in Element \X Nat |-> Add(p[1], P)]
<1>1. Infinity \in Element /\ D \in [Element \X Nat -> Element]
  BY AdditionAssumption DEF Element
<1>2. PICK g : IsRun(g, n, Element, Infinity, D)
  <2> HIDE DEF D
  <2>1. QED
    BY <1>1, FiniteRunExists
<1>3. g \in [0 .. n -> Element] /\ g[0] = Infinity
  BY <1>2 DEF IsRun
<1>4. ASSUME NEW i \in 1 .. n PROVE g[i] = Add(g[i-1], P)
  <2>1. i \in Nat /\ i - 1 \in 0 .. n
    OBVIOUS
  <2>2. g[i-1] \in Element /\ g[i] = D[<<g[i-1], i>>]
    BY <1>2, <1>3, <2>1 DEF IsRun
  <2>3. QED
    BY <2>1, <2>2
<1>5. g = [i \in 0 .. n |-> IF i = 0 THEN Infinity ELSE Add(g[i-1], P)]
  BY <1>3, <1>4
<1>6. PICK total : /\ total = [i \in 0 .. n |-> IF i = 0 THEN Infinity ELSE Add(total[i-1], P)]
                   /\ Multiple(n, P) = total[n]
  <2> DEFINE f[i \in 0 .. n] == IF i = 0 THEN Infinity ELSE Add(f[i-1], P)
  <2>1. f = [i \in 0 .. n |-> IF i = 0 THEN Infinity ELSE Add(f[i-1], P)]
    BY <1>5
  <2>2. Multiple(n, P) = f[n]
    BY DEF Multiple
  <2> HIDE DEF f
  <2>3. QED
    BY <2>1, <2>2
<1>7. total[0] = Infinity /\ \A i \in 1 .. n : total[i] = Add(total[i-1], P)
  BY <1>6
<1> DEFINE T == {i \in Nat : i <= n => total[i] \in Element}
<1>8. T = Nat
  <2>1. 0 \in T
    BY <1>1, <1>7
  <2>2. ASSUME NEW i \in T PROVE i + 1 \in T
    <3>1. SUFFICES ASSUME i + 1 <= n PROVE total[i+1] \in Element
      OBVIOUS
    <3>2. i + 1 \in 1 .. n /\ total[(i+1)-1] \in Element
      BY <3>1
    <3>3. QED
      BY <3>2, <1>7, AdditionAssumption
  <2>3. QED
    BY <2>1, <2>2, SetInduction
<1>9. total \in [0 .. n -> Element]
  <2>1. \A i \in 0 .. n : total[i] \in Element
    BY <1>8
  <2>2. total = [i \in 0 .. n |-> total[i]]
    BY <1>6
  <2>3. QED
    BY <2>1, <2>2
<1>10. QED
  BY <1>6, <1>7, <1>9

LEMMA MultipleType ==
  ASSUME NEW P \in Element, NEW n \in Nat
  PROVE  Multiple(n, P) \in Element
BY MultipleSum

LEMMA MultipleZero ==
  ASSUME NEW P \in Element
  PROVE  Multiple(0, P) = Infinity
BY MultipleSum

\* The sums of two counts agree as far as both go.
LEMMA MultipleNext ==
  ASSUME NEW P \in Element, NEW n \in Nat
  PROVE  Multiple(n+1, P) = Add(Multiple(n, P), P)
<1>1. PICK f \in [0 .. n -> Element] :
        /\ f[0] = Infinity
        /\ \A i \in 1 .. n : f[i] = Add(f[i-1], P)
        /\ Multiple(n, P) = f[n]
  BY MultipleSum
<1>2. n + 1 \in Nat
  OBVIOUS
<1>3. PICK g \in [0 .. (n+1) -> Element] :
        /\ g[0] = Infinity
        /\ \A i \in 1 .. (n+1) : g[i] = Add(g[i-1], P)
        /\ Multiple(n+1, P) = g[n+1]
  BY <1>2, MultipleSum
<1> DEFINE T == {i \in Nat : i <= n => f[i] = g[i]}
<1>4. T = Nat
  <2>1. 0 \in T
    BY <1>1, <1>3
  <2>2. ASSUME NEW i \in T PROVE i + 1 \in T
    <3>1. SUFFICES ASSUME i + 1 <= n PROVE f[i+1] = g[i+1]
      OBVIOUS
    <3>2. /\ i + 1 \in 1 .. n /\ i + 1 \in 1 .. (n+1)
          /\ (i+1) - 1 = i /\ f[i] = g[i]
      BY <3>1
    <3>3. f[i+1] = Add(f[i], P) /\ g[i+1] = Add(g[i], P)
      BY <1>1, <1>3, <3>2
    <3>4. QED
      BY <3>2, <3>3
  <2>3. QED
    BY <2>1, <2>2, SetInduction
<1>5. f[n] = g[n]
  BY <1>4
<1>6. n + 1 \in 1 .. (n+1) /\ (n+1) - 1 = n
  OBVIOUS
<1>7. QED
  BY <1>1, <1>3, <1>5, <1>6

\* iP + jP = (i+j)P
LEMMA AddMultiples ==
  ASSUME NEW P \in Element, NEW i \in Nat, NEW j \in Nat
  PROVE  Add(Multiple(i, P), Multiple(j, P)) = Multiple(i + j, P)
<1> DEFINE T == {k \in Nat : Add(Multiple(i, P), Multiple(k, P)) = Multiple(i + k, P)}
<1>1. 0 \in T
  BY MultipleZero, MultipleType, AdditionAssumption
<1>2. ASSUME NEW k \in T PROVE k + 1 \in T
  <2>1. k \in Nat /\ i + k \in Nat /\ i + (k+1) = (i+k) + 1
    OBVIOUS
  <2>2. Multiple(i, P) \in Element /\ Multiple(k, P) \in Element
    BY <2>1, MultipleType
  <2>3. Multiple(k+1, P) = Add(Multiple(k, P), P)
    BY <2>1, MultipleNext
  <2>4. Add(Multiple(i, P), Multiple(k+1, P)) = Add(Add(Multiple(i, P), Multiple(k, P)), P)
    BY <2>2, <2>3, AdditionAssumption
  <2>5. Add(Multiple(i, P), Multiple(k, P)) = Multiple(i + k, P)
    OBVIOUS
  <2>6. Multiple((i+k) + 1, P) = Add(Multiple(i + k, P), P)
    BY <2>1, MultipleNext
  <2>7. QED
    BY <2>1, <2>4, <2>5, <2>6
<1>3. T = Nat
  BY <1>1, <1>2, SetInduction
<1>4. QED
  BY <1>3

\* i(jP) = (ij)P
LEMMA MultipleOfMultiple ==
  ASSUME NEW P \in Element, NEW i \in Nat, NEW j \in Nat
  PROVE  Multiple(i, Multiple(j, P)) = Multiple(i * j, P)
<1> DEFINE Q == Multiple(j, P)
           T == {k \in Nat : Multiple(k, Q) = Multiple(k * j, P)}
<1>1. Q \in Element
  BY MultipleType
<1>2. 0 \in T
  <2>1. 0 * j = 0
    OBVIOUS
  <2>2. QED
    BY <1>1, <2>1, MultipleZero
<1>3. ASSUME NEW k \in T PROVE k + 1 \in T
  <2>1. k \in Nat /\ k * j \in Nat /\ (k+1) * j = k * j + j
    OBVIOUS
  <2>2. Multiple(k+1, Q) = Add(Multiple(k, Q), Q)
    BY <1>1, <2>1, MultipleNext
  <2>3. Add(Multiple(k * j, P), Q) = Multiple(k * j + j, P)
    BY <2>1, AddMultiples
  <2>4. QED
    BY <2>1, <2>2, <2>3
<1>4. T = Nat
  BY <1>2, <1>3, SetInduction
<1>5. QED
  BY <1>4

LEMMA MultipleOfInfinity ==
  ASSUME NEW n \in Nat
  PROVE  Multiple(n, Infinity) = Infinity
<1> DEFINE T == {k \in Nat : Multiple(k, Infinity) = Infinity}
<1>1. Infinity \in Element
  BY DEF Element
<1>2. 0 \in T
  BY <1>1, MultipleZero
<1>3. ASSUME NEW k \in T PROVE k + 1 \in T
  BY <1>1, MultipleNext, AdditionAssumption
<1>4. T = Nat
  BY <1>2, <1>3, SetInduction
<1>5. QED
  BY <1>4

LEMMA MultipleOne ==
  ASSUME NEW P \in Element
  PROVE  Multiple(1, P) = P /\ Multiple(2, P) = Add(P, P)
<1>1. Multiple(0+1, P) = Add(Multiple(0, P), P)
  BY MultipleNext
<1>2. Multiple(1, P) = P
  BY <1>1, MultipleZero, AdditionAssumption
<1>3. Multiple(1+1, P) = Add(Multiple(1, P), P)
  BY MultipleNext
<1>4. QED
  BY <1>2, <1>3
-----------------------------------------------------------------------------
(* Double and add.                                                         *)

\* The variables of the loop, what one iteration makes of them, and what the loop
\* returns from them.
LoopState == [k : Nat, result : Element, addend : Element]

Iteration(st) ==
  [ k      |-> st.k \div 2,
    result |-> IF st.k % 2 = 1 THEN Add(st.result, st.addend) ELSE st.result,
    addend |-> IF st.k \div 2 > 0 THEN Add(st.addend, st.addend) ELSE st.addend ]

Owed(st) == Add(st.result, Multiple(st.k, st.addend))

\* An iteration halves k and leaves the value that is owed as it was.
LEMMA IterationOwesTheSame ==
  ASSUME NEW st \in LoopState, st.k # 0
  PROVE  /\ Iteration(st) \in LoopState
         /\ Iteration(st).k < st.k
         /\ Owed(Iteration(st)) = Owed(st)
<1> DEFINE q == st.k \div 2
           e == st.k % 2
           R == st.result
           A == st.addend
           next == Iteration(st)
<1>1. st.k \in Nat /\ R \in Element /\ A \in Element
  BY DEF LoopState
<1>2. e \in 0 .. 1 /\ q \in Int /\ st.k = 2 * q + e
  <2>1. st.k \in Int
    BY <1>1
  <2>2. QED
    BY <2>1, DivMod
<1>3. q \in Nat /\ q < st.k
  <2>1. st.k > 0
    BY <1>1
  <2> HIDE DEF q, e
  <2>2. QED
    BY <1>1, <1>2, <2>1
<1>4. Add(R, A) \in Element /\ Add(A, A) \in Element
  BY <1>1, AdditionAssumption
<1>5. /\ next.k = q
      /\ next.result = IF e = 1 THEN Add(R, A) ELSE R
      /\ next.addend = IF q > 0 THEN Add(A, A) ELSE A
      /\ next = [k |-> q, result |-> next.result, addend |-> next.addend]
  BY DEF Iteration
<1> HIDE DEF q, e, next
<1>6. next.result \in Element /\ next.addend \in Element
  BY <1>1, <1>4, <1>5
<1>7. next \in LoopState
  BY <1>3, <1>5, <1>6 DEF LoopState
<1>8. next.result = Add(R, Multiple(e, A))
  <2>1. CASE e = 1
    BY <1>1, <1>5, <2>1, MultipleOne
  <2>2. CASE e = 0
    BY <1>1, <1>5, <2>2, MultipleZero, AdditionAssumption
  <2>3. QED
    BY <1>2, <2>1, <2>2
<1>9. Multiple(q, next.addend) = Multiple(2 * q, A)
  <2>1. CASE q > 0
    <3>1. next.addend = Multiple(2, A)
      BY <1>1, <1>5, <2>1, MultipleOne
    <3>2. Multiple(q, Multiple(2, A)) = Multiple(q * 2, A)
      BY <1>1, <1>3, MultipleOfMultiple
    <3>3. q * 2 = 2 * q
      BY <1>3
    <3>4. QED
      BY <3>1, <3>2, <3>3
  <2>2. CASE q = 0
    <3>1. 2 * q = 0
      BY <2>2
    <3>2. QED
      BY <1>1, <1>6, <2>2, <3>1, MultipleZero
  <2>3. QED
    BY <1>3, <2>1, <2>2
<1>10. Owed(next) = Add(Add(R, Multiple(e, A)), Multiple(2 * q, A))
  BY <1>5, <1>8, <1>9 DEF Owed
<1>11. e \in Nat /\ 2 * q \in Nat /\ e + 2 * q = st.k
  BY <1>2, <1>3
<1>12. Multiple(e, A) \in Element /\ Multiple(2 * q, A) \in Element
  BY <1>1, <1>11, MultipleType
<1>13. Owed(next) = Add(R, Add(Multiple(e, A), Multiple(2 * q, A)))
  BY <1>1, <1>10, <1>12, AdditionAssumption
<1>14. Add(Multiple(e, A), Multiple(2 * q, A)) = Multiple(st.k, A)
  BY <1>1, <1>11, AddMultiples
<1>15. Owed(next) = Owed(st)
  BY <1>13, <1>14 DEF Owed
<1>16. QED
  BY <1>3, <1>5, <1>7, <1>15 DEF next

LEMMA OwedAtTheEnd ==
  ASSUME NEW st \in LoopState, st.k = 0
  PROVE  Owed(st) = st.result
BY MultipleZero, AdditionAssumption DEF Owed, LoopState

\* The loop of scalarMultiply is repeated addition: for every associative addition,
\* every point and every scalar, whatever its number of bits.
THEOREM DoubleAndAddCorrect ==
  ASSUME NEW s \in Nat, NEW P \in Element
  PROVE  ScalarMultiply(s, P) = Multiple(s, P)
<1> DEFINE W == [st \in LoopState |-> Owed(st)]
           start == [k |-> s, result |-> Infinity, addend |-> P]
<1>1. W = [st \in LoopState |-> IF st.k = 0 THEN st.result ELSE W[Iteration(st)]]
  <2>1. ASSUME NEW st \in LoopState
        PROVE  Owed(st) = IF st.k = 0 THEN st.result ELSE W[Iteration(st)]
    <3>1. CASE st.k = 0
      BY <3>1, OwedAtTheEnd
    <3>2. CASE st.k # 0
      BY <3>2, IterationOwesTheSame
    <3>3. QED
      BY <3>1, <3>2
  <2>2. QED
    BY <2>1
<1>2. PICK loop :
        /\ loop = [st \in LoopState |-> IF st.k = 0 THEN st.result ELSE loop[Iteration(st)]]
        /\ ScalarMultiply(s, P) = loop[start]
  <2> DEFINE f[st \in [k : Nat, result : Element, addend : Element]] ==
               IF st.k = 0 THEN st.result
               ELSE f[ [ k      |-> st.k \div 2,
                         result |-> IF st.k % 2 = 1 THEN Add(st.result, st.addend)
                                    ELSE st.result,
                         addend |-> IF st.k \div 2 > 0 THEN Add(st.addend, st.addend)
                                    ELSE st.addend ] ]
  <2>1. f = [st \in LoopState |-> IF st.k = 0 THEN st.result ELSE f[Iteration(st)]]
    BY <1>1 DEF LoopState, Iteration
  <2>2. ScalarMultiply(s, P) = f[start]
    BY DEF ScalarMultiply
  <2> HIDE DEF f
  <2>3. QED
    BY <2>1, <2>2
<1>3. \A st \in LoopState : loop[st] = IF st.k = 0 THEN st.result ELSE loop[Iteration(st)]
  BY <1>2
<1> DEFINE T == {n \in Nat : \A st \in LoopState : st.k <= n => loop[st] = Owed(st)}
<1>4. T = Nat
  <2>1. 0 \in T
    <3>1. SUFFICES ASSUME NEW st \in LoopState, st.k <= 0 PROVE loop[st] = Owed(st)
      OBVIOUS
    <3>2. st.k = 0
      BY <3>1 DEF LoopState
    <3>3. QED
      BY <3>2, <1>3, OwedAtTheEnd
  <2>2. ASSUME NEW n \in T PROVE n + 1 \in T
    <3>1. SUFFICES ASSUME NEW st \in LoopState, st.k <= n + 1 PROVE loop[st] = Owed(st)
      OBVIOUS
    <3>2. CASE st.k = 0
      BY <3>2, <1>3, OwedAtTheEnd
    <3>3. CASE st.k # 0
      <4>1. /\ Iteration(st) \in LoopState /\ Iteration(st).k < st.k
            /\ Owed(Iteration(st)) = Owed(st)
        BY <3>3, IterationOwesTheSame
      <4>2. Iteration(st).k \in Nat /\ st.k \in Nat /\ n \in Nat
        BY <4>1 DEF LoopState
      <4>3. Iteration(st).k <= n
        BY <3>1, <4>1, <4>2
      <4>4. loop[Iteration(st)] = Owed(Iteration(st))
        BY <4>1, <4>3
      <4>5. QED
        BY <3>3, <4>1, <4>4, <1>3
    <3>4. QED
      BY <3>2, <3>3
  <2>3. QED
    BY <2>1, <2>2, SetInduction
<1>5. start \in LoopState /\ start.k = s
  BY AdditionAssumption DEF LoopState, Element
<1>6. loop[start] = Owed(start)
  <2>1. s <= s
    OBVIOUS
  <2> HIDE DEF start
  <2>2. QED
    BY <1>4, <1>5, <2>1
<1>7. Owed(start) = Add(Infinity, Multiple(s, P))
  BY DEF Owed
<1>8. QED
  BY <1>2, <1>6, <1>7, MultipleType, AdditionAssumption
-----------------------------------------------------------------------------
(* The group of prime order.                                               *)

\* No scalar takes a point to infinity: the counts that do are the multiples of the
\* least of them, which divides N and, P being no infinity, is not 1.
LEMMA NoScalarAtInfinity ==
  ASSUME NEW P \in Point, NEW s \in Scalar
  PROVE  Multiple(s, P) # Infinity
<1>1. N \in Nat /\ N > 1 /\ s \in 1 .. (N-1) /\ P \in Element /\ P # Infinity
  BY OrderAssumption, AdditionAssumption DEF Scalar, Element
<1> DEFINE Z == {n \in Nat \ {0} : Multiple(n, P) = Infinity}
<1>2. SUFFICES ASSUME s \in Z PROVE FALSE
  BY <1>1
<1>3. PICK d \in Z : \A n \in Z : ~ (<<n, d>> \in LessThan)
  <2>1. Z \subseteq Nat /\ Z # {}
    BY <1>2
  <2> HIDE DEF Z
  <2>2. QED
    BY <2>1, LessThanWellFounded, WFMin
<1>4. d \in Nat /\ d > 0 /\ Multiple(d, P) = Infinity
  OBVIOUS
<1>5. ASSUME NEW n \in Z PROVE n >= d
  <2>1. n \in Nat /\ ~ (<<n, d>> \in LessThan)
    BY <1>3
  <2> HIDE DEF Z
  <2>2. ~ (n < d)
    BY <1>4, <2>1 DEF LessThan
  <2>3. QED
    BY <1>4, <2>1, <2>2
<1>6. d # 1
  BY <1>1, <1>4, MultipleOne
<1>7. d <= N - 1
  BY <1>1, <1>2, <1>4, <1>5
<1> DEFINE q == N \div d
           r == N % d
<1>8. r \in 0 .. (d-1) /\ q \in Int /\ N = d * q + r
  BY <1>1, <1>4, DivMod
<1> HIDE DEF q, r
<1>9. q \in Nat
  <2>1. CASE q <= -1
    <3>1. d * q <= -d
      BY <1>4, <1>8, <2>1
    <3>2. QED
      BY <1>1, <1>4, <1>8, <3>1
  <2>2. QED
    BY <1>8, <2>1
<1>10. Multiple(d * q, P) = Infinity
  <2>1. d * q \in Nat /\ d * q = q * d
    BY <1>4, <1>9
  <2>2. Multiple(q, Infinity) = Infinity
    BY <1>9, MultipleOfInfinity
  <2>3. Multiple(q, Multiple(d, P)) = Multiple(q * d, P)
    BY <1>1, <1>4, <1>9, MultipleOfMultiple
  <2>4. QED
    BY <1>4, <2>1, <2>2, <2>3
<1>11. Multiple(r, P) = Infinity
  <2>1. r \in Nat /\ d * q \in Nat
    BY <1>4, <1>8, <1>9
  <2>2. Add(Multiple(d * q, P), Multiple(r, P)) = Multiple(N, P)
    BY <1>1, <1>8, <2>1, AddMultiples
  <2>3. Multiple(r, P) \in Element
    BY <1>1, <2>1, MultipleType
  <2>4. QED
    BY <1>10, <2>2, <2>3, AdditionAssumption, GroupAssumption
<1>12. r = 0
  <2>1. CASE r # 0
    <3>1. r \in Z /\ r < d
      BY <1>4, <1>8, <1>11, <2>1
    <3>2. QED
      BY <1>4, <1>5, <3>1
  <2>2. QED
    BY <2>1
<1>13. d \in 2 .. (N-1) /\ N % d = 0
  BY <1>1, <1>4, <1>6, <1>7, <1>12 DEF r
<1>14. QED
  BY <1>13, GroupAssumption

\* A scalar multiple of a point is a point: it has an encoding.
LEMMA MulIsMultiple ==
  ASSUME NEW s \in Scalar
  PROVE  /\ MulG(s) = Multiple(s, BasePoint) /\ MulG(s) \in Point
         /\ \A P \in Point : Mul(s, P) = Multiple(s, P) /\ Mul(s, P) \in Point
<1>1. s \in Nat
  BY OrderAssumption DEF Scalar
<1>2. ASSUME NEW P \in Point PROVE ScalarMultiply(s, P) = Multiple(s, P) /\ Multiple(s, P) \in Point
  <2>1. P \in Element
    BY DEF Element
  <2>2. ScalarMultiply(s, P) = Multiple(s, P) /\ Multiple(s, P) \in Element
    BY <1>1, <2>1, DoubleAndAddCorrect, MultipleType
  <2>3. Multiple(s, P) # Infinity
    BY NoScalarAtInfinity
  <2>4. QED
    BY <2>2, <2>3 DEF Element
<1>3. QED
  BY <1>2, GroupAssumption DEF MulG, Mul

LEMMA PointTypes ==
  /\ Infinity \notin Point
  /\ \A s \in Scalar : MulG(s) \in Point
  /\ \A s \in Scalar, P \in Point : Mul(s, P) \in Point
  /\ \A P \in Point : Neg(P) \in Point
  /\ \A P, Q \in Point : Add(P, Q) \in Point \cup {Infinity}
BY MulIsMultiple, GroupAssumption, AdditionAssumption DEF Element

\* Diffie-Hellman: s(tG) = t(sG)
LEMMA DiffieHellman ==
  ASSUME NEW s \in Scalar, NEW t \in Scalar
  PROVE  Mul(s, MulG(t)) = Mul(t, MulG(s))
<1>1. s \in Nat /\ t \in Nat /\ s * t = t * s
  BY OrderAssumption DEF Scalar
<1>2. BasePoint \in Element
  BY GroupAssumption DEF Element
<1>3. Mul(s, MulG(t)) = Multiple(s * t, BasePoint)
  BY <1>1, <1>2, MulIsMultiple, MultipleOfMultiple
<1>4. Mul(t, MulG(s)) = Multiple(t * s, BasePoint)
  BY <1>1, <1>2, MulIsMultiple, MultipleOfMultiple
<1>5. QED
  BY <1>1, <1>3, <1>4

\* (P + Q) - Q = P
LEMMA Cancellation ==
  ASSUME NEW P \in Point, NEW Q \in Point
  PROVE  Add(Add(P, Q), Neg(Q)) = P
<1>1. P \in Element /\ Q \in Element /\ Neg(Q) \in Element
  BY GroupAssumption DEF Element
<1>2. Add(Add(P, Q), Neg(Q)) = Add(P, Add(Q, Neg(Q)))
  BY <1>1, AdditionAssumption
<1>3. QED
  BY <1>1, <1>2, GroupAssumption, AdditionAssumption

\* The difference of two multiples of the generator is one.
LEMMA NegateMultiple ==
  ASSUME NEW t \in Scalar
  PROVE  N - t \in Scalar /\ Neg(MulG(t)) = MulG(N - t)
<1>1. N \in Nat /\ t \in Nat /\ N - t \in Nat /\ N - t \in Scalar /\ (N - t) + t = N
  BY OrderAssumption DEF Scalar
<1> DEFINE Q == MulG(t)
           R == MulG(N - t)
<1>2. /\ Q = Multiple(t, BasePoint) /\ R = Multiple(N - t, BasePoint)
      /\ Q \in Point /\ R \in Point
  BY <1>1, MulIsMultiple
<1>3. Add(R, Q) = Infinity
  <2>1. BasePoint \in Element
    BY GroupAssumption DEF Element
  <2>2. Add(R, Q) = Multiple((N - t) + t, BasePoint)
    BY <1>1, <1>2, <2>1, AddMultiples
  <2>3. QED
    BY <1>1, <2>2, GroupAssumption
<1>4. Add(Add(R, Q), Neg(Q)) = R
  BY <1>2, Cancellation
<1>5. Neg(Q) \in Element
  BY <1>2, GroupAssumption DEF Element
<1>6. Neg(Q) = R
  BY <1>3, <1>4, <1>5, AdditionAssumption
<1>7. QED
  BY <1>1, <1>6
-----------------------------------------------------------------------------
(* One transfer.                                                           *)

\* Keys and ciphertexts are words.
LEMMA KeyType ==
  ASSUME NEW s \in Scalar, NEW P \in Point
  PROVE  KeyOf(Mul(s, P)) \in Word
BY PointTypes, KeyAssumption DEF KeyOf

LEMMA ScalarTypes ==
  /\ Scalar \subseteq Residue /\ Residue \subseteq Word /\ Scalar \subseteq Nat
  /\ \A s, t \in Scalar : ModAdd(s, t) \in Residue
<1>1. N \in Nat /\ N > 1
  BY OrderAssumption
<1>2. Scalar \subseteq Residue /\ Residue \subseteq Word /\ Scalar \subseteq Nat
  BY <1>1, KeyAssumption DEF Scalar, Residue
<1>3. ASSUME NEW s \in Scalar, NEW t \in Scalar PROVE ModAdd(s, t) \in Residue
  <2>1. s + t \in Int
    BY <1>2
  <2>2. QED
    BY <1>1, <2>1, DivMod DEF ModAdd, Residue
<1>4. QED
  BY <1>2, <1>3

\* Bob's answer to bit 1 is B = bG + A, and Alice recovers bG from it.
LEMMA AliceRecovers ==
  ASSUME NEW a \in Scalar, NEW b \in Scalar, Add(MulG(b), MulG(a)) \in Point
  PROVE  PointSubtract(Add(MulG(b), MulG(a)), MulG(a)) = MulG(b)
BY PointTypes, Cancellation DEF PointSubtract

\* Alice has no use for an answer only when the bit is 0 and the two scalars give
\* the same point.
LEMMA RefusalIsCollision ==
  ASSUME NEW a \in Scalar, NEW b \in Scalar, NEW bit \in {0, 1},
         BobPoint(bit, b, MulG(a)) \in Point,
         AliceRefuses(a, BobPoint(bit, b, MulG(a)))
  PROVE  bit = 0 /\ PointSubtract(MulG(b), MulG(a)) = Infinity
<1>1. CASE bit = 0
  BY <1>1 DEF BobPoint, AliceRefuses
<1>2. CASE bit = 1
  <2>1. BobPoint(bit, b, MulG(a)) = Add(MulG(b), MulG(a))
    BY <1>2 DEF BobPoint
  <2>2. PointSubtract(BobPoint(bit, b, MulG(a)), MulG(a)) = MulG(b)
    BY <2>1, AliceRecovers
  <2>3. QED
    BY <2>2, PointTypes DEF AliceRefuses
<1>3. QED
  BY <1>1, <1>2

\* What process_init, processResponse and decrypt_message do together: Bob obtains
\* m0 + bit * x mod n, for every group in which the assumptions on the curve hold.
THEOREM TransferCorrect ==
  ASSUME NEW a \in Scalar, NEW b \in Scalar, NEW m0 \in Scalar, NEW x \in Scalar,
         NEW bit \in {0, 1},
         BobPoint(bit, b, MulG(a)) \in Point,
         ~AliceRefuses(a, BobPoint(bit, b, MulG(a)))
  PROVE  /\ AliceEncrypt(a, BobPoint(bit, b, MulG(a)), m0, x) \in [m0 : Word, m1 : Word]
         /\ BobDecrypt(bit, BobKey(b, MulG(a)),
                       AliceEncrypt(a, BobPoint(bit, b, MulG(a)), m0, x))
              = (m0 + bit * x) % N
<1> DEFINE B  == BobPoint(bit, b, MulG(a))
           k0 == KeyOf(Mul(a, B))
           k1 == KeyOf(Mul(a, PointSubtract(B, MulG(a))))
           m1 == ModAdd(m0, x)
           e  == AliceEncrypt(a, B, m0, x)
           kB == BobKey(b, MulG(a))
<1>1. MulG(a) \in Point /\ MulG(b) \in Point /\ B \in Point
  BY PointTypes
<1>2. PointSubtract(B, MulG(a)) \in Point
  BY <1>1, PointTypes DEF PointSubtract, AliceRefuses
<1>3. k0 \in Word /\ k1 \in Word
  BY <1>1, <1>2, KeyType
<1>4. m0 \in Word /\ m1 \in Word
  BY ScalarTypes
<1>5. e = [m0 |-> XorEncrypt(m0, k0), m1 |-> XorEncrypt(m1, k1)]
  BY DEF AliceEncrypt
<1>6. /\ XorEncrypt(m0, k0) \in Word /\ XorEncrypt(XorEncrypt(m0, k0), k0) = m0
      /\ XorEncrypt(m1, k1) \in Word /\ XorEncrypt(XorEncrypt(m1, k1), k1) = m1
  BY <1>3, <1>4, KeyAssumption
<1>7. Mul(a, MulG(b)) = Mul(b, MulG(a))
  BY DiffieHellman
<1>8. CASE bit = 0
  <2>1. B = MulG(b) /\ kB = k0
    BY <1>7, <1>8 DEF BobPoint, BobKey
  <2>2. BobDecrypt(bit, kB, e) = m0
    BY <1>5, <1>6, <1>8, <2>1 DEF BobDecrypt
  <2>3. (m0 + bit * x) % N = m0
    <3>1. N \in Nat /\ m0 \in 0 .. (N-1) /\ x \in Nat
      BY OrderAssumption DEF Scalar
    <3>2. m0 + bit * x = N * 0 + m0
      BY <1>8, <3>1
    <3>3. QED
      BY <3>1, <3>2, DivModUnique, OrderAssumption
  <2>4. QED
    BY <1>5, <1>6, <2>2, <2>3
<1>9. CASE bit = 1
  <2>1. B = Add(MulG(b), MulG(a))
    BY <1>9 DEF BobPoint
  <2>2. PointSubtract(B, MulG(a)) = MulG(b)
    BY <1>1, <2>1, AliceRecovers
  <2>3. kB = k1
    BY <1>7, <2>2 DEF BobKey
  <2>4. BobDecrypt(bit, kB, e) = m1
    BY <1>5, <1>6, <1>9, <2>3 DEF BobDecrypt
  <2>5. m0 + bit * x = m0 + x
    BY <1>9, ScalarTypes
  <2>6. QED
    BY <1>5, <1>6, <2>4, <2>5 DEF ModAdd
<1>10. QED
  BY <1>8, <1>9
=============================================================================
