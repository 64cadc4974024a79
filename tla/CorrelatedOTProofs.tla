------------------------- MODULE CorrelatedOTProofs -------------------------
(***************************************************************************)
(* Proofs about the abstract specification: the outputs stay correlated,   *)
(* and K of them are additive shares of the product; about what the server *)
(* computes from them: on partly reduced numbers it is what it is on       *)
(* residues; and about the local mode, which implements the specification  *)
(* with its own variables.  Only the part about the local mode depends on  *)
(* points and keys.                                                        *)
(***************************************************************************)
EXTENDS LocalDemo, ServerMTA, CotOTProofs

\* A sequence grows by one element at its end.
LEMMA AppendIndex ==
  ASSUME NEW S, NEW s \in Seq(S), NEW e \in S
  PROVE  /\ Append(s, e) \in Seq(S)
         /\ Len(Append(s, e)) = Len(s) + 1
         /\ \A i \in 1 .. Len(s) : Append(s, e)[i] = s[i]
         /\ Append(s, e)[Len(s) + 1] = e
  OBVIOUS

\* The pair a transfer hands out is well typed.
LEMMA PairType ==
  ASSUME NEW mask \in Mask, NEW yy \in Secret, NEW xx \in Secret, NEW i \in Nat
  PROVE  (mask + GetBit(yy, i) * xx) % N \in Residue
<1>1. mask \in Nat /\ xx \in Nat /\ yy \in Nat
  BY DrawAssumption, OrderAssumption DEF Scalar
<1>2. GetBit(yy, i) \in {0, 1}
  BY <1>1, GetBitType
<1>3. mask + GetBit(yy, i) * xx \in Int
  BY <1>1, <1>2
<1>4. QED
  BY <1>3, DivMod, OrderAssumption DEF Residue

LEMMA TypeStep == TypeOK /\ [Next]_vars => TypeOK'
<1> SUFFICES ASSUME TypeOK, [Next]_vars PROVE TypeOK'
  OBVIOUS
<1>1. CASE Choose
  BY <1>1 DEF TypeOK, Choose
<1>2. CASE Transfer
  <2>1. PICK mask \in Mask :
          /\ us' = Append(us, mask)
          /\ mcs' = Append(mcs, (mask + GetBit(y, Len(mcs)) * x) % N)
    BY <1>2 DEF Transfer
  <2>2. (mask + GetBit(y, Len(mcs)) * x) % N \in Residue
    <3>1. y \in Secret /\ x \in Secret /\ Len(mcs) \in Nat
      BY <1>2 DEF TypeOK, Transfer
    <3>2. QED
      BY <3>1, PairType
  <2>3. us' \in Seq(Mask) /\ Len(us') = Len(us) + 1
    BY <2>1, AppendIndex DEF TypeOK
  <2>4. mcs' \in Seq(Residue) /\ Len(mcs') = Len(mcs) + 1
    BY <2>1, <2>2, AppendIndex DEF TypeOK
  <2>5. QED
    BY <1>2, <2>3, <2>4, RoundsAssumption DEF TypeOK, Transfer
<1>3. CASE UNCHANGED vars
  BY <1>3 DEF TypeOK, vars
<1>4. QED
  BY <1>1, <1>2, <1>3 DEF Next

\* Every reachable state of the abstract specification is well typed.
THEOREM IdealTypeCorrect == Spec => []TypeOK
<1>1. Init => TypeOK
  BY RoundsAssumption DEF Init, TypeOK
<1>2. QED
  BY <1>1, TypeStep, PTL DEF Spec

\* What the product rests on: each pair of outputs is what its transfer made it, for
\* the y that was picked before the first of them.
Correlated ==
  /\ y = 0 => mcs = <<>>
  /\ \A i \in 1 .. Len(mcs) : mcs[i] = (us[i] + GetBit(y, i-1) * x) % N

LEMMA CorrelatedStep == TypeOK /\ Correlated /\ [Next]_vars => Correlated'
<1> SUFFICES ASSUME TypeOK, Correlated, [Next]_vars PROVE Correlated'
  OBVIOUS
<1>1. CASE Choose
  <2>1. mcs' = <<>> /\ us' = us
    BY <1>1 DEF Choose, Correlated
  <2>2. QED
    BY <2>1 DEF Correlated
<1>2. CASE Transfer
  <2>1. PICK mask \in Mask :
          /\ us' = Append(us, mask)
          /\ mcs' = Append(mcs, (mask + GetBit(y, Len(mcs)) * x) % N)
    BY <1>2 DEF Transfer
  <2> DEFINE mc == (mask + GetBit(y, Len(mcs)) * x) % N
  <2>2. x' = x /\ y' = y /\ y # 0 /\ y \in Secret /\ x \in Secret
    BY <1>2 DEF TypeOK, Transfer
  <2>3. mc \in Residue
    BY <2>2, PairType DEF TypeOK
  <2> HIDE DEF mc
  <2>4. /\ Len(us') = Len(us) + 1 /\ us'[Len(us) + 1] = mask
        /\ \A i \in 1 .. Len(us) : us'[i] = us[i]
    BY <2>1, AppendIndex DEF TypeOK
  <2>5. /\ Len(mcs') = Len(mcs) + 1 /\ mcs'[Len(mcs) + 1] = mc
        /\ \A i \in 1 .. Len(mcs) : mcs'[i] = mcs[i]
    BY <2>1, <2>3, AppendIndex DEF TypeOK, mc
  <2>6. Len(us) = Len(mcs) /\ Len(mcs) \in Nat
    BY DEF TypeOK
  <2>7. ASSUME NEW i \in 1 .. Len(mcs')
        PROVE mcs'[i] = (us'[i] + GetBit(y', i-1) * x') % N
    <3>1. CASE i \in 1 .. Len(mcs)
      BY <3>1, <2>2, <2>4, <2>5, <2>6 DEF Correlated
    <3>2. CASE i = Len(mcs) + 1
      <4>1. i - 1 = Len(mcs)
        BY <3>2, <2>6
      <4>2. QED
        BY <3>2, <4>1, <2>2, <2>4, <2>5, <2>6 DEF mc
    <3>3. QED
      BY <3>1, <3>2, <2>5, <2>6
  <2>8. QED
    BY <2>2, <2>7 DEF Correlated
<1>3. CASE UNCHANGED vars
  BY <1>3 DEF Correlated, vars
<1>4. QED
  BY <1>1, <1>2, <1>3 DEF Next

\* The invariant from which SharesMultiply follows; by itself it only restates Transfer.
LEMMA IdealCorrelated == Spec => []Correlated
<1>1. Init => Correlated
  BY DEF Init, Correlated
<1>2. QED
  BY <1>1, CorrelatedStep, IdealTypeCorrect, PTL DEF Spec

\* What both shares are computed from.
LEMMA OutputsAreNumbers ==
  ASSUME TypeOK
  PROVE  us \in Seq(Nat) /\ mcs \in Seq(Nat)
<1>1. Mask \subseteq Nat /\ Residue \subseteq Nat
  BY DrawAssumption, OrderAssumption DEF Scalar, Residue
<1>2. us \in Seq(Mask) /\ mcs \in Seq(Residue)
  BY DEF TypeOK
<1>3. QED
  BY <1>1, <1>2, SeqMonotone

LEMMA OutputsMultiply == TypeOK /\ Correlated => SharesMultiply
<1> SUFFICES ASSUME TypeOK, Correlated, Len(mcs) = K
             PROVE  Verify(x, y, ComputeAliceShare(us), ComputeBobShare(mcs))
  BY DEF SharesMultiply
<1>1. x \in Residue /\ y \in Residue
  BY DrawAssumption, OrderAssumption DEF TypeOK, Scalar, Residue
<1>2. us \in Seq(Nat) /\ mcs \in Seq(Nat)
  BY OutputsAreNumbers
<1>3. Len(us) = K /\ \A i \in 1 .. K : mcs[i] = (us[i] + GetBit(y, i-1) * x) % N
  BY DEF TypeOK, Correlated
<1>4. QED
  BY <1>1, <1>2, <1>3, CorrelatedPairsMultiply

\* After K transfers the two aggregates add up to x * y, for every order N of the
\* group, every K with N <= 2^K and every choice of the masks.
THEOREM IdealSharesMultiply == Spec => []SharesMultiply
<1>1. QED
  BY OutputsMultiply, IdealTypeCorrect, IdealCorrelated, PTL
-----------------------------------------------------------------------------
(* The server's aggregation on partly reduced numbers.                     *)

\* A number below the modulus is its own remainder.
LEMMA RemainderOfSmall ==
  ASSUME NEW n \in Nat, n > 0, NEW r \in 0 .. (n-1)
  PROVE  r % n = r
<1>1. n * 0 + r = r
  OBVIOUS
<1>2. QED
  BY <1>1, DivModUnique

\* What bn_addmod and bn_multiply may leave is below 2N and congruent to the exact
\* result; one bn_mod, or writing it out, makes it the residue.
LEMMA PartlyReducedNumber ==
  ASSUME NEW value \in Int, NEW r \in PartlyReduced(value, N)
  PROVE  /\ r \in 0 .. (2*N - 1)
         /\ r % N = value % N
<1> DEFINE m == value % N
<1>1. N \in Nat /\ N > 0 /\ m \in 0 .. (N-1)
  BY OrderAssumption, DivMod
<1>2. r = m \/ r = m + N
  BY DEF PartlyReduced
<1> HIDE DEF m
<1>3. m % N = m /\ (m + N) % N = m
  <2>1. m + N = m + N * 1 /\ m \in Int /\ m + N \in Int
    BY <1>1
  <2>2. (m + N) % N = m % N
    BY <1>1, <2>1, ModShift
  <2>3. QED
    BY <1>1, <2>2, RemainderOfSmall
<1>4. QED
  BY <1>1, <1>2, <1>3 DEF m

\* One bn_mod turns a partly reduced number into the residue, and the residue fits
\* into the 32 bytes that bn_write_be writes.
LEMMA ModThenWrite ==
  ASSUME NEW r \in 0 .. (2*N - 1)
  PROVE  /\ BnMod(r, N) = r % N
         /\ BnWriteBe(r % N) = r % N
<1>1. N \in Nat /\ N > 0 /\ N <= Bound /\ Bound \in Nat
  BY OrderAssumption, ServerMTAAssumption, WidthAssumption
<1>2. BnMod(r, N) = r % N
  <2>1. CASE r < N
    <3>1. r \in 0 .. (N-1)
      BY <1>1, <2>1
    <3>2. r % N = r
      BY <1>1, <3>1, RemainderOfSmall
    <3>3. QED
      BY <2>1, <3>2 DEF BnMod
  <2>2. CASE ~(r < N)
    <3>1. r - N \in 0 .. (N-1) /\ r = (r - N) + N * 1 /\ r \in Int /\ r - N \in Int
      BY <1>1, <2>2
    <3>2. r % N = (r - N) % N
      BY <1>1, <3>1, ModShift
    <3>3. (r - N) % N = r - N
      BY <1>1, <3>1, RemainderOfSmall
    <3>4. QED
      BY <2>2, <3>2, <3>3 DEF BnMod
  <2>3. QED
    BY <2>1, <2>2
<1>3. BnWriteBe(r % N) = r % N
  <2>1. r \in Int
    BY <1>1
  <2>2. r % N \in 0 .. (N-1)
    BY <1>1, <2>1, DivMod
  <2>3. r % N \in 0 .. (Bound-1) /\ Bound > 0
    BY <1>1, <2>2
  <2>4. QED
    BY <1>1, <2>3, RemainderOfSmall DEF BnWriteBe
<1>4. QED
  BY <1>2, <1>3

\* Remainders may be taken before adding and before multiplying.
LEMMA ModCongruence ==
  ASSUME NEW p \in Int, NEW q \in Int
  PROVE  /\ (p + q) % N = ((p % N) + (q % N)) % N
         /\ (p + q) % N = ((p % N) + q) % N
         /\ (p * q) % N = ((p % N) * (q % N)) % N
         /\ (p * q) % N = (p * (q % N)) % N
<1> DEFINE pr == p % N
           s == p \div N
           qr == q % N
           t == q \div N
<1>1. N \in Nat /\ N > 0
  BY OrderAssumption
<1>2. pr \in Int /\ s \in Int /\ p = N * s + pr
  BY <1>1, DivMod
<1>3. qr \in Int /\ t \in Int /\ q = N * t + qr
  BY <1>1, DivMod
<1> HIDE DEF pr, s, qr, t
<1>4. (p + q) % N = (pr + qr) % N
  <2>1. p + q = (pr + qr) + N * (s + t)
    BY <1>1, <1>2, <1>3
  <2>2. p + q \in Int /\ pr + qr \in Int /\ s + t \in Int
    BY <1>2, <1>3
  <2>3. QED
    BY <1>1, <2>1, <2>2, ModShift
<1>5. (p + q) % N = (pr + q) % N
  <2>1. p + q = (pr + q) + N * s
    BY <1>1, <1>2, <1>3
  <2>2. p + q \in Int /\ pr + q \in Int /\ s \in Int
    BY <1>2
  <2>3. QED
    BY <1>1, <2>1, <2>2, ModShift
<1>6. (p * q) % N = (p * qr) % N
  <2>1. p * q = p * qr + N * (p * t)
    BY <1>1, <1>3
  <2>2. p * q \in Int /\ p * qr \in Int /\ p * t \in Int
    BY <1>3
  <2>3. QED
    BY <1>1, <2>1, <2>2, ModShift
<1>7. (p * qr) % N = (pr * qr) % N
  <2>1. p * qr = pr * qr + N * (s * qr)
    BY <1>1, <1>2, <1>3
  <2>2. p * qr \in Int /\ pr * qr \in Int /\ s * qr \in Int
    BY <1>2, <1>3
  <2>3. QED
    BY <1>1, <2>1, <2>2, ModShift
<1>8. QED
  BY <1>4, <1>5, <1>6, <1>7 DEF pr, qr

\* The locals of the loops on the numbers they really hold, and when they stand for
\* the residues of the loop of Scalars.
RawState == [term : Nat, valueBn : Nat, sum : Nat, twoPowI : Nat]

StandsFor(raw, res) ==
  /\ raw.sum < 2 * N
  /\ raw.term % N = res.term
  /\ raw.sum % N = res.sum
  /\ raw.twoPowI % N = res.twoPowI

LEMMA IterationType ==
  ASSUME NEW raw \in RawState, NEW value, NEW new \in RawIteration(raw, value)
  PROVE  new \in RawState
<1>1. PICK term, sum, power :
        /\ term \in BnMultiply(raw.twoPowI, raw.term, N)
        /\ sum \in BnAddMod(raw.sum, term, N)
        /\ power \in BnAddMod(raw.twoPowI, raw.twoPowI, N)
        /\ new = [term |-> term, valueBn |-> raw.term, sum |-> sum, twoPowI |-> power]
  BY DEF RawIteration, BnCopy
<1>2. raw.term \in Nat /\ raw.sum \in Nat /\ raw.twoPowI \in Nat
  BY DEF RawState
<1>3. \A r \in 0 .. (2*N - 1) : r \in Nat
  BY OrderAssumption
<1>4. term \in Nat
  <2>1. raw.twoPowI * raw.term \in Int
    BY <1>2
  <2>2. QED
    BY <1>1, <1>3, <2>1, PartlyReducedNumber, Zenon DEF BnMultiply
<1>5. sum \in Nat /\ power \in Nat
  <2>1. raw.sum + term \in Int /\ raw.twoPowI + raw.twoPowI \in Int
    BY <1>2, <1>4
  <2>2. QED
    BY <1>1, <1>3, <2>1, PartlyReducedNumber, Zenon DEF BnAddMod
<1>6. QED
  BY <1>1, <1>2, <1>4, <1>5 DEF RawState

\* One iteration, whatever the carries leave, stands for one iteration on residues.
LEMMA IterationStandsFor ==
  ASSUME NEW raw \in RawState, NEW res \in CppState, StandsFor(raw, res),
         NEW value, NEW c, NEW new \in RawIteration(raw, value)
  PROVE  StandsFor(new, CppBobIteration(res, c))
<1>1. PICK term, sum, power :
        /\ term \in BnMultiply(raw.twoPowI, raw.term, N)
        /\ sum \in BnAddMod(raw.sum, term, N)
        /\ power \in BnAddMod(raw.twoPowI, raw.twoPowI, N)
        /\ new = [term |-> term, valueBn |-> raw.term, sum |-> sum, twoPowI |-> power]
  BY DEF RawIteration, BnCopy
<1>2. raw.term \in Nat /\ raw.sum \in Nat /\ raw.twoPowI \in Nat
  BY DEF RawState
<1>3. N \in Nat /\ N > 0
  BY OrderAssumption
<1>4. /\ term \in Nat
      /\ term % N = (raw.twoPowI * raw.term) % N
  <2>1. raw.twoPowI * raw.term \in Int
    BY <1>2
  <2>2. QED
    <3>1. term \in PartlyReduced(raw.twoPowI * raw.term, N)
      BY <1>1 DEF BnMultiply
    <3>2. term \in 0 .. (2*N - 1) /\ term % N = (raw.twoPowI * raw.term) % N
      BY <2>1, <3>1, PartlyReducedNumber, Zenon
    <3>3. QED
      BY <1>3, <3>2
<1>5. /\ sum \in Nat /\ sum < 2 * N
      /\ sum % N = (raw.sum + term) % N
  <2>1. raw.sum + term \in Int
    BY <1>2, <1>4
  <2>2. sum \in 0 .. (2*N - 1) /\ sum % N = (raw.sum + term) % N
    BY <1>1, <2>1, PartlyReducedNumber, Zenon DEF BnAddMod
  <2>3. QED
    BY <1>3, <2>2
<1>6. /\ power \in Nat
      /\ power % N = (raw.twoPowI + raw.twoPowI) % N
  <2>1. raw.twoPowI + raw.twoPowI \in Int
    BY <1>2
  <2>2. power \in 0 .. (2*N - 1) /\ power % N = (raw.twoPowI + raw.twoPowI) % N
    BY <1>1, <2>1, PartlyReducedNumber, Zenon DEF BnAddMod
  <2>3. QED
    BY <1>3, <2>2
<1>7. res.term \in Int /\ res.sum \in Int /\ res.twoPowI \in Int
  BY <1>3 DEF CppState, Residue
<1>8. /\ raw.term % N = res.term /\ raw.sum % N = res.sum
      /\ raw.twoPowI % N = res.twoPowI
  BY DEF StandsFor
<1>9. term % N = (res.twoPowI * res.term) % N
  <2>1. raw.twoPowI \in Int /\ raw.term \in Int
    BY <1>2
  <2>2. (raw.twoPowI * raw.term) % N = ((raw.twoPowI % N) * (raw.term % N)) % N
    BY <2>1, ModCongruence, Zenon
  <2>3. QED
    BY <1>4, <1>8, <2>2, Zenon
<1>10. sum % N = (res.sum + ((res.twoPowI * res.term) % N)) % N
  <2>1. raw.sum \in Int /\ term \in Int
    BY <1>2, <1>4
  <2>2. (raw.sum + term) % N = ((raw.sum % N) + (term % N)) % N
    BY <2>1, ModCongruence, Zenon
  <2>3. ((raw.sum % N) + (term % N)) % N = (res.sum + ((res.twoPowI * res.term) % N)) % N
    BY <1>8, <1>9, Zenon
  <2>4. QED
    BY <1>5, <2>2, <2>3, Zenon
<1>11. power % N = (2 * res.twoPowI) % N
  <2>1. (raw.twoPowI + raw.twoPowI) % N = ((raw.twoPowI % N) + (raw.twoPowI % N)) % N
    <3>1. raw.twoPowI \in Int
      BY <1>2
    <3>2. QED
      BY <3>1, ModCongruence, Zenon
  <2>2. res.twoPowI + res.twoPowI = 2 * res.twoPowI
    BY <1>7
  <2>3. QED
    BY <1>6, <1>8, <2>1, <2>2, Zenon
<1>12. CppBobIteration(res, c) =
         [ term    |-> (res.twoPowI * res.term) % N,
           mcBn    |-> res.term,
           sum     |-> (res.sum + ((res.twoPowI * res.term) % N)) % N,
           twoPowI |-> (2 * res.twoPowI) % N ]
  BY DEF CppBobIteration, BnCopy
<1>13. QED
  BY <1>1, <1>5, <1>9, <1>10, <1>11, <1>12 DEF StandsFor

\* Every iteration has an outcome.
LEMMA IterationOutcome ==
  ASSUME NEW raw \in RawState, NEW value
  PROVE  RawIteration(raw, value) # {}
<1> DEFINE term == (raw.twoPowI * raw.term) % N
           sum == (raw.sum + term) % N
           twoPowI == (raw.twoPowI + raw.twoPowI) % N
<1>1. /\ term \in BnMultiply(raw.twoPowI, raw.term, N)
      /\ sum \in BnAddMod(raw.sum, term, N)
      /\ twoPowI \in BnAddMod(raw.twoPowI, raw.twoPowI, N)
  BY DEF BnMultiply, BnAddMod, PartlyReduced
<1> HIDE DEF term, sum, twoPowI
<1>2. << term, sum, twoPowI >> \in
        UNION { {t} \X BnAddMod(raw.sum, t, N) \X BnAddMod(raw.twoPowI, raw.twoPowI, N) :
                  t \in BnMultiply(raw.twoPowI, raw.term, N) }
  BY <1>1
<1>3. QED
  BY <1>2 DEF RawIteration

\* The loops end in the last of a run of sets of states.
LEMMA RawLoopRun ==
  ASSUME NEW values, Len(values) \in Nat, NEW garbage \in Nat
  PROVE  \E states \in [0 .. Len(values) -> SUBSET RawState] :
           /\ states[0] = { [term |-> garbage, valueBn |-> 0, sum |-> 0, twoPowI |-> 1] }
           /\ \A i \in 1 .. Len(values) :
                states[i] = UNION { RawIteration(st, values[i]) : st \in states[i-1] }
           /\ RawLoop(values, garbage) = states[Len(values)]
<1> DEFINE n == Len(values)
           start == { [term |-> garbage, valueBn |-> 0, sum |-> 0, twoPowI |-> 1] }
           Iterated(set, value) == UNION { RawIteration(st, value) : st \in set }
           D == [p \in (SUBSET RawState) \X Nat |-> Iterated(p[1], values[p[2]])]
<1>1. start \in SUBSET RawState
  BY DEF RawState
<1>2. ASSUME NEW set \in SUBSET RawState, NEW value PROVE Iterated(set, value) \in SUBSET RawState
  BY IterationType
<1>3. n \in Nat
  OBVIOUS
<1> HIDE DEF start, Iterated
<1>4. D \in [(SUBSET RawState) \X Nat -> SUBSET RawState]
  BY <1>2
<1>5. PICK g : IsRun(g, n, SUBSET RawState, start, D)
  <2> HIDE DEF D, n
  <2>1. QED
    BY <1>1, <1>3, <1>4, FiniteRunExists
<1>6. g \in [0 .. n -> SUBSET RawState] /\ g[0] = start
  BY <1>5 DEF IsRun
<1>7. ASSUME NEW i \in 1 .. n PROVE g[i] = Iterated(g[i-1], values[i])
  <2>1. i \in Nat /\ i - 1 \in 0 .. n
    BY <1>3
  <2>2. g[i-1] \in SUBSET RawState /\ g[i] = D[<<g[i-1], i>>]
    BY <1>5, <1>6, <2>1 DEF IsRun
  <2>3. QED
    BY <2>1, <2>2
<1>8. g = [i \in 0 .. n |-> IF i = 0 THEN start ELSE Iterated(g[i-1], values[i])]
  BY <1>3, <1>6, <1>7
<1>9. PICK states :
        /\ states = [i \in 0 .. n |-> IF i = 0 THEN start
                                      ELSE Iterated(states[i-1], values[i])]
        /\ RawLoop(values, garbage) = states[n]
  <2> DEFINE f[i \in 0 .. n] == IF i = 0 THEN start ELSE Iterated(f[i-1], values[i])
  <2>1. f = [i \in 0 .. n |-> IF i = 0 THEN start ELSE Iterated(f[i-1], values[i])]
    BY <1>8
  <2>2. RawLoop(values, garbage) = f[n]
    BY DEF RawLoop, start, Iterated
  <2> HIDE DEF f
  <2>3. QED
    BY <2>1, <2>2
<1>10. \A i \in 0 .. n : states[i] = IF i = 0 THEN start ELSE Iterated(states[i-1], values[i])
  BY <1>9
<1>11. states[0] = start /\ \A i \in 1 .. n : states[i] = Iterated(states[i-1], values[i])
  BY <1>3, <1>10
<1> DEFINE T == {i \in Nat : i <= n => states[i] \in SUBSET RawState}
<1>12. T = Nat
  <2>1. 0 \in T
    BY <1>1, <1>11
  <2>2. ASSUME NEW i \in T PROVE i + 1 \in T
    <3>1. SUFFICES ASSUME i + 1 <= n PROVE states[i+1] \in SUBSET RawState
      OBVIOUS
    <3>2. i + 1 \in 1 .. n /\ states[(i+1)-1] \in SUBSET RawState
      BY <3>1, <1>3
    <3>3. QED
      BY <3>2, <1>2, <1>11
  <2>3. QED
    BY <2>1, <2>2, SetInduction
<1>13. states \in [0 .. n -> SUBSET RawState]
  <2>1. ASSUME NEW i \in 0 .. n PROVE states[i] \in SUBSET RawState
    <3>1. i \in Nat /\ i <= n
      BY <1>3
    <3>2. i \in T
      BY <3>1, <1>12
    <3>3. QED
      BY <3>1, <3>2
  <2>2. QED
    BY <1>9, <2>1
<1>14. QED
  BY <1>9, <1>11, <1>13 DEF start, Iterated

\* Wherever the loop may end, it stands for the end of the loop on residues.
LEMMA RawLoopStandsFor ==
  ASSUME NEW values \in Seq(Nat), NEW garbage \in Nat
  PROVE  /\ RawLoop(values, garbage) # {}
         /\ \A raw \in RawLoop(values, garbage) :
              /\ raw.sum \in 0 .. (2*N - 1)
              /\ raw.sum % N = CppComputeBobShare(values, garbage % N)
<1> DEFINE n == Len(values)
<1>1. N \in Nat /\ N > 1 /\ n \in Nat
  BY OrderAssumption
<1>2. garbage % N \in Residue
  BY <1>1, DivMod DEF Residue
<1>3. PICK res \in [0 .. n -> CppState] :
        /\ res[0] = [term |-> garbage % N, mcBn |-> 0, sum |-> 0, twoPowI |-> 1]
        /\ \A i \in 1 .. n : res[i] = CppBobIteration(res[i-1], values[i])
        /\ CppComputeBobShare(values, garbage % N) = res[n].sum
  BY <1>2, CppLoop
<1>4. PICK states \in [0 .. n -> SUBSET RawState] :
        /\ states[0] = { [term |-> garbage, valueBn |-> 0, sum |-> 0, twoPowI |-> 1] }
        /\ \A i \in 1 .. n :
             states[i] = UNION { RawIteration(st, values[i]) : st \in states[i-1] }
        /\ RawLoop(values, garbage) = states[n]
  BY <1>1, RawLoopRun
<1> HIDE DEF n
<1> DEFINE Stands(i) == states[i] # {} /\ \A raw \in states[i] : StandsFor(raw, res[i])
           T == {i \in Nat : i <= n => Stands(i)}
<1>5. 0 \in T
  <2>1. 0 % N = 0 /\ 1 % N = 1
    <3>1. N > 0 /\ 0 \in 0 .. (N-1) /\ 1 \in 0 .. (N-1)
      BY <1>1
    <3>2. QED
      BY <1>1, <3>1, RemainderOfSmall
  <2>2. StandsFor([term |-> garbage, valueBn |-> 0, sum |-> 0, twoPowI |-> 1], res[0])
    BY <1>1, <1>3, <2>1 DEF StandsFor
  <2>3. QED
    BY <1>4, <2>2
<1>6. ASSUME NEW i \in T PROVE i + 1 \in T
  <2>1. SUFFICES ASSUME i + 1 <= n PROVE Stands(i + 1)
    OBVIOUS
  <2>2. i + 1 \in 1 .. n /\ (i + 1) - 1 = i /\ i \in 0 .. n /\ Stands(i)
    BY <1>1, <2>1
  <2>3. states[i+1] = UNION { RawIteration(st, values[i+1]) : st \in states[i] }
    BY <1>4, <2>2
  <2>4. res[i+1] = CppBobIteration(res[i], values[i+1])
    BY <1>3, <2>2
  <2>5. states[i] \in SUBSET RawState /\ res[i] \in CppState
    BY <2>2
  <2>6. states[i+1] # {}
    <3>1. PICK st \in states[i] : st \in RawState
      BY <2>2, <2>5
    <3>2. RawIteration(st, values[i+1]) # {}
      BY <3>1, IterationOutcome
    <3>3. QED
      BY <2>3, <3>1, <3>2
  <2>7. ASSUME NEW raw \in states[i+1] PROVE StandsFor(raw, res[i+1])
    <3>1. PICK st \in states[i] : raw \in RawIteration(st, values[i+1])
      BY <2>3
    <3>2. st \in RawState /\ StandsFor(st, res[i])
      BY <2>2, <2>5
    <3>3. QED
      BY <2>4, <2>5, <3>1, <3>2, IterationStandsFor
  <2>8. QED
    BY <2>6, <2>7
<1>7. Stands(n) /\ states[n] \in SUBSET RawState
  <2>1. T = Nat
    <3> HIDE DEF T
    <3>1. T \in SUBSET Nat
      BY DEF T
    <3>2. QED
      BY <1>5, <1>6, <3>1, SetInduction
  <2>2. QED
    BY <1>1, <2>1
<1>8. ASSUME NEW raw \in RawLoop(values, garbage)
      PROVE  /\ raw.sum \in 0 .. (2*N - 1)
             /\ raw.sum % N = CppComputeBobShare(values, garbage % N)
  <2>1. raw \in RawState /\ StandsFor(raw, res[n])
    BY <1>4, <1>7
  <2>2. raw.sum \in Nat
    BY <2>1 DEF RawState
  <2>3. QED
    BY <1>1, <1>3, <2>1, <2>2 DEF StandsFor
<1>9. QED
  BY <1>4, <1>7, <1>8

\* compute_bob_share returns one number.
LEMMA BobShareCanonical ==
  ASSUME NEW mc \in Seq(Nat), NEW garbage \in Nat
  PROVE  RawBobShare(mc, garbage) = {CppComputeBobShare(mc, garbage % N)}
<1>1. ASSUME NEW st \in RawLoop(mc, garbage)
      PROVE  BnWriteBe(BnMod(st.sum, N)) = CppComputeBobShare(mc, garbage % N)
  BY RawLoopStandsFor, ModThenWrite
<1>2. RawLoop(mc, garbage) # {}
  BY RawLoopStandsFor
<1>3. QED
  BY <1>1, <1>2 DEF RawBobShare

\* The opposite of a partly reduced sum that is not zero: one bn_mod more than it
\* takes makes it the residue, and 2N - sum does not wrap around.
LEMMA OppositeOfSum ==
  ASSUME NEW s \in 1 .. (2*N - 1)
  PROVE  BnWriteBe(BnMod(BnMod(BnSubtractMod(0, s, N), N), N)) = (N - (s % N)) % N
<1>1. /\ N \in Nat /\ N > 0 /\ s \in Int
      /\ Capacity \in Nat /\ 2 * N <= Capacity
  BY OrderAssumption, ServerMTAAssumption, WidthAssumption
<1>2. BnSubtractMod(0, s, N) = 2*N - s
  <2>1. 0 + (2 * N - s) = 2*N - s /\ 2*N - s \in 0 .. (Capacity-1) /\ Capacity > 0
    BY <1>1
  <2>2. QED
    BY <1>1, <2>1, RemainderOfSmall DEF BnSubtractMod
<1>3. 2*N - s \in 0 .. (2*N - 1)
  BY <1>1
<1>4. BnMod(2*N - s, N) = (2*N - s) % N
  BY <1>3, ModThenWrite
<1>5. (2*N - s) % N \in 0 .. (N-1)
  <2>1. 2*N - s \in Int
    BY <1>1
  <2>2. QED
    BY <1>1, <2>1, DivMod
<1>6. BnMod((2*N - s) % N, N) = (2*N - s) % N
  BY <1>1, <1>5 DEF BnMod
<1>7. BnWriteBe((2*N - s) % N) = (2*N - s) % N
  BY <1>3, ModThenWrite
<1>8. (2*N - s) % N = (N - (s % N)) % N
  <2>1. s % N \in Int /\ s \div N \in Int /\ s = N * (s \div N) + (s % N)
    BY <1>1, DivMod
  <2>2. 2*N - s = (N - (s % N)) + N * (1 - (s \div N))
    BY <1>1, <2>1
  <2>3. 2*N - s \in Int /\ N - (s % N) \in Int /\ 1 - (s \div N) \in Int
    BY <1>1, <2>1
  <2>4. QED
    BY <1>1, <2>2, <2>3, ModShift
<1>9. QED
  BY <1>2, <1>4, <1>6, <1>7, <1>8

\* compute_alice_share returns the opposite of what compute_bob_share would.
LEMMA AliceShareCanonical ==
  ASSUME NEW ui \in Seq(Nat), NEW garbage \in Nat
  PROVE  RawAliceShare(ui, garbage) = {(N - CppComputeBobShare(ui, garbage % N)) % N}
<1>1. ASSUME NEW st \in RawLoop(ui, garbage)
      PROVE  (IF st.sum = 0 THEN 0
              ELSE BnWriteBe(BnMod(BnMod(BnSubtractMod(0, st.sum, N), N), N)))
               = (N - CppComputeBobShare(ui, garbage % N)) % N
  <2>1. /\ st.sum \in 0 .. (2*N - 1)
        /\ st.sum % N = CppComputeBobShare(ui, garbage % N)
    BY RawLoopStandsFor
  <2>2. CASE st.sum = 0
    <3>1. N \in Nat /\ N > 0 /\ 0 \in 0 .. (N-1)
      BY OrderAssumption
    <3>2. 0 % N = 0
      BY <3>1, RemainderOfSmall
    <3>3. N - 0 = 0 + N * 1 /\ N - 0 \in Int
      BY <3>1
    <3>4. (N - 0) % N = 0
      BY <3>1, <3>2, <3>3, ModShift
    <3>5. QED
      BY <2>1, <2>2, <3>2, <3>4
  <2>3. CASE st.sum # 0
    <3>1. st.sum \in 1 .. (2*N - 1)
      BY <2>1, <2>3, OrderAssumption
    <3>2. QED
      BY <2>1, <2>3, <3>1, OppositeOfSum, Zenon
  <2>4. QED
    BY <2>2, <2>3
<1>2. RawLoop(ui, garbage) # {}
  BY RawLoopStandsFor
<1>3. QED
  BY <1>1, <1>2 DEF RawAliceShare

\* In every reachable state, and for every content of the uninitialised term that meets
\* the precondition of bn_multiply (below 180 N, in limbs of 30 bits), the carries
\* between limbs leave no choice in what compute_bob_share and compute_alice_share
\* return: it is what the session's model computes from residues.
THEOREM ServerSharesCanonical == Spec => []SharesCanonical
<1>1. TypeOK => SharesCanonical
  <2> SUFFICES ASSUME TypeOK, NEW garbage \in RawGarbage
               PROVE /\ RawBobShare(mcs, garbage) = {CppComputeBobShare(mcs, garbage % N)}
                     /\ RawAliceShare(us, garbage)
                          = {(N - CppComputeBobShare(us, garbage % N)) % N}
    BY DEF SharesCanonical
  <2>1. garbage \in Nat
    BY ServerMTAAssumption
  <2>2. QED
    BY <2>1, OutputsAreNumbers, BobShareCanonical, AliceShareCanonical
<1>2. QED
  BY <1>1, IdealTypeCorrect, PTL

\* What bn_subtractmod leaves of two residues is below 3N and does not wrap around: it
\* takes the two bn_mod of mod_sub to make it the residue.
LEMMA SubtractThenWrite ==
  ASSUME NEW s \in Residue, NEW t \in Residue
  PROVE  Server!ModSub(s, t) = (s - t) % N
<1> DEFINE d == s + (2 * N - t)
<1>1. /\ N \in Nat /\ N > 0 /\ s \in Int /\ t \in Int /\ s - t \in Int
      /\ Capacity \in Nat /\ 3 * N <= Capacity /\ s < N /\ t < N /\ s >= 0 /\ t >= 0
  BY OrderAssumption, ServerMTAAssumption, WidthAssumption DEF Residue
<1>2. BnSubtractMod(s, t, N) = d
  <2>1. d \in 0 .. (Capacity-1) /\ Capacity > 0
    BY <1>1
  <2>2. QED
    BY <1>1, <2>1, RemainderOfSmall DEF BnSubtractMod
<1>3. d \in 0 .. (3*N - 1) /\ d \in Int /\ d = (s - t) + N * 2
  BY <1>1
<1>4. d % N = (s - t) % N
  BY <1>1, <1>3, ModShift
<1>5. BnMod(d, N) \in 0 .. (2*N - 1) /\ BnMod(d, N) % N = (s - t) % N
  <2>1. CASE d < N
    BY <1>1, <1>3, <1>4, <2>1 DEF BnMod
  <2>2. CASE ~ (d < N)
    <3>1. d - N \in Int /\ d - N = (s - t) + N * 1
      BY <1>1, <1>3
    <3>2. (d - N) % N = (s - t) % N
      BY <1>1, <3>1, ModShift
    <3>3. QED
      BY <1>1, <1>3, <2>2, <3>2 DEF BnMod
  <2>3. QED
    BY <2>1, <2>2
<1> HIDE DEF d
<1>6. BnWriteBe(BnMod(BnMod(d, N), N)) = (s - t) % N
  BY <1>5, ModThenWrite
<1>7. QED
  BY <1>2, <1>6 DEF Server!ModSub, BnWriteBe, BnMod, BnSubtractMod,
     Server!BnWriteBe, Server!BnMod, Server!BnSubtractMod

\* The sums and products of two residues are reduced by one bn_mod.
LEMMA ReduceThenWrite ==
  ASSUME NEW s \in Residue, NEW t \in Residue
  PROVE  /\ Server!ModAdd(s, t) = {ModAdd(s, t)}
         /\ Server!ModMul(s, t) = {(s * t) % N}
<1>1. s \in Int /\ t \in Int /\ s + t \in Int /\ t * s \in Int /\ s * t = t * s
  BY OrderAssumption DEF Residue
<1>2. ASSUME NEW value \in Int, NEW r \in PartlyReduced(value, N)
      PROVE  BnWriteBe(BnMod(r, N)) = value % N
  BY <1>2, PartlyReducedNumber, ModThenWrite
<1>3. \A value \in Int : PartlyReduced(value, N) # {}
  BY DEF PartlyReduced
<1>4. { BnWriteBe(BnMod(r, N)) : r \in PartlyReduced(s + t, N) } = {(s + t) % N}
  BY <1>1, <1>2, <1>3
<1>5. { BnWriteBe(BnMod(r, N)) : r \in PartlyReduced(t * s, N) } = {(t * s) % N}
  BY <1>1, <1>2, <1>3
<1>6. QED
  BY <1>1, <1>4, <1>5
     DEF Server!ModAdd, Server!ModMul, ModAdd, BnWriteBe, BnMod, PartlyReduced,
         Server!BnAddMod, Server!BnMultiply, Server!PartlyReduced, Server!BnWriteBe,
         Server!BnMod

\* Each scalar function of the server returns the residue of the exact result.
THEOREM ServerScalarsExact == Spec => []ServerScalarsAgree
<1>1. TypeOK => ServerScalarsAgree
  <2> SUFFICES ASSUME TypeOK, NEW t \in Residue
               PROVE  /\ Server!ModNegate(t) = (N - t) % N
                      /\ Server!ModAdd(x, t) = {ModAdd(x, t)}
                      /\ Server!ModAdd(t, x) = {ModAdd(t, x)}
                      /\ Server!ModSub(x, t) = (x - t) % N
                      /\ Server!ModSub(t, x) = (t - x) % N
                      /\ Server!ModMul(x, t) = {(x * t) % N}
                      /\ Server!ModMul(t, x) = {(t * x) % N}
    BY DEF ServerScalarsAgree
  <2>1. x \in Residue /\ 0 \in Residue
    BY DrawAssumption, OrderAssumption DEF TypeOK, Scalar, Residue
  <2>2. Server!ModNegate(t) = (N - t) % N
    <3>1. PICK opposite \in Int : opposite = 0 - t
      BY OrderAssumption DEF Residue
    <3>2. (N - t) % N = opposite % N
      <4>1. PICK shifted \in Int : shifted = N - t
        BY OrderAssumption DEF Residue
      <4>2. N \in Nat /\ N > 0 /\ 1 \in Int /\ shifted = opposite + N * 1
        BY <3>1, <4>1, OrderAssumption DEF Residue
      <4>3. shifted % N = opposite % N
        BY <3>1, <4>2, ModShift
      <4>4. QED
        BY <4>1, <4>3
    <3>3. t = 0 => opposite % N = 0
      BY <2>1, <3>1, OrderAssumption, RemainderOfSmall DEF Residue
    <3>4. Server!ModSub(0, t) = opposite % N
      BY <2>1, <3>1, SubtractThenWrite
    <3>5. QED
      BY <3>2, <3>3, <3>4 DEF Server!ModNegate
  <2>3. QED
    BY <2>1, <2>2, SubtractThenWrite, ReduceThenWrite
<1>2. QED
  BY <1>1, IdealTypeCorrect, PTL

\* Two partly reduced numbers are equal or not if the exact ones are congruent, and
\* never equal if they are not.
LEMMA PartlyReducedCompared ==
  ASSUME NEW p \in Int, NEW q \in Int
  PROVE  { answer \in BOOLEAN :
             \E r \in PartlyReduced(p, N), s \in PartlyReduced(q, N) : answer <=> r = s }
           = IF p % N = q % N THEN BOOLEAN ELSE {FALSE}
<1> DEFINE Answered(answer) ==
             \E r \in PartlyReduced(p, N), s \in PartlyReduced(q, N) : answer <=> r = s
<1>1. N \in Nat /\ N > 0 /\ p % N \in 0 .. (N-1) /\ q % N \in 0 .. (N-1)
  BY OrderAssumption, DivMod
<1>2. Answered(FALSE)
  <2>1. p % N # q % N \/ p % N # (q % N) + N
    BY <1>1
  <2>2. QED
    BY <2>1 DEF PartlyReduced
<1>3. p % N = q % N => Answered(TRUE)
  BY DEF PartlyReduced
<1>4. Answered(TRUE) => p % N = q % N
  <2>1. \A r \in PartlyReduced(p, N) : r % N = p % N
    BY PartlyReducedNumber
  <2>2. \A s \in PartlyReduced(q, N) : s % N = q % N
    BY PartlyReducedNumber
  <2>3. QED
    BY <2>1, <2>2
<1> HIDE DEF Answered
<1>5. { answer \in BOOLEAN : Answered(answer) }
        = IF p % N = q % N THEN BOOLEAN ELSE {FALSE}
  <2>1. CASE p % N = q % N
    BY <2>1, <1>2, <1>3
  <2>2. CASE p % N # q % N
    BY <2>2, <1>2, <1>4
  <2>3. QED
    BY <2>1, <2>2
<1>6. QED
  BY <1>5 DEF Answered

\* For uninitialised variables that meet the preconditions of bn_addmod and bn_multiply,
\* the answers of verify_mta are those of the session's model: it accepts no two numbers
\* that are not congruent, and accepts or refuses those that are.
THEOREM ServerVerdictIsOfResidues == Spec => []VerdictIsOfResidues
<1>1. TypeOK => VerdictIsOfResidues
  <2> SUFFICES ASSUME TypeOK, y # 0, mcs # <<>>,
                      NEW bnXy \in RawGarbage, NEW bnUv \in RawGarbage
               PROVE  RawVerify(y, mcs[Len(mcs)], bnXy, bnUv)
                        = CppVerifyMta(y, mcs[Len(mcs)], bnXy % N, bnUv % N)
    BY DEF VerdictIsOfResidues
  <2> DEFINE mc == mcs[Len(mcs)]
  <2>1. y \in Int /\ mc \in Int
    <3>1. y \in Int
      BY DrawAssumption DEF TypeOK, Scalar
    <3>2. mcs \in Seq(Nat)
      BY OutputsAreNumbers
    <3>3. Len(mcs) \in 1 .. Len(mcs)
      BY <3>2
    <3>4. QED
      BY <3>1, <3>2, <3>3
  <2>2. bnXy \in Int /\ bnUv \in Int
    BY ServerMTAAssumption
  <2> HIDE DEF mc
  <2>3. y * bnXy \in Int /\ bnUv + mc \in Int
    BY <2>1, <2>2
  <2>4. RawVerify(y, mc, bnXy, bnUv)
          = IF (y * bnXy) % N = (bnUv + mc) % N THEN BOOLEAN ELSE {FALSE}
    BY <2>3, PartlyReducedCompared DEF RawVerify, BnMultiply, BnAddMod
  <2>5. (y * bnXy) % N = (y * (bnXy % N)) % N /\ (bnUv + mc) % N = ((bnUv % N) + mc) % N
    BY <2>1, <2>2, ModCongruence
  <2>6. QED
    BY <2>4, <2>5, Zenon DEF CppVerifyMta, mc
<1>2. QED
  BY <1>1, IdealTypeCorrect, PTL
-----------------------------------------------------------------------------
(* The local mode.                                                         *)

\* An iteration that does not throw appends one correlated pair.
LEMMA IterateStep ==
  ASSUME TypeOK, Iterate, pc' # "failed"
  PROVE  /\ y \in Secret => \E m0 \in Mask :
              /\ us' = Append(us, m0)
              /\ mcs' = Append(mcs, (m0 + GetBit(y, Len(mcs)) * x) % N)
              /\ (m0 + GetBit(y, Len(mcs)) * x) % N \in Residue
         /\ pc' = pc
<1>1. PICK ra \in Ephemeral, rb \in Ephemeral, m0 \in Mask :
        LET bit == GetBit(y, Len(mcs))
            A   == MulG(ra)
            B   == BobPoint(bit, rb, A) IN
        /\ a' = ra /\ b' = rb
        /\ IF B = Infinity \/ AliceRefuses(ra, B)
           THEN pc' = "failed" /\ UNCHANGED <<us, mcs>>
           ELSE /\ us' = Append(us, m0)
                /\ mcs' = Append(mcs,
                                 BobDecrypt(bit, BobKey(rb, A), AliceEncrypt(ra, B, m0, x)))
                /\ UNCHANGED pc
  BY DEF Iterate
<1> DEFINE bit == GetBit(y, Len(mcs))
           B   == BobPoint(bit, rb, MulG(ra))
<1>2. B # Infinity /\ ~AliceRefuses(ra, B)
  BY <1>1
<1>3. /\ us' = Append(us, m0)
      /\ mcs' = Append(mcs,
                       BobDecrypt(bit, BobKey(rb, MulG(ra)), AliceEncrypt(ra, B, m0, x)))
      /\ UNCHANGED pc
  BY <1>1, <1>2
<1>4. ASSUME y \in Secret
      PROVE  /\ BobDecrypt(bit, BobKey(rb, MulG(ra)), AliceEncrypt(ra, B, m0, x))
                  = (m0 + bit * x) % N
             /\ (m0 + bit * x) % N \in Residue
  <2>1. ra \in Scalar /\ rb \in Scalar /\ m0 \in Scalar /\ x \in Scalar /\ y \in Scalar
    BY <1>4, DrawAssumption, EphemeralAssumption DEF TypeOK
  <2>2. Len(mcs) \in Nat
    BY DEF TypeOK
  <2>3. bit \in {0, 1}
    BY <2>1, <2>2, ScalarTypes, GetBitType
  <2>4. B \in Point
    BY <1>2, <2>1, <2>3, PointTypes DEF BobPoint
  <2>5. BobDecrypt(bit, BobKey(rb, MulG(ra)), AliceEncrypt(ra, B, m0, x)) = (m0 + bit * x) % N
    BY <1>2, <2>1, <2>3, <2>4, TransferCorrect
  <2>6. m0 + bit * x \in Int
    BY <2>1, <2>3, ScalarTypes
  <2>7. QED
    BY <2>5, <2>6, DivMod, OrderAssumption DEF Residue
<1>5. QED
  BY <1>3, <1>4

\* A sum or a difference of multiples of the generator that has no encoding.
LEMMA SumAtInfinity ==
  ASSUME NEW s \in Scalar, NEW t \in Scalar
  PROVE  /\ Add(MulG(s), MulG(t)) = Infinity => s + t = N
         /\ PointSubtract(MulG(s), MulG(t)) = Infinity => s = t
<1>1. N \in Nat /\ N > 1 /\ s \in 1 .. (N-1) /\ t \in 1 .. (N-1)
  BY OrderAssumption DEF Scalar
<1>2. ASSUME NEW r \in Scalar, Add(MulG(s), MulG(r)) = Infinity PROVE s + r = N
  <2>1. r \in 1 .. (N-1) /\ r \in Nat /\ s \in Nat /\ s + r \in Nat
    BY <1>1 DEF Scalar
  <2>2. BasePoint \in Element /\ BasePoint \in Point
    BY GroupAssumption DEF Element
  <2>3. Multiple(s + r, BasePoint) = Infinity
    BY <1>2, <2>1, <2>2, MulIsMultiple, AddMultiples
  <2>4. CASE s + r < N
    <3>1. s + r \in Scalar
      BY <1>1, <2>1, <2>4 DEF Scalar
    <3>2. QED
      BY <2>2, <2>3, <3>1, NoScalarAtInfinity
  <2>5. CASE s + r > N
    <3> DEFINE d == s + r - N
    <3>1. d \in Scalar /\ d \in Nat /\ N + d = s + r
      BY <1>1, <2>1, <2>5 DEF Scalar
    <3> HIDE DEF d
    <3>2. Multiple(s + r, BasePoint) = Add(Multiple(N, BasePoint), Multiple(d, BasePoint))
      BY <1>1, <2>2, <3>1, AddMultiples
    <3>3. Multiple(d, BasePoint) \in Element
      BY <2>2, <3>1, MultipleType
    <3>4. Multiple(s + r, BasePoint) = Multiple(d, BasePoint)
      BY <2>2, <3>2, <3>3, GroupAssumption, AdditionAssumption
    <3>5. QED
      BY <2>2, <2>3, <3>1, <3>4, NoScalarAtInfinity
  <2>6. QED
    BY <1>1, <2>1, <2>4, <2>5
<1>3. N - t \in Scalar /\ (s + (N - t) = N => s = t)
  BY <1>1 DEF Scalar
<1>4. PointSubtract(MulG(s), MulG(t)) = Add(MulG(s), MulG(N - t))
  BY NegateMultiple DEF PointSubtract
<1>5. QED
  BY <1>2, <1>3, <1>4

\* An iteration that throws drew such a pair, and counts no pair of outputs.
LEMMA IterateFails ==
  ASSUME TypeOK, Iterate, pc' = "failed", y \in Secret
  PROVE  FailsOnlyOnCollision'
<1>1. PICK ra \in Ephemeral, rb \in Ephemeral, m0 \in Mask :
        LET bit == GetBit(y, Len(mcs))
            A   == MulG(ra)
            B   == BobPoint(bit, rb, A) IN
        /\ a' = ra /\ b' = rb
        /\ IF B = Infinity \/ AliceRefuses(ra, B)
           THEN pc' = "failed" /\ UNCHANGED <<us, mcs>>
           ELSE /\ us' = Append(us, m0)
                /\ mcs' = Append(mcs,
                                 BobDecrypt(bit, BobKey(rb, A), AliceEncrypt(ra, B, m0, x)))
                /\ UNCHANGED pc
  BY DEF Iterate
<1> DEFINE bit == GetBit(y, Len(mcs))
           B   == BobPoint(bit, rb, MulG(ra))
<1>2. /\ B = Infinity \/ AliceRefuses(ra, B)
      /\ a' = ra /\ b' = rb /\ y' = y /\ mcs' = mcs
  BY <1>1 DEF Iterate
<1>3. ra \in Scalar /\ rb \in Scalar
  BY DrawAssumption, EphemeralAssumption
<1>4. bit \in {0, 1}
  <2>1. Len(mcs) \in Nat /\ y \in Nat
    BY DrawAssumption, EphemeralAssumption, ScalarTypes DEF TypeOK
  <2>2. QED
    BY <2>1, GetBitType
<1> HIDE DEF bit
<1>5. CASE bit = 1
  <2>1. B = Add(MulG(rb), MulG(ra))
    BY <1>5 DEF BobPoint
  <2>2. B = Infinity
    <3>1. SUFFICES ASSUME B # Infinity PROVE FALSE
      OBVIOUS
    <3>2. B \in Point
      BY <1>3, <2>1, <3>1, PointTypes
    <3>3. QED
      BY <1>2, <1>3, <1>4, <1>5, <3>1, <3>2, RefusalIsCollision
  <2>3. rb + ra = N /\ ra + rb = rb + ra
    <3>1. rb + ra = N
      BY <1>3, <2>1, <2>2, SumAtInfinity
    <3>2. rb \in Nat /\ ra \in Nat
      BY <1>3, ScalarTypes
    <3>3. QED
      BY <3>1, <3>2
  <2>4. QED
    BY <1>2, <1>5, <2>3 DEF FailsOnlyOnCollision, bit
<1>6. CASE bit = 0
  <2>1. B = MulG(rb) /\ B # Infinity
    BY <1>3, <1>6, PointTypes DEF BobPoint
  <2>2. PointSubtract(MulG(rb), MulG(ra)) = Infinity
    BY <1>2, <2>1 DEF AliceRefuses
  <2>3. rb = ra
    BY <1>3, <2>2, SumAtInfinity
  <2>4. QED
    BY <1>2, <1>6, <2>3 DEF FailsOnlyOnCollision, bit
<1>7. QED
  BY <1>4, <1>5, <1>6

\* The local mode has y from its first step on, and prints and fails as it should;
\* that its outputs are correlated is a property of what it implements.
DemoInv ==
  /\ DemoTypeOK
  /\ Correlated
  /\ pc = "start" <=> y = 0
  /\ LocalModeVerifies
  /\ FailsOnlyOnCollision

\* Every step of the local mode is a Choose, a Transfer or a stutter.
LEMMA DemoStepRefines ==
  ASSUME DemoInv, [DemoNext]_demoVars
  PROVE  [Next]_vars
<1>1. CASE DrawY
  BY <1>1 DEF DrawY, DemoInv, Next, Choose
<1>2. CASE Iterate
  <2>1. y \in Secret /\ y # 0 /\ Len(mcs) < K /\ TypeOK /\ UNCHANGED <<x, y>>
    BY <1>2 DEF Iterate, DemoInv, DemoTypeOK, TypeOK
  <2>2. CASE pc' = "failed"
    <3>1. UNCHANGED <<us, mcs>>
      BY <1>2, <2>2 DEF Iterate
    <3>2. QED
      BY <2>1, <3>1 DEF vars
  <2>3. CASE pc' # "failed"
    <3>1. \E m0 \in Mask :
            /\ us' = Append(us, m0)
            /\ mcs' = Append(mcs, (m0 + GetBit(y, Len(mcs)) * x) % N)
      BY <1>2, <2>1, <2>3, IterateStep
    <3>2. QED
      BY <2>1, <3>1 DEF Next, Transfer
  <2>4. QED
    BY <2>2, <2>3
<1>3. CASE PrintShares
  BY <1>3 DEF PrintShares, vars
<1>4. CASE UNCHANGED demoVars
  BY <1>4 DEF demoVars, vars
<1>5. QED
  BY <1>1, <1>2, <1>3, <1>4 DEF DemoNext, Finished

LEMMA DemoInvInit == DemoInit => DemoInv
<1> SUFFICES ASSUME DemoInit PROVE DemoInv
  OBVIOUS
<1>1. Init
  BY DEF DemoInit, Init
<1>2. TypeOK /\ Correlated
  BY <1>1, RoundsAssumption DEF Init, TypeOK, Correlated
<1>3. 0 \in Residue
  BY OrderAssumption DEF Residue
<1>4. QED
  BY <1>2, <1>3
     DEF DemoInit, DemoInv, DemoTypeOK, LocalModeVerifies, FailsOnlyOnCollision

\* The printed verification is that of K correlated pairs.
LEMMA PrintedVerification ==
  ASSUME DemoInv, PrintShares
  PROVE  u' \in Residue /\ v' \in Residue /\ verified' = TRUE
<1>1. TypeOK /\ Correlated /\ Len(mcs) = K
  BY DEF DemoInv, DemoTypeOK, PrintShares
<1>2. u' \in Residue /\ v' \in Residue
  BY <1>1, OutputsAreNumbers, ShareTypes DEF PrintShares
<1>3. Verify(x, y, ComputeAliceShare(us), ComputeBobShare(mcs))
  BY <1>1, OutputsMultiply DEF SharesMultiply
<1>4. QED
  BY <1>2, <1>3 DEF PrintShares, Verify

LEMMA DemoInvStep == DemoInv /\ [DemoNext]_demoVars => DemoInv'
<1> SUFFICES ASSUME DemoInv, [DemoNext]_demoVars PROVE DemoInv'
  OBVIOUS
<1>1. TypeOK' /\ Correlated'
  BY DemoStepRefines, TypeStep, CorrelatedStep DEF DemoInv, DemoTypeOK
<1>2. DemoTypeOK /\ LocalModeVerifies /\ FailsOnlyOnCollision
  BY DEF DemoInv
<1>3. CASE DrawY
  <2>1. y' # 0
    BY <1>3, DrawAssumption, OrderAssumption DEF DrawY, Scalar
  <2>2. QED
    BY <1>1, <1>2, <1>3, <2>1
       DEF DrawY, DemoInv, DemoTypeOK, LocalModeVerifies, FailsOnlyOnCollision
<1>4. CASE Iterate
  <2>1. y \in Secret /\ pc = "loop" /\ TypeOK
    BY <1>4 DEF Iterate, DemoInv, DemoTypeOK, TypeOK
  <2>2. UNCHANGED <<x, y, u, v, verified>> /\ a' \in Ephemeral /\ b' \in Ephemeral
    BY <1>4 DEF Iterate
  <2>3. pc' \in {"loop", "failed"}
    BY <1>4, <2>1 DEF Iterate
  <2>4. FailsOnlyOnCollision'
    <3>1. CASE pc' = "failed"
      BY <1>4, <2>1, <3>1, IterateFails
    <3>2. CASE pc' # "failed"
      BY <3>2 DEF FailsOnlyOnCollision
    <3>3. QED
      BY <3>1, <3>2
  <2>5. LocalModeVerifies'
    BY <2>3 DEF LocalModeVerifies
  <2>6. DemoTypeOK'
    BY <1>1, <1>2, <2>2, <2>3 DEF DemoTypeOK
  <2>7. (pc = "start" <=> y = 0)'
    BY <2>1, <2>2, <2>3 DEF DemoInv
  <2>8. QED
    BY <1>1, <2>4, <2>5, <2>6, <2>7 DEF DemoInv
<1>5. CASE PrintShares
  <2>1. u' \in Residue /\ v' \in Residue /\ verified' = TRUE
    BY <1>5, PrintedVerification
  <2>2. pc' = "done" /\ pc = "loop" /\ UNCHANGED <<x, y, us, mcs, a, b>>
    BY <1>5 DEF PrintShares
  <2>3. DemoTypeOK'
    BY <1>1, <1>2, <2>1, <2>2 DEF DemoTypeOK
  <2>4. QED
    BY <1>1, <2>1, <2>2, <2>3 DEF DemoInv, LocalModeVerifies, FailsOnlyOnCollision
<1>6. CASE UNCHANGED demoVars
  BY <1>1, <1>2, <1>6
     DEF demoVars, DemoInv, DemoTypeOK, LocalModeVerifies, FailsOnlyOnCollision
<1>7. QED
  BY <1>3, <1>4, <1>5, <1>6 DEF DemoNext, Finished

\* The inductive invariant of the local mode.
THEOREM LocalInvariant == DemoSpec => []DemoInv
<1>1. QED
  BY DemoInvInit, DemoInvStep, PTL DEF DemoSpec

\* Every iteration of the local mode that completes is one transfer of correlated
\* OT, and nothing else is.
THEOREM LocalRefines == DemoSpec => RefinesCorrelatedOT
<1>1. DemoInit => Init
  BY DEF DemoInit, Init
<1>2. DemoInv /\ [DemoNext]_demoVars => [Next]_vars
  BY DemoStepRefines
<1>3. QED
  BY <1>1, <1>2, LocalInvariant, PTL DEF DemoSpec, RefinesCorrelatedOT, Spec

\* Whatever the local mode draws, if it prints anything it prints
\* `verification = ok' (runLocalDemo, client.ts:267).
THEOREM LocalAlwaysVerifies == DemoSpec => []LocalModeVerifies
<1>1. DemoInv => LocalModeVerifies
  BY DEF DemoInv
<1>2. QED
  BY <1>1, LocalInvariant, PTL

\* The local mode gives up only when it draws b = -a for a bit that is 1, or b = a
\* for one that is 0.
THEOREM LocalFailsOnlyOnCollision == DemoSpec => []FailsOnlyOnCollision
<1>1. DemoInv => FailsOnlyOnCollision
  BY DEF DemoInv
<1>2. QED
  BY <1>1, LocalInvariant, PTL
=============================================================================
