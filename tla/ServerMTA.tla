----------------------------- MODULE ServerMTA -----------------------------
(***************************************************************************)
(* MTA of server/src/ot_protocol.cpp on the numbers a bignum256 really     *)
(* holds, run on what K transfers hand out.  Each operation leaves one of  *)
(* several partly reduced numbers, so that a loop ends in a set of states. *)
(* The session (CotSession) uses the residues of Scalars instead; the      *)
(* properties say that this loses nothing as long as an uninitialised      *)
(* number meets the preconditions of bn_addmod and bn_multiply.  Nine      *)
(* words of stack memory need not: nothing is said of them then, when an   *)
(* assertion of bn_multiply may end the server, as a kill does in the      *)
(* session.                                                                *)
(***************************************************************************)
EXTENDS CorrelatedOT, Bignum

CONSTANT RawGarbage      \* what an uninitialised bignum256 may hold; a number of
                         \* Capacity or more stands for limbs above 30 bits

ASSUME ServerMTAAssumption ==
  /\ N <= Bound /\ Bound <= 2 * N /\ 3 * N <= Capacity
  /\ RawGarbage \subseteq Nat

\* The scalar functions of the server's crypto_ops.cpp.
Server == INSTANCE ServerScalars WITH Order <- N

\* One iteration of the loop of compute_alice_share and compute_bob_share: bn_copy
\* overwrites the value read, and the term stays what it was.
RawIteration(st, value) ==
  { [ term    |-> new[1],
      valueBn |-> BnCopy(st.term, value),
      sum     |-> new[2],
      twoPowI |-> new[3] ] :
      new \in UNION { {term} \X BnAddMod(st.sum, term, N)
                            \X BnAddMod(st.twoPowI, st.twoPowI, N) :
                        term \in BnMultiply(st.twoPowI, st.term, N) } }

\* The states in which the loop may end, its term holding garbage at first.
RawLoop(values, garbage) ==
  LET states[i \in 0 .. Len(values)] ==
        IF i = 0 THEN { [term |-> garbage, valueBn |-> 0, sum |-> 0, twoPowI |-> 1] }
        ELSE UNION { RawIteration(st, values[i]) : st \in states[i-1] }
  IN  states[Len(values)]

\* mutant: the sum is written as it is
RawBobShareUnreduced(mc, garbage) == { BnWriteBe(st.sum) : st \in RawLoop(mc, garbage) }

\* The results that compute_bob_share may return.
RawBobShare(mc, garbage) ==
  { BnWriteBe(BnMod(st.sum, N)) : st \in RawLoop(mc, garbage) }

\* The results that compute_alice_share may return.
RawAliceShare(ui, garbage) ==
  { IF st.sum = 0 THEN 0
    ELSE BnWriteBe(BnMod(BnMod(BnSubtractMod(0, st.sum, N), N), N)) :
      st \in RawLoop(ui, garbage) }

\* mutant: u + v is not reduced at all
RawVerifyUnreduced(b, v, bnXy, bnUv) ==
  { answer \in BOOLEAN :
      \E product \in BnMultiply(b, bnXy, N) : answer <=> product = bnUv + v }

\* What verify_mta may answer: limbs are compared, and neither side is fully reduced.
RawVerify(b, v, bnXy, bnUv) ==
  { answer \in BOOLEAN :
      \E product \in BnMultiply(b, bnXy, N), sum \in BnAddMod(bnUv, v, N) :
        answer <=> product = sum }
-----------------------------------------------------------------------------
\* Where the uninitialised term meets the precondition of bn_multiply,
\* compute_bob_share returns one number, below the order, whatever the carries
\* between limbs were: the V that the session's model computes from residues.
\* compute_alice_share, which runs the same loop, returns the opposite of that
\* number, also when its sum is congruent to zero without being zero.
SharesCanonical ==
  \A garbage \in RawGarbage : BnMultiplicable(garbage, N) =>
    /\ RawBobShare(mcs, garbage) = {CppComputeBobShare(mcs, garbage % N)}
    /\ RawAliceShare(us, garbage) = {(N - CppComputeBobShare(us, garbage % N)) % N}

\* Every scalar function of the server returns the one number below the order that
\* is congruent to the result, whichever partly reduced number bn_addmod,
\* bn_multiply and bn_subtractmod leave to the reductions that follow them: on the
\* client's share x and any other number, in either order.
ServerScalarsAgree ==
  \A t \in Residue :
    /\ Server!ModNegate(t) = (N - t) % N
    /\ Server!ModAdd(x, t) = {ModAdd(x, t)} /\ Server!ModAdd(t, x) = {ModAdd(t, x)}
    /\ Server!ModSub(x, t) = (x - t) % N /\ Server!ModSub(t, x) = (t - x) % N
    /\ Server!ModMul(x, t) = {(x * t) % N} /\ Server!ModMul(t, x) = {(t * x) % N}

\* verify_mta compares numbers that are not fully reduced: under these preconditions it
\* accepts no two numbers that are not congruent, and may accept or refuse any two
\* that are, just as in the session's model.
VerdictIsOfResidues ==
  y # 0 /\ mcs # <<>> =>
    \A bnXy, bnUv \in RawGarbage : BnMultiplicable(bnXy, N) /\ BnFits(bnUv) =>
      RawVerify(y, mcs[Len(mcs)], bnXy, bnUv)
        = CppVerifyMta(y, mcs[Len(mcs)], bnXy % N, bnUv % N)
=============================================================================
