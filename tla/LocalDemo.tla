----------------------------- MODULE LocalDemo -----------------------------
(***************************************************************************)
(* runLocalDemo of client/src/client.ts: both parties in one process, with *)
(* the TypeScript arithmetic on either side.  x, y, uiValues and mcValues  *)
(* are the variables x, y, us and mcs of CorrelatedOT, which it implements *)
(* as they are.                                                            *)
(***************************************************************************)
EXTENDS CotOT, CorrelatedOT

CONSTANT Ephemeral     \* the scalars a and b are drawn from it

ASSUME EphemeralAssumption == Ephemeral \subseteq Scalar

VARIABLES
  pc,              \* "start", "loop", "done" or "failed"
  a, b,            \* the scalars of the last iteration
  u, v, verified   \* what is printed

demoVars == <<x, y, us, mcs, pc, a, b, u, v, verified>>

DemoInit ==
  /\ x \in Secret /\ y = 0
  /\ us = <<>> /\ mcs = <<>>
  /\ pc = "start" /\ a = 0 /\ b = 0
  /\ u = 0 /\ v = 0 /\ verified = FALSE

DrawY ==
  /\ pc = "start"
  /\ y' \in Secret /\ pc' = "loop"
  /\ UNCHANGED <<x, us, mcs, a, b, u, v, verified>>

\* mutant: one key for both values of the choice bit
IterateOneKey ==
  /\ pc = "loop" /\ Len(mcs) < K
  /\ \E ra, rb \in Ephemeral, m0 \in Mask :
       LET bit == GetBit(y, Len(mcs))
           A   == MulG(ra)
           B   == BobPoint(bit, rb, A) IN
       /\ a' = ra /\ b' = rb
       /\ IF B = Infinity \/ AliceRefuses(ra, B)
          THEN pc' = "failed" /\ UNCHANGED <<us, mcs>>
          ELSE /\ us' = Append(us, m0)
               /\ mcs' = Append(mcs,
                                BobDecrypt(bit, KeyOf(Mul(ra, B)), AliceEncrypt(ra, B, m0, x)))
               /\ UNCHANGED pc
  /\ UNCHANGED <<x, y, u, v, verified>>

\* An iteration: both points, both ciphertexts and the decryption of one.  It throws
\* when a sum or a difference of points has no encoding.
Iterate ==
  /\ pc = "loop" /\ Len(mcs) < K
  /\ \E ra, rb \in Ephemeral, m0 \in Mask :
       LET bit == GetBit(y, Len(mcs))
           A   == MulG(ra)
           B   == BobPoint(bit, rb, A) IN
       /\ a' = ra /\ b' = rb
       /\ IF B = Infinity \/ AliceRefuses(ra, B)
          THEN pc' = "failed" /\ UNCHANGED <<us, mcs>>
          ELSE /\ us' = Append(us, m0)
               /\ mcs' = Append(mcs,
                                BobDecrypt(bit, BobKey(rb, A), AliceEncrypt(ra, B, m0, x)))
               /\ UNCHANGED pc
  /\ UNCHANGED <<x, y, u, v, verified>>

\* The aggregation and the verification after the loop.
PrintShares ==
  /\ pc = "loop" /\ Len(mcs) = K
  /\ u' = ComputeAliceShare(us) /\ v' = ComputeBobShare(mcs)
  /\ verified' = Verify(x, y, u', v')
  /\ pc' = "done"
  /\ UNCHANGED <<x, y, us, mcs, a, b>>

Finished == pc \in {"done", "failed"} /\ UNCHANGED demoVars

DemoNext == DrawY \/ Iterate \/ PrintShares \/ Finished

DemoSpec == DemoInit /\ [][DemoNext]_demoVars
-----------------------------------------------------------------------------
DemoTypeOK ==
  /\ TypeOK
  /\ pc \in {"start", "loop", "done", "failed"}
  /\ a \in Ephemeral \cup {0} /\ b \in Ephemeral \cup {0}
  /\ u \in Residue /\ v \in Residue /\ verified \in BOOLEAN

\* The local mode prints `verification = ok' whenever it prints anything
\* (README.md:349): the curve arithmetic, the two keys, the bit order of getBit and
\* of the two aggregations all fit together.
LocalModeVerifies == pc = "done" => verified

\* The local mode gives up on exactly one pair of scalars per value of the bit, and
\* never for the points of any other pair.
FailsOnlyOnCollision ==
  pc = "failed" => IF GetBit(y, Len(mcs)) = 1 THEN a + b = N ELSE a = b

\* Every iteration that completes is one transfer of correlated OT, and nothing else
\* changes what the two parties hold.
RefinesCorrelatedOT == Spec
=============================================================================
