----------------------------- MODULE MathCheck -----------------------------
(***************************************************************************)
(* The test program server/src/math_check.cpp: two tests that print what   *)
(* they find, and the line that says that all of them passed.              *)
(***************************************************************************)
EXTENDS ProtoCodec, Sequences

CONSTANTS Bound, Capacity, Field, Order, GeneratorX, GeneratorY

CryptoOps == INSTANCE ServerCryptoOps

VARIABLES pc,         \* the test to run next
          s1, s2,     \* the scalars that test_crypto_ops draws
          output      \* what is printed

vars == <<pc, s1, s2, output>>

Init == pc = "test_crypto_ops" /\ s1 = 0 /\ s2 = 0 /\ output = <<>>

\* A failure is printed, and does not end the program.
TestCryptoOps ==
  /\ pc = "test_crypto_ops"
  /\ \E r1, r2 \in CryptoOps!RandomScalar : \E sum \in CryptoOps!ModAdd(r1, r2) :
       LET g1 == CryptoOps!ScalarMultiplyG(r1)
           g2 == CryptoOps!ScalarMultiplyG(r2)
       IN  /\ s1' = r1 /\ s2' = r2
           /\ output' =
                << IF CryptoOps!ModSub(sum, r2) = r1
                   THEN "Modulo arithmetic: OK" ELSE "Modulo arithmetic: FAILED",
                   IF CryptoOps!Nullopt \in {g1, g2}
                   THEN "ECC operations: FAILED" ELSE "ECC G multiplication: OK" >>
                \o (IF CryptoOps!PointAdd(g1, g2) = {CryptoOps!Nullopt}
                    THEN <<>> ELSE << "ECC point addition: OK" >>)
  /\ pc' = "test_proto_codec"

TestProtoCodec ==
  /\ pc = "test_proto_codec"
  /\ \E s \in CryptoOps!RandomScalar :
       LET msg     == [ point_a   |-> [size |-> 33, data |-> CryptoOps!ScalarMultiplyG(s)],
                        bit_index |-> 42 ]
           decoded == DecodeOTInit(EncodeOTInit(msg))
       IN  output' = Append(output,
                       IF decoded = DecodeFails THEN "OTInit decode: FAILED"
                       ELSE IF decoded = msg THEN "OTInit encode/decode: OK"
                       ELSE "OTInit encode/decode: DATA MISMATCH")
  /\ pc' = "passed"
  /\ UNCHANGED <<s1, s2>>

\* The end of main.
ReportSuccess ==
  /\ pc = "passed"
  /\ output' = Append(output, "[All Tests Passed!]")
  /\ pc' = "exited"
  /\ UNCHANGED <<s1, s2>>

Exited == pc = "exited" /\ UNCHANGED vars

Next == TestCryptoOps \/ TestProtoCodec \/ ReportSuccess \/ Exited

Spec == Init /\ [][Next]_vars
-----------------------------------------------------------------------------
\* "math_check confirms 100% correctness of the trezor-crypto integration": when it
\* says that all tests passed, the wrappers add and subtract the points it made.
IntegrationCorrect ==
  pc = "exited" =>
    LET g1 == CryptoOps!ScalarMultiplyG(s1)
        g2 == CryptoOps!ScalarMultiplyG(s2)
        times(n) == CryptoOps!ScalarMultiplyG(n % Order)
    IN  /\ CryptoOps!PointAdd(g1, g2) = {times(s1 + s2)}
        /\ CryptoOps!PointSubtract(g1, g2) = {times(s1 - s2)}
=============================================================================
