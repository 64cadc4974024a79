---------------------------- MODULE DoubleAndAdd ----------------------------
(***************************************************************************)
(* scalarMultiply of client/src/crypto_ops.ts, over any addition.          *)
(***************************************************************************)
EXTENDS Integers

CONSTANTS Point,        \* the points that have an encoding
          Infinity,     \* the point that has none
          Add(_, _)     \* addPoints

Element == Point \cup {Infinity}

\* The shortcuts of addPoints and its formulas make one associative operation.
ASSUME AdditionAssumption ==
  /\ Infinity \notin Point
  /\ \A P, Q \in Element : Add(P, Q) \in Element
  /\ \A P \in Element : Add(P, Infinity) = P /\ Add(Infinity, P) = P
  /\ \A P, Q, R \in Element : Add(Add(P, Q), R) = Add(P, Add(Q, R))

\* mutant: the addend is doubled before it is used
ScalarMultiplyEarly(scalar, P) ==
  LET loop[st \in [k : Nat, result : Element, addend : Element]] ==
        IF st.k = 0 THEN st.result
        ELSE LET doubled == Add(st.addend, st.addend) IN
             loop[ [ k      |-> st.k \div 2,
                     result |-> IF st.k % 2 = 1 THEN Add(st.result, doubled) ELSE st.result,
                     addend |-> doubled ] ]
  IN  loop[ [k |-> scalar, result |-> Infinity, addend |-> P] ]

\* Double and add, for a scalar in 1 .. Order-1 (the code throws on any other): the
\* loop is a function of the variables that it assigns.
ScalarMultiply(scalar, P) ==
  LET loop[st \in [k : Nat, result : Element, addend : Element]] ==
        IF st.k = 0 THEN st.result
        ELSE loop[ [ k      |-> st.k \div 2,
                     result |-> IF st.k % 2 = 1 THEN Add(st.result, st.addend) ELSE st.result,
                     addend |-> IF st.k \div 2 > 0 THEN Add(st.addend, st.addend)
                                ELSE st.addend ] ]
  IN  loop[ [k |-> scalar, result |-> Infinity, addend |-> P] ]

\* Repeated addition, which it has to be: k times P.
Multiple(k, P) ==
  LET total[i \in 0 .. k] == IF i = 0 THEN Infinity ELSE Add(total[i-1], P)
  IN  total[k]
=============================================================================
