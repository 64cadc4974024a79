-------------------------- MODULE CotSessionProofs --------------------------
(***************************************************************************)
(* IInv is an invariant of CotSession; from it follow the safety           *)
(* properties, and that a session implements correlated OT.                *)
(***************************************************************************)
EXTENDS CotSessionInv, CotOTProofs, SequenceTheorems

USE DEF ClientDone, ServerDone

\* What the operators on sequences return on the queues of at most two frames.
LEMMA AppendSecond == \A f, g : Append(<<f>>, g) = <<f, g>>
<1> TAKE f, g
<1> DEFINE s == Append(<<f>>, g)
           t == <<f, g>>
<1>1. s \in Seq({f, g}) /\ t \in Seq({f, g})
  OBVIOUS
<1>2. Len(s) = 2 /\ Len(t) = 2 /\ s[1] = t[1] /\ s[2] = t[2]
  OBVIOUS
<1> HIDE DEF s, t
<1>3. s = [i \in 1 .. 2 |-> s[i]] /\ t = [i \in 1 .. 2 |-> t[i]]
  BY <1>1, <1>2
<1>4. [i \in 1 .. 2 |-> s[i]] = [i \in 1 .. 2 |-> t[i]]
  BY <1>2
<1>5. QED
  BY <1>3, <1>4 DEF s, t

LEMMA ShortQueues ==
  /\ \A f : /\ Append(<<>>, f) = <<f>> /\ Head(<<f>>) = f /\ Tail(<<f>>) = <<>>
            /\ Len(<<f>>) = 1 /\ <<f>> # <<>>
  /\ \A f, g : /\ Append(<<f>>, g) = <<f, g>> /\ Head(<<f, g>>) = f
               /\ Tail(<<f, g>>) = <<g>> /\ Len(<<f, g>>) = 2 /\ <<f, g>> # <<>>
  /\ Len(<<>>) = 0
BY AppendSecond

LEMMA FrameTypes ==
  /\ \A d \in BOOLEAN : SessionConfig(d) \in Frame
  /\ \A A \in Point, i \in Nat : OTInit(A, i) \in Frame
  /\ \A B \in Point : OTResponse(B) \in Frame
  /\ \A e \in [m0 : Word, m1 : Word] : OTEncrypted(e) \in Frame
  /\ \A s \in Residue : MTAShare(s) \in Frame
  /\ \A sx \in Scalar, su \in Residue : DebugRevealRequest(sx, su) \in Frame
  /\ \A sy \in Scalar, ok \in BOOLEAN : DebugRevealResponse(sy, ok) \in Frame
BY DEF Frame, SessionConfig, OTInit, OTResponse, OTEncrypted, MTAShare, DebugRevealRequest,
       DebugRevealResponse

LEMMA SequenceTypes ==
  ASSUME NEW S, NEW s \in Seq(S)
  PROVE  /\ Len(s) \in Nat
         /\ s = <<>> <=> Len(s) = 0
         /\ s # <<>> => /\ Head(s) \in S /\ Tail(s) \in Seq(S)
                        /\ Len(Tail(s)) = Len(s) - 1
         /\ \A e \in S : /\ Append(s, e) \in Seq(S) /\ Len(Append(s, e)) = Len(s) + 1
                         /\ Append(s, e) # <<>>
OBVIOUS

LEMMA KPositive == K \in Nat /\ K > 0
BY RoundsAssumption

LEMMA Lengths ==
  ASSUME IInv
  PROVE  /\ I \in Nat /\ J \in Nat /\ K \in Nat /\ K > 0
         /\ Len(c2s) \in Nat /\ Len(s2c) \in Nat /\ Len(chunks) \in Nat
<1>1. uiValues \in Seq(Mask) /\ mcValues \in Seq(Word)
  BY DEF IInv, ClientTypes, ServerTypes
<1>2. c2s \in Seq(Frame) /\ s2c \in Seq(Frame) /\ chunks \in Seq(Frame)
  BY DEF IInv, ConnectionTypes
<1>3. QED
  BY <1>1, <1>2, KPositive DEF I, J

LEMMA InitIInv == Init => IInv
<1> SUFFICES ASSUME Init PROVE IInv
  OBVIOUS
<1>1. ClientTypes
  BY DEF Init, ClientTypes, Verdict
<1>7. ServerTypes
  <2>1. sessionDebug \in BOOLEAN /\ verified \in BOOLEAN
    BY DEF Init
  <2>2. QED
    BY <2>1 DEF Init, ServerTypes, Verdict
<1>8. ConnectionTypes
  <2>1. ended \in BOOLEAN
    BY DEF Init
  <2>2. QED
    BY <2>1 DEF Init, ConnectionTypes
<1>2. Balanced
  BY DEF Init, Balanced, ClientSent, ClientTaken, ServerSent, ServerTaken, I, J, Sending,
         Arriving
<1>3. ClientControl
  BY KPositive DEF Init, ClientControl, I, J
<1>4. ServerControl
  BY KPositive DEF Init, ServerControl, I, J
<1>9. ServerLog
  BY DEF Init, ServerLog
<1>5. Closing /\ ToServer /\ FromServer /\ Stranded
  BY DEF Init, Closing, ToServer, FromServer, Stranded
<1>6. QED
  BY <1>1, <1>2, <1>3, <1>4, <1>5, <1>7, <1>8, <1>9 DEF IInv

-----------------------------------------------------------------------------
(* Where the two sides can be relative to each other: the counts of frames *)
(* leave few combinations of their control points.                         *)

\* The balance of frames, with the lengths as numbers.
LEMMA Balance ==
  ASSUME IInv, ~ClientDone, spc # "failed"
  PROVE  /\ ClientSent = ServerTaken + Sending
         /\ ServerSent = ClientTaken + Arriving
         /\ I \in Nat /\ J \in Nat /\ K \in Nat /\ K > 0
         /\ Sending \in Nat /\ Arriving \in Nat
         /\ cpc \in {"start", "configW", "initW", "responseR", "encryptedW", "shareR",
                     "requestW", "revealR"}
         /\ spc \in {"config", "init", "encrypted", "share", "printShare", "reveal",
                     "printVerdict", "done"}
<1>1. Balanced
  BY DEF IInv
<1>2. Sending \in Nat /\ Arriving \in Nat
  BY Lengths DEF Sending, Arriving
<1>3. /\ cpc \in {"start", "configW", "initW", "responseR", "encryptedW", "shareR",
                  "requestW", "revealR"}
      /\ spc \in {"config", "init", "encrypted", "share", "printShare", "reveal",
                     "printVerdict", "done"}
  BY DEF IInv, ClientTypes, ServerTypes, ClientDone
<1>4. QED
  BY <1>1, <1>2, <1>3, Lengths DEF Balanced

LEMMA ClientCounts ==
  /\ cpc = "start"                  => ClientSent = 0 /\ ClientTaken = I
  /\ cpc = "configW"                => ClientSent = 1 /\ ClientTaken = I
  /\ cpc \in {"initW", "responseR"} => ClientSent = 2 * I + 2 /\ ClientTaken = I
  /\ cpc = "encryptedW"             => ClientSent = 2 * I + 3 /\ ClientTaken = I + 1
  /\ cpc = "shareR"                 => ClientSent = 2 * K + 1 /\ ClientTaken = K
  /\ cpc \in {"requestW", "revealR"} => ClientSent = 2 * K + 2 /\ ClientTaken = K + 1
BY DEF ClientSent, ClientTaken

LEMMA ServerCounts ==
  /\ spc = "config"    => ServerTaken = 0 /\ ServerSent = J
  /\ spc = "init"      => ServerTaken = 2 * J + 1 /\ ServerSent = J
  /\ spc = "encrypted" => ServerTaken = 2 * J + 2 /\ ServerSent = J + 1
  /\ spc = "share"     => ServerTaken = 2 * K + 1 /\ ServerSent = K
  /\ spc \in {"printShare", "reveal"} => ServerTaken = 2 * K + 1 /\ ServerSent = K + 1
  /\ spc \in {"printVerdict", "done"} /\ sessionDebug
                       => ServerTaken = 2 * K + 2 /\ ServerSent = K + 2
  /\ spc \in {"printVerdict", "done"} /\ ~sessionDebug
                       => ServerTaken = 2 * K + 1 /\ ServerSent = K + 1
BY DEF ServerSent, ServerTaken

LEMMA Phases ==
  ASSUME IInv, ~ClientDone, spc # "failed"
  PROVE  Phase
<1>1. ClientControl /\ ServerControl
  BY DEF IInv
<1>2. /\ cpc \in {"start", "configW"} => I = 0 /\ J = 0
      /\ cpc \in {"initW", "responseR", "encryptedW"} => I < K
      /\ cpc \in {"shareR", "requestW", "revealR"} => I = K
      /\ cpc \in {"requestW", "revealR"} => J = K /\ debugReveal
  BY <1>1 DEF ClientControl
<1>3. /\ spc = "config" => J = 0
      /\ spc \in {"init", "encrypted"} => J < K
      /\ spc \in {"share", "printShare", "reveal", "printVerdict", "done"} => J = K
      /\ spc \in {"printShare", "printVerdict", "done"} => sessionDebug = debugReveal
      /\ spc \in {"reveal", "printVerdict"} => sessionDebug
  BY <1>1 DEF ServerControl
<1>4. CASE cpc = "start"
  BY <1>2, <1>3, <1>4, Balance, ClientCounts, ServerCounts DEF Phase
<1>5. CASE cpc = "configW"
  BY <1>2, <1>3, <1>5, Balance, ClientCounts, ServerCounts DEF Phase
<1>6. CASE cpc \in {"initW", "responseR"}
  BY <1>2, <1>3, <1>6, Balance, ClientCounts, ServerCounts DEF Phase
<1>7. CASE cpc = "encryptedW"
  BY <1>2, <1>3, <1>7, Balance, ClientCounts, ServerCounts DEF Phase
<1>8. CASE cpc = "shareR"
  BY <1>2, <1>3, <1>8, Balance, ClientCounts, ServerCounts DEF Phase
<1>9. CASE cpc \in {"requestW", "revealR"}
  BY <1>2, <1>3, <1>9, Balance, ClientCounts, ServerCounts DEF Phase
<1>10. QED
  BY <1>4, <1>5, <1>6, <1>7, <1>8, <1>9, Balance
-----------------------------------------------------------------------------
(* A side that gives up leaves the invariant intact.                       *)

ClientGivesUp ==
  /\ ~ClientDone
  /\ cpc' \in {"failed", "silent"}
  /\ cerr' \in {"none", "decode", "infinity", "write after end", "closed", "reset", "killed"}
  /\ cerr' = "infinity" => cpc' = "failed" /\ (~ServerDone => spc = "encrypted" /\ c2s = <<>>)
  /\ a' \in Ephemeral \cup {0} /\ m0' \in Mask \cup {0}
  /\ uiValues' \in Seq(Mask) /\ Len(uiValues') <= K
  /\ ServerDone \/ UNCHANGED <<a, m0, uiValues>>
  /\ clientV' \in Residue \cup {None}
  /\ UNCHANGED <<x, debugReveal, clientY, clientVerdict>>
  /\ UNCHANGED serverVars /\ UNCHANGED <<c2s, serverSide>>
  /\ chunks' \in Seq(Frame) /\ s2c' \in Seq(Frame) /\ ended' \in BOOLEAN
  /\ ended' => s2c' = <<>> /\ ServerDone

LEMMA ClientGivesUpInv == IInv /\ ClientGivesUp => IInv'
<1> SUFFICES ASSUME IInv, ClientGivesUp PROVE IInv'
  OBVIOUS
<1> USE DEF ClientGivesUp, serverVars
<1>1. ClientTypes'
  BY DEF IInv, ClientTypes
<1>10. ServerTypes'
  BY DEF IInv, ServerTypes
<1>11. ConnectionTypes'
  BY DEF IInv, ConnectionTypes
<1>2. Balanced'
  BY DEF Balanced
<1>3. ClientControl'
  BY DEF IInv, ClientControl, I, J
<1>9. ServerControl'
  BY DEF IInv, ServerControl, I, J
<1>12. ServerLog'
  BY DEF IInv, ServerLog
<1>4. Closing'
  BY DEF IInv, Closing
<1>5. ToServer'
  BY DEF IInv, ToServer, Opens, Offered, I, J
<1>6. FromServer'
  BY DEF FromServer
<1>7. Stranded'
  BY DEF IInv, Stranded
<1>8. QED
  BY <1>1, <1>2, <1>3, <1>4, <1>5, <1>6, <1>7, <1>9, <1>10, <1>11, <1>12 DEF IInv

ServerGivesUp ==
  /\ ~ServerDone
  /\ spc' = "failed"
  /\ serr' \in {"none", "decode", "bit index", "infinity", "send", "receive", "killed"}
  /\ serr' = "infinity" /\ ~ClientDone =>
       cpc \in {"initW", "responseR"} /\ chunks = <<>> /\ s2c = <<>>
  /\ spc \in {"printShare", "reveal", "printVerdict"} /\ ~ClientDone => serr' = "killed"
  /\ UNCHANGED <<y, sessionDebug, mcValues, printedV, serverVerdict>>
  /\ verified' \in BOOLEAN /\ (spc # "reveal" => UNCHANGED verified)
  /\ b' \in Ephemeral \cup {0} /\ key' \in Word \cup {None} /\ v' \in Residue \cup {None}
  /\ spc # "init" => UNCHANGED <<b, key>>
  /\ spc # "share" => UNCHANGED v
  /\ UNCHANGED clientVars /\ UNCHANGED <<s2c, chunks, ended>>
  /\ c2s' \in Seq(Frame) /\ serverSide' \in {"fin", "rst"}

LEMMA ServerGivesUpInv == IInv /\ ServerGivesUp => IInv'
<1> SUFFICES ASSUME IInv, ServerGivesUp PROVE IInv'
  OBVIOUS
<1> USE DEF ServerGivesUp, clientVars
<1>1. ClientTypes'
  BY DEF IInv, ClientTypes
<1>10. ServerTypes'
  BY DEF IInv, ServerTypes
<1>11. ConnectionTypes'
  BY DEF IInv, ConnectionTypes
<1>2. Balanced'
  BY DEF Balanced
<1>3. ClientControl'
  <2>1. cpc \in {"requestW", "revealR"} => spc # "share"
    BY Phases DEF Phase
  <2>2. QED
    BY <2>1 DEF IInv, ClientControl, I, J
<1>9. ServerControl'
  BY DEF IInv, ServerControl, I, J
<1>12. ServerLog'
  BY DEF IInv, ServerLog
<1>4. Closing'
  BY DEF IInv, Closing
<1>5. ToServer'
  BY DEF ToServer
<1>6. FromServer'
  BY DEF IInv, FromServer, Inbound, Choice, ServerControl, ServerLog, I, J
<1>7. Stranded'
  BY DEF IInv, Stranded
<1>8. QED
  BY <1>1, <1>2, <1>3, <1>4, <1>5, <1>6, <1>7, <1>9, <1>10, <1>11, <1>12 DEF IInv

-----------------------------------------------------------------------------
(* The steps of the client.                                                *)

LEMMA Queues ==
  ASSUME IInv
  PROVE  /\ Sending \in Nat /\ Arriving \in Nat
         /\ Sending = 0 <=> c2s = <<>>
         /\ Arriving = 0 <=> (chunks = <<>> /\ s2c = <<>>)
<1>1. c2s \in Seq(Frame) /\ s2c \in Seq(Frame) /\ chunks \in Seq(Frame)
  BY DEF IInv, ConnectionTypes
<1>2. /\ Len(c2s) \in Nat /\ (Len(c2s) = 0 <=> c2s = <<>>)
      /\ Len(s2c) \in Nat /\ (Len(s2c) = 0 <=> s2c = <<>>)
      /\ Len(chunks) \in Nat /\ (Len(chunks) = 0 <=> chunks = <<>>)
  BY <1>1
<1>3. QED
  BY <1>2 DEF Sending, Arriving

\* What a step of the client leaves alone.
ClientOnly ==
  ~ClientDone /\ UNCHANGED serverVars /\ UNCHANGED <<x, debugReveal, s2c, ended, serverSide>>

LEMMA ServerSide ==
  ASSUME IInv, ClientOnly
  PROVE  /\ ServerTypes' /\ ServerControl' /\ ServerLog' /\ Closing'
         /\ ServerTaken' = ServerTaken /\ ServerSent' = ServerSent /\ J' = J
<1> USE DEF ClientOnly, serverVars
<1>1. ServerTypes'
  BY DEF IInv, ServerTypes
<1>2. ServerControl'
  BY DEF IInv, ServerControl, J
<1>6. ServerLog'
  BY DEF IInv, ServerLog
<1>3. Closing'
  BY DEF IInv, Closing
<1>4. ServerTaken' = ServerTaken /\ ServerSent' = ServerSent /\ J' = J
  BY DEF ServerTaken, ServerSent, J
<1>5. QED
  BY <1>1, <1>2, <1>3, <1>4, <1>6

\* The queues after a step of the client.
LEMMA ClientQueues ==
  ASSUME IInv, ClientOnly,
         \/ c2s' = c2s
         \/ \E f \in Frame : c2s' = Append(c2s, f),
         \/ chunks' = chunks
         \/ chunks # <<>> /\ chunks' = Tail(chunks)
  PROVE  /\ ConnectionTypes'
         /\ c2s' = c2s => Sending' = Sending
         /\ \A f \in Frame : c2s' = Append(c2s, f) => Sending' = Sending + 1
         /\ chunks' = chunks => Arriving' = Arriving
         /\ chunks # <<>> /\ chunks' = Tail(chunks) => Arriving' = Arriving - 1
<1>1. /\ c2s \in Seq(Frame) /\ s2c \in Seq(Frame) /\ chunks \in Seq(Frame)
      /\ s2c' = s2c
  BY DEF IInv, ConnectionTypes, ClientOnly
<1>2. c2s' \in Seq(Frame)
  BY <1>1, SequenceTypes
<1>3. chunks' \in Seq(Frame)
  BY <1>1, SequenceTypes
<1>4. ConnectionTypes'
  BY <1>1, <1>2, <1>3 DEF IInv, ConnectionTypes, ClientOnly
<1>5. \A f \in Frame : c2s' = Append(c2s, f) => Sending' = Sending + 1
  BY <1>1, SequenceTypes DEF Sending
<1>6. chunks # <<>> /\ chunks' = Tail(chunks) => Arriving' = Arriving - 1
  <2>1. Len(s2c) \in Nat /\ Len(chunks) \in Nat
    BY <1>1
  <2>2. chunks # <<>> => Len(Tail(chunks)) = Len(chunks) - 1
    BY <1>1
  <2>3. QED
    BY <1>1, <2>1, <2>2 DEF Arriving
<1>7. QED
  BY <1>1, <1>4, <1>5, <1>6 DEF Sending, Arriving

\* A step that sends and takes as many frames as its counts say keeps the balance.
LEMMA KeepsBalance ==
  ASSUME IInv, ClientOnly,
         \/ ClientSent' = ClientSent /\ Sending' = Sending
         \/ ClientSent' = ClientSent + 1 /\ Sending' = Sending + 1,
         \/ ClientTaken' = ClientTaken /\ Arriving' = Arriving
         \/ ClientTaken' = ClientTaken + 1 /\ Arriving' = Arriving - 1
  PROVE  Balanced'
<1> SUFFICES ASSUME spc # "failed"
             PROVE  /\ ClientSent' = ServerTaken' + Sending'
                    /\ ServerSent' = ClientTaken' + Arriving'
  BY DEF Balanced, ClientOnly, serverVars
<1>1. ~ClientDone
  BY DEF ClientOnly
<1>2. /\ ClientSent = ServerTaken + Sending /\ ServerSent = ClientTaken + Arriving
      /\ Sending \in Nat /\ Arriving \in Nat
  BY <1>1, Balance
<1>3. ServerTaken \in Int /\ ServerSent \in Int /\ ClientTaken \in Int
  BY <1>1, Balance, ServerCounts, ClientCounts
<1>4. ServerTaken' = ServerTaken /\ ServerSent' = ServerSent
  BY ServerSide
<1>5. QED
  BY <1>2, <1>3, <1>4

LEMMA MaskPushed ==
  \A m \in Mask : uiValues \in Seq(Mask) /\ I < K /\ I \in Nat /\ K \in Nat =>
    Append(uiValues, m) \in Seq(Mask) /\ Len(Append(uiValues, m)) <= K
<1> SUFFICES ASSUME NEW m \in Mask, uiValues \in Seq(Mask), I < K, I \in Nat, K \in Nat
             PROVE  Append(uiValues, m) \in Seq(Mask) /\ Len(Append(uiValues, m)) <= K
  OBVIOUS
<1>1. Append(uiValues, m) \in Seq(Mask) /\ Len(Append(uiValues, m)) = Len(uiValues) + 1
  OBVIOUS
<1>2. QED
  BY <1>1 DEF I

\* A write on a socket the server has closed.
LEMMA FailingWrite ==
  ASSUME IInv, ended, cpc' = "failed", cerr' = "write after end", ClientOnly, c2s' = c2s,
         chunks' = chunks \/ (chunks # <<>> /\ chunks' = Tail(chunks)),
         a' = a \/ a' \in Ephemeral, m0' = m0 \/ m0' \in Mask,
         uiValues' = uiValues \/ (I < K /\ m0 \in Mask /\ uiValues' = Append(uiValues, m0)),
         clientV' = clientV \/ clientV' \in Residue,
         UNCHANGED <<clientY, clientVerdict>>
  PROVE  ClientGivesUp
<1>1. /\ ServerDone /\ s2c = <<>> /\ I <= K /\ I \in Nat /\ K \in Nat
      /\ uiValues \in Seq(Mask) /\ s2c \in Seq(Frame) /\ chunks \in Seq(Frame)
  BY Lengths DEF IInv, Closing, ClientControl, ClientTypes, ConnectionTypes
<1>2. uiValues' \in Seq(Mask) /\ Len(uiValues') <= K
  <2>1. CASE uiValues' = uiValues
    BY <1>1, <2>1 DEF I
  <2>2. CASE I < K /\ m0 \in Mask /\ uiValues' = Append(uiValues, m0)
    BY <1>1, <2>2, MaskPushed
  <2>3. QED
    BY <2>1, <2>2
<1>3. chunks' \in Seq(Frame)
  BY <1>1, SequenceTypes
<1>4. /\ a' \in Ephemeral \cup {0} /\ m0' \in Mask \cup {0}
      /\ clientV' \in Residue \cup {None} /\ ended' \in BOOLEAN
  BY DEF IInv, ClientTypes, ConnectionTypes, ClientOnly
<1>5. QED
  BY <1>1, <1>2, <1>3, <1>4 DEF ClientGivesUp, ClientOnly

LEMMA ClientSendConfigInv == IInv /\ ClientSendConfig => IInv'
<1> SUFFICES ASSUME IInv, ClientSendConfig PROVE IInv'
  OBVIOUS
<1>1. CASE ended
  <2>1. ClientGivesUp
    BY <1>1, FailingWrite DEF ClientSendConfig, ClientWrites, ClientFails, ClientOnly
  <2>2. QED
    BY <2>1, ClientGivesUpInv
<1>2. CASE ~ended
  <2>1. /\ cpc = "start" /\ cpc' = "configW" /\ cerr' = cerr
        /\ c2s' = Append(c2s, SessionConfig(debugReveal)) /\ chunks' = chunks
        /\ UNCHANGED <<a, m0, uiValues, clientV, clientY, clientVerdict>>
        /\ ClientOnly
    BY <1>2 DEF ClientSendConfig, ClientWrites, ClientOnly
  <2>2. UNCHANGED <<x, debugReveal, s2c>> /\ UNCHANGED serverVars
    BY <2>1 DEF ClientOnly
  <2>3. spc # "failed" => spc = "config" /\ Sending = 0 /\ Arriving = 0
    BY <2>1, Phases DEF Phase
  <2>4. ClientTypes'
    BY <2>1, <2>2 DEF IInv, ClientTypes
  <2>5. SessionConfig(debugReveal) \in Frame
    BY FrameTypes DEF IInv, ClientTypes
  <2>6. ConnectionTypes' /\ Sending' = Sending + 1 /\ Arriving' = Arriving
    BY <2>1, <2>5, ClientQueues
  <2>7. ClientSent' = 1 /\ ClientTaken' = I /\ I' = I /\ ClientSent = 0 /\ ClientTaken = I
    BY <2>1 DEF ClientSent, ClientTaken, I
  <2>8. Balanced'
    BY <2>1, <2>6, <2>7, KeepsBalance
  <2>9. ClientControl'
    BY <2>1, <2>2, <2>7, ServerSide DEF IInv, ClientControl, serverVars
  <2>10. ToServer'
    BY <2>1, <2>2, <2>3, Queues, ShortQueues DEF ToServer, serverVars
  <2>11. FromServer'
    BY <2>1, <2>2 DEF IInv, FromServer, serverVars
  <2>12. Stranded'
    BY <2>1, <2>2 DEF IInv, Stranded, ClientControl, serverVars
  <2>13. QED
    BY <2>1, <2>4, <2>6, <2>8, <2>9, <2>10, <2>11, <2>12, ServerSide DEF IInv
<1>3. QED
  BY <1>1, <1>2

\* The masks offered so far do not change when a new one is drawn.
LEMMA OfferedGrows ==
  ASSUME NEW ui \in Seq(Mask), NEW m \in Mask, NEW rm,
         NEW k \in 1 .. (Len(ui) + 1)
  PROVE  Append(Append(ui, m), rm)[k] = Append(ui, m)[k]
<1>1. Append(ui, m) \in Seq(Mask) /\ Len(Append(ui, m)) = Len(ui) + 1
  OBVIOUS
<1>2. QED
  BY <1>1

\* A round starts: Alice draws a and m0 and writes OTInit.
RoundStarts ==
  /\ ClientOnly
  /\ cpc \in {"configW", "encryptedW"} /\ cpc' = "initW" /\ cerr' = cerr
  /\ a' \in Ephemeral /\ m0' \in Mask
  /\ uiValues' = IF cpc = "configW" THEN uiValues ELSE Append(uiValues, m0)
  /\ I' < K
  /\ c2s' = Append(c2s, OTInit(MulG(a'), I')) /\ chunks' = chunks
  /\ UNCHANGED <<clientV, clientY, clientVerdict>>

LEMMA RoundStartsInv == IInv /\ RoundStarts => IInv'
<1> SUFFICES ASSUME IInv, RoundStarts PROVE IInv'
  OBVIOUS
<1>1. /\ cpc \in {"configW", "encryptedW"} /\ cpc' = "initW" /\ cerr' = cerr
      /\ a' \in Ephemeral /\ m0' \in Mask /\ I' < K
      /\ c2s' = Append(c2s, OTInit(MulG(a'), I')) /\ chunks' = chunks
      /\ UNCHANGED <<clientV, clientY, clientVerdict>>
      /\ ClientOnly
  BY DEF RoundStarts
<1>2. UNCHANGED <<x, debugReveal, s2c>> /\ UNCHANGED serverVars
  BY <1>1 DEF ClientOnly
<1>3. ~ClientDone /\ uiValues \in Seq(Mask)
  BY <1>1 DEF IInv, ClientTypes
<1>4. /\ cpc = "configW" => uiValues' = uiValues /\ I' = I /\ I = 0
      /\ cpc = "encryptedW" => m0 \in Mask /\ uiValues' = Append(uiValues, m0) /\ I' = I + 1
  BY <1>1, <1>3 DEF RoundStarts, IInv, ClientControl, I
<1>5. uiValues' \in Seq(Mask) /\ I' \in Nat
  <2>1. uiValues' \in Seq(Mask)
    BY <1>1, <1>3, <1>4, SequenceTypes
  <2>2. QED
    BY <2>1 DEF I
<1>6. ClientTypes'
  BY <1>1, <1>2, <1>5 DEF IInv, ClientTypes
<1>7. OTInit(MulG(a'), I') \in Frame
  <2>1. MulG(a') \in Point
    BY <1>1, PointTypes, DrawAssumption
  <2>2. QED
    BY <2>1, <1>5, FrameTypes
<1>8. ConnectionTypes' /\ Sending' = Sending + 1 /\ Arriving' = Arriving
  BY <1>1, <1>7, ClientQueues
<1>9. ClientSent' = ClientSent + 1 /\ ClientTaken' = ClientTaken
  <2>1. ClientSent' = 2 * I' + 2 /\ ClientTaken' = I'
    BY <1>1 DEF ClientSent, ClientTaken
  <2>2. QED
    BY <1>1, <1>4, <2>1, Lengths, ClientCounts
<1>10. Balanced'
  BY <1>1, <1>8, <1>9, KeepsBalance
<1>11. ClientControl'
  BY <1>1, <1>2, <1>5, ServerSide, KPositive DEF IInv, ClientControl, serverVars
<1>12. chunks = <<>> /\ s2c = <<>>
  BY <1>1, <1>4, Lengths DEF IInv, FromServer
<1>13. FromServer'
  BY <1>1, <1>2, <1>12 DEF FromServer
<1>14. Stranded'
  BY <1>1, <1>2 DEF IInv, Stranded, ClientControl, serverVars
<1>15. ToServer'
  <2> SUFFICES ASSUME ~ServerDone
               PROVE  \/ /\ spc = "config"
                         /\ c2s' = <<SessionConfig(debugReveal), OTInit(MulG(a'), 0)>>
                      \/ /\ spc = "init"
                         /\ c2s' = <<OTInit(MulG(a'), J)>>
                      \/ /\ spc = "encrypted" /\ J + 1 < K
                         /\ \E e \in [m0 : Word, m1 : Word] :
                              /\ (Opens(e))'
                              /\ c2s' = <<OTEncrypted(e), OTInit(MulG(a'), J + 1)>>
    BY <1>1, <1>2, ServerSide DEF ToServer, serverVars
  <2>1. ToServer
    BY DEF IInv
  <2>2. CASE cpc = "configW" /\ spc = "config"
    <3>1. Sending = 1 /\ I' = 0
      BY <1>3, <1>4, <2>2, Phases DEF Phase
    <3>2. c2s = <<SessionConfig(debugReveal)>>
      BY <2>1, <2>2, <3>1, ShortQueues DEF ToServer, Sending
    <3>3. QED
      BY <1>1, <2>2, <3>1, <3>2, ShortQueues
  <2>3. CASE spc = "init"
    <3>1. c2s = <<>> /\ I' = J
      BY <1>1, <1>3, <1>4, <2>3, Phases, Queues, Lengths DEF Phase
    <3>2. QED
      BY <1>1, <2>3, <3>1, ShortQueues
  <2>4. CASE cpc = "encryptedW" /\ spc = "encrypted"
    <3>1. Sending = 1 /\ J = I
      BY <1>3, <2>4, Phases DEF Phase
    <3>2. PICK e \in [m0 : Word, m1 : Word] : Opens(e) /\ c2s = <<OTEncrypted(e)>>
      BY <2>1, <2>4, <3>1, ShortQueues DEF ToServer, Sending
    <3>3. c2s' = <<OTEncrypted(e), OTInit(MulG(a'), J + 1)>> /\ J + 1 < K
      BY <1>1, <1>4, <2>4, <3>1, <3>2, ShortQueues
    <3>4. (Opens(e))'
      <4>1. Offered'[J + 1] = Offered[J + 1]
        <5>1. m0 \in Mask /\ Offered' = Append(Append(uiValues, m0), m0')
          BY <1>4, <2>4 DEF Offered
        <5>2. J + 1 \in 1 .. (Len(uiValues) + 1)
          BY <3>1, Lengths DEF I
        <5>3. QED
          BY <1>3, <5>1, <5>2, OfferedGrows DEF Offered
      <4>2. J <= I'
        BY <1>4, <2>4, <3>1, Lengths
      <4>3. J' = J /\ UNCHANGED <<x, y, key>>
        BY <1>2, ServerSide, <1>1 DEF serverVars
      <4>4. QED
        BY <3>2, <4>1, <4>2, <4>3 DEF Opens
    <3>5. QED
      BY <2>4, <3>3, <3>4
  <2>5. QED
    <3>1. /\ cpc = "configW" => spc \in {"config", "init"}
          /\ cpc = "encryptedW" => spc \in {"init", "encrypted"}
      BY <1>1, <1>3, <1>4, Phases, Lengths DEF Phase
    <3>2. QED
      BY <1>1, <2>2, <2>3, <2>4, <3>1
<1>16. QED
  BY <1>1, <1>6, <1>8, <1>10, <1>11, <1>13, <1>14, <1>15, ServerSide DEF IInv

LEMMA ClientConfigWrittenInv == IInv /\ ClientConfigWritten => IInv'
<1> SUFFICES ASSUME IInv, ClientConfigWritten PROVE IInv'
  OBVIOUS
<1>1. PICK ra \in Ephemeral, rm \in Mask :
        /\ a' = ra /\ m0' = rm
        /\ ClientWrites(OTInit(MulG(ra), 0), "initW")
  BY DEF ClientConfigWritten, ClientOffer
<1>2. /\ ClientOnly /\ cpc = "configW" /\ uiValues' = uiValues /\ chunks' = chunks
      /\ UNCHANGED <<clientV, clientY, clientVerdict>>
  BY DEF ClientConfigWritten, ClientOnly
<1>3. I' = 0 /\ I' < K
  BY <1>2, KPositive DEF IInv, ClientControl, I
<1>4. CASE ended
  BY <1>1, <1>2, <1>4, FailingWrite, ClientGivesUpInv DEF ClientWrites, ClientFails
<1>5. CASE ~ended
  <2>1. RoundStarts
    BY <1>1, <1>2, <1>3, <1>5 DEF RoundStarts, ClientWrites
  <2>2. QED
    BY <2>1, RoundStartsInv
<1>6. QED
  BY <1>4, <1>5

LEMMA ClientEncryptedWrittenInv == IInv /\ ClientEncryptedWritten => IInv'
<1> SUFFICES ASSUME IInv, ClientEncryptedWritten PROVE IInv'
  OBVIOUS
<1>1. /\ ClientOnly /\ cpc = "encryptedW" /\ uiValues' = Append(uiValues, m0)
      /\ chunks' = chunks /\ UNCHANGED <<clientV, clientY, clientVerdict>>
  BY DEF ClientEncryptedWritten, ClientOnly
<1>2. I < K /\ m0 \in Mask /\ uiValues \in Seq(Mask) /\ I <= J
  BY <1>1 DEF IInv, ClientControl, ClientTypes
<1>3. I' = I + 1 /\ uiValues' \in Seq(Mask)
  BY <1>1, <1>2, SequenceTypes DEF I
<1>4. CASE I + 1 < K
  <2>1. PICK ra \in Ephemeral, rm \in Mask :
          /\ a' = ra /\ m0' = rm
          /\ ClientWrites(OTInit(MulG(ra), I + 1), "initW")
    BY <1>4 DEF ClientEncryptedWritten, ClientOffer, I
  <2>2. CASE ended
    BY <1>1, <1>2, <2>1, <2>2, FailingWrite, ClientGivesUpInv DEF ClientWrites, ClientFails
  <2>3. CASE ~ended
    <3>1. RoundStarts
      BY <1>1, <1>3, <1>4, <2>1, <2>3 DEF RoundStarts, ClientWrites
    <3>2. QED
      BY <3>1, RoundStartsInv
  <2>4. QED
    BY <2>2, <2>3
<1>5. CASE ~(I + 1 < K)
  <2>1. cpc' = "shareR" /\ UNCHANGED <<a, m0, cerr, c2s>>
    BY <1>5 DEF ClientEncryptedWritten, I
  <2>2. I + 1 = K /\ I' = K
    BY <1>2, <1>3, <1>5, Lengths
  <2>3. UNCHANGED <<x, debugReveal, s2c>> /\ UNCHANGED serverVars /\ ~ClientDone
    BY <1>1 DEF ClientOnly
  <2>4. ClientTypes'
    BY <1>1, <1>3, <2>1, <2>3 DEF IInv, ClientTypes
  <2>5. ConnectionTypes' /\ Sending' = Sending /\ Arriving' = Arriving
    BY <1>1, <2>1, ClientQueues
  <2>6. Balanced'
    <3>1. ClientSent' = 2 * K + 1 /\ ClientTaken' = K
      BY <2>1 DEF ClientSent, ClientTaken
    <3>2. ClientSent' = ClientSent /\ ClientTaken' = ClientTaken
      BY <1>1, <2>2, <3>1, Lengths, ClientCounts
    <3>3. QED
      BY <1>1, <2>5, <3>2, KeepsBalance
  <2>7. ClientControl'
    BY <1>1, <2>1, <2>2, <2>3, ServerSide, KPositive DEF IInv, ClientControl, serverVars
  <2>8. ToServer'
    <3> SUFFICES ASSUME ~ServerDone PROVE ToServer'
      BY <2>3 DEF ToServer, serverVars
    <3>1. \/ c2s = <<>>
          \/ spc = "encrypted" /\ J = I /\ Sending = 1
      BY <1>1, <2>3, Phases, Queues DEF Phase
    <3>2. CASE c2s = <<>>
      BY <2>1, <3>2 DEF ToServer
    <3>3. CASE spc = "encrypted" /\ J = I /\ Sending = 1
      <4>1. PICK e \in [m0 : Word, m1 : Word] : Opens(e) /\ c2s = <<OTEncrypted(e)>>
        BY <3>3, ShortQueues DEF IInv, ToServer, Sending
      <4>2. (Opens(e))'
        <5>1. Offered'[J + 1] = Offered[J + 1]
          <6>1. Offered' = Append(Append(uiValues, m0), m0)
            BY <1>1, <2>1 DEF Offered
          <6>2. J + 1 \in 1 .. (Len(uiValues) + 1)
            BY <3>3, Lengths DEF I
          <6>3. QED
            BY <1>2, <6>1, <6>2, OfferedGrows DEF Offered
        <5>2. J <= I'
          BY <1>3, <3>3, Lengths
        <5>3. J' = J /\ UNCHANGED <<x, y, key>>
          BY <1>1, <2>3, ServerSide DEF serverVars
        <5>4. QED
          BY <4>1, <5>1, <5>2, <5>3 DEF Opens
      <4>3. QED
        BY <2>1, <2>3, <3>3, <4>1, <4>2 DEF ToServer, serverVars
    <3>4. QED
      BY <3>1, <3>2, <3>3
  <2>9. FromServer'
    BY <1>1, <2>1, <2>3, ServerSide DEF IInv, FromServer, Inbound, serverVars
  <2>10. Stranded'
    BY <1>1, <2>1, <2>3 DEF IInv, Stranded, ClientControl, serverVars
  <2>11. QED
    BY <1>1, <2>4, <2>5, <2>6, <2>7, <2>8, <2>9, <2>10, ServerSide DEF IInv
<1>6. QED
  BY <1>4, <1>5

\* The callbacks of writes after which the client waits for an answer.
LEMMA ClientWaitsInv == IInv /\ (ClientInitWritten \/ ClientRequestWritten) => IInv'
<1> SUFFICES ASSUME IInv, ClientInitWritten \/ ClientRequestWritten PROVE IInv'
  OBVIOUS
<1>1. /\ \/ cpc = "initW" /\ cpc' = "responseR"
         \/ cpc = "requestW" /\ cpc' = "revealR"
      /\ UNCHANGED <<x, debugReveal, a, m0, uiValues, clientV, clientY, clientVerdict, cerr>>
      /\ UNCHANGED <<c2s, s2c, chunks, ended, serverSide>> /\ UNCHANGED serverVars
  BY DEF ClientInitWritten, ClientRequestWritten, netVars
<1>2. ClientOnly
  BY <1>1 DEF ClientOnly
<1>3. ClientTypes'
  BY <1>1 DEF IInv, ClientTypes
<1>4. ConnectionTypes' /\ Sending' = Sending /\ Arriving' = Arriving
  BY <1>1, <1>2, ClientQueues
<1>5. Balanced'
  <2>1. ClientSent' = ClientSent /\ ClientTaken' = ClientTaken
    BY <1>1 DEF ClientSent, ClientTaken, I
  <2>2. QED
    BY <1>2, <1>4, <2>1, KeepsBalance
<1>6. ClientControl'
  BY <1>1 DEF IInv, ClientControl, serverVars, I, J
<1>7. ToServer'
  BY <1>1 DEF IInv, ToServer, Opens, Offered, serverVars, I, J
<1>8. FromServer'
  BY <1>1 DEF IInv, FromServer, Inbound, Choice, serverVars, I, J
<1>9. Stranded'
  BY <1>1 DEF IInv, Stranded, serverVars
<1>10. QED
  BY <1>2, <1>3, <1>4, <1>5, <1>6, <1>7, <1>8, <1>9, ServerSide DEF IInv

\* What a client that awaits a response finds, if it finds anything.
LEMMA ResponseFound ==
  ASSUME IInv, cpc = "responseR", chunks # <<>>
  PROVE  /\ spc \in {"encrypted", "failed"} /\ J = I
         /\ y \in Secret /\ a \in Ephemeral /\ b \in Ephemeral /\ m0 \in Mask
         /\ Choice \in Point /\ key = BobKey(b, MulG(a))
         /\ chunks = <<OTResponse(Choice)>> /\ s2c = <<>>
         /\ ~ServerDone => c2s = <<>>
<1>1. /\ spc \in {"encrypted", "failed"} /\ J = I
      /\ y \in Secret /\ b \in Ephemeral
      /\ Choice \in Point /\ key = BobKey(b, MulG(a))
      /\ chunks = <<OTResponse(Choice)>> /\ s2c = <<>>
  BY DEF IInv, FromServer, Inbound
<1>2. a \in Ephemeral /\ m0 \in Mask
  BY DEF IInv, ClientControl
<1>3. ~ServerDone => c2s = <<>>
  BY Phases, Queues DEF Phase
<1>4. QED
  BY <1>1, <1>2, <1>3

LEMMA ChoiceBit == ASSUME IInv, y \in Secret PROVE GetBit(y, J) \in {0, 1} /\ y \in Nat
<1>1. y \in Nat
  BY DrawAssumption, ScalarTypes
<1>2. QED
  BY <1>1, Lengths, GetBitType

LEMMA ClientReadResponseInv == IInv /\ ClientReadResponse => IInv'
<1> SUFFICES ASSUME IInv, ClientReadResponse PROVE IInv'
  OBVIOUS
<1>1. /\ ClientOnly /\ cpc = "responseR" /\ chunks # <<>> /\ chunks' = Tail(chunks)
      /\ UNCHANGED <<x, debugReveal, a, m0, uiValues, clientV, clientY, clientVerdict>>
      /\ UNCHANGED <<s2c, ended, serverSide>> /\ UNCHANGED serverVars
  BY DEF ClientReadResponse, ClientReads, ClientOnly
<1>0. PICK e : e = AliceEncrypt(a, Choice, m0, x)
  OBVIOUS
<1>2. chunks' = <<>> /\ Head(chunks).type = "OTResponse" /\ Head(chunks).pointB = Choice
  BY <1>1, ResponseFound, ShortQueues DEF OTResponse
<1>3. IF AliceRefuses(a, Choice)
      THEN ClientFails("infinity") /\ c2s' = c2s
      ELSE ClientWrites(OTEncrypted(e), "encryptedW")
  BY <1>0, <1>2 DEF ClientReadResponse
<1>4. CASE AliceRefuses(a, Choice)
  <2>1. ClientGivesUp
    BY <1>1, <1>2, <1>3, <1>4, ResponseFound, Lengths
    DEF ClientGivesUp, ClientFails, IInv, ClientTypes, ConnectionTypes, ClientControl,
        Closing, I
  <2>2. QED
    BY <2>1, ClientGivesUpInv
<1>5. CASE ~AliceRefuses(a, Choice) /\ ended
  BY <1>1, <1>3, <1>5, FailingWrite, ClientGivesUpInv DEF ClientWrites, ClientFails
<1>6. CASE ~AliceRefuses(a, Choice) /\ ~ended
  <2>1. /\ cpc' = "encryptedW" /\ cerr' = cerr /\ c2s' = Append(c2s, OTEncrypted(e))
    BY <1>3, <1>6 DEF ClientWrites
  <2>2. /\ e \in [m0 : Word, m1 : Word]
        /\ BobDecrypt(GetBit(y, J), key, e) = (m0 + GetBit(y, J) * x) % N
    <3>1. /\ a \in Scalar /\ b \in Scalar /\ m0 \in Scalar /\ x \in Scalar
          /\ GetBit(y, J) \in {0, 1}
      BY <1>1, ResponseFound, DrawAssumption, ChoiceBit DEF IInv, ClientTypes
    <3>2. QED
      BY <1>0, <1>1, <1>6, <3>1, ResponseFound, TransferCorrect DEF Choice
  <2>3. OTEncrypted(e) \in Frame
    BY <2>2, FrameTypes
  <2>4. ConnectionTypes' /\ Sending' = Sending + 1 /\ Arriving' = Arriving - 1
    BY <1>1, <2>1, <2>3, ClientQueues
  <2>5. ClientTypes'
    BY <1>1, <2>1 DEF IInv, ClientTypes
  <2>6. I' = I
    BY <1>1 DEF I
  <2>7. Balanced'
    <3>1. ClientSent' = ClientSent + 1 /\ ClientTaken' = ClientTaken + 1
      <4>1. ClientSent' = 2 * I + 3 /\ ClientTaken' = I + 1
        BY <2>1, <2>6 DEF ClientSent, ClientTaken
      <4>2. QED
        BY <1>1, <4>1, Lengths, ClientCounts
    <3>2. QED
      BY <1>1, <2>4, <3>1, KeepsBalance
  <2>8. ClientControl'
    <3>1. I <= J
      BY <1>1, ResponseFound, Lengths
    <3>2. QED
      BY <1>1, <2>1, <2>6, <3>1, ServerSide DEF IInv, ClientControl, serverVars
  <2>9. ToServer'
    <3> SUFFICES ASSUME ~ServerDone PROVE ToServer'
      BY <1>1 DEF ToServer, serverVars
    <3>1. spc = "encrypted" /\ c2s' = <<OTEncrypted(e)>>
      BY <1>1, <2>1, ResponseFound, ShortQueues
    <3>2. (Opens(e))'
      <4>1. Offered' = Append(uiValues, m0) /\ J + 1 = Len(uiValues) + 1 /\ J <= I
        BY <1>1, ResponseFound, Lengths DEF Offered, I
      <4>2. uiValues \in Seq(Mask) /\ m0 \in Mask
        BY <1>1, ResponseFound DEF IInv, ClientTypes
      <4>3. Offered'[J + 1] = m0
        BY <4>1, <4>2
      <4>4. J' = J /\ UNCHANGED <<x, y, key>>
        BY <1>1, ServerSide DEF serverVars
      <4>5. QED
        BY <2>2, <2>6, <4>1, <4>2, <4>3, <4>4 DEF Opens
    <3>3. QED
      BY <1>1, <2>2, <3>1, <3>2 DEF ToServer, serverVars
  <2>10. FromServer'
    BY <1>1, <1>2, ResponseFound DEF FromServer
  <2>11. Stranded'
    BY <1>1, <2>1 DEF IInv, Stranded, ClientControl, serverVars
  <2>12. QED
    BY <1>1, <2>4, <2>5, <2>7, <2>8, <2>9, <2>10, <2>11, ServerSide DEF IInv
<1>7. QED
  BY <1>4, <1>5, <1>6

\* What a client that awaits the share finds.
LEMMA ShareFound ==
  ASSUME IInv, cpc = "shareR", chunks # <<>>
  PROVE  /\ I = K /\ J = K /\ v \in Residue
         /\ chunks = <<MTAShare(v)>> /\ s2c = <<>>
         /\ spc \in {"printShare", IF debugReveal THEN "reveal" ELSE "done", "failed"}
         /\ ~ServerDone => c2s = <<>>
<1>1. /\ J = K /\ v \in Residue
      /\ chunks = <<MTAShare(v)>> /\ s2c = <<>>
      /\ spc \in {"printShare", IF debugReveal THEN "reveal" ELSE "done", "failed"}
  BY DEF IInv, FromServer, Inbound
<1>2. I = K
  BY DEF IInv, ClientControl
<1>3. ~ServerDone => c2s = <<>>
  BY Phases, Queues DEF Phase
<1>4. QED
  BY <1>1, <1>2, <1>3

LEMMA RequestType ==
  ASSUME IInv
  PROVE  DebugRevealRequest(x, ComputeAliceShare(uiValues)) \in Frame
<1>1. x \in Scalar /\ uiValues \in Seq(Mask) /\ Mask \subseteq Nat
  <2>1. x \in Secret /\ uiValues \in Seq(Mask)
    BY DEF IInv, ClientTypes
  <2>2. Scalar \subseteq Nat
    BY OrderAssumption DEF Scalar
  <2>3. QED
    BY <2>1, <2>2, DrawAssumption
<1>2. ComputeAliceShare(uiValues) \in Residue
  BY <1>1, SeqMonotone, ShareTypes
<1>3. QED
  BY <1>1, <1>2, FrameTypes

LEMMA ClientReadShareInv == IInv /\ ClientReadShare => IInv'
<1> SUFFICES ASSUME IInv, ClientReadShare PROVE IInv'
  OBVIOUS
<1>0. PICK f : f = DebugRevealRequest(x, ComputeAliceShare(uiValues))
  OBVIOUS
<1>1. /\ ClientOnly /\ cpc = "shareR" /\ chunks # <<>> /\ chunks' = Tail(chunks)
      /\ UNCHANGED <<x, debugReveal, a, m0, uiValues, clientY, clientVerdict>>
      /\ UNCHANGED <<s2c, ended, serverSide>> /\ UNCHANGED serverVars
  BY DEF ClientReadShare, ClientReads, ClientOnly
<1>2. chunks' = <<>> /\ Head(chunks).type = "MTAShare" /\ Head(chunks).additiveShare = v
  <2>1. chunks = <<MTAShare(v)>>
    BY <1>1, ShareFound
  <2>2. chunks' = <<>> /\ Head(chunks) = MTAShare(v)
    BY <1>1, <2>1, ShortQueues
  <2>3. QED
    BY <2>2 DEF MTAShare
<1>3. clientV' = v /\ v \in Residue /\ I' = I
  BY <1>1, <1>2, ShareFound DEF ClientReadShare, I
<1>4. IF debugReveal THEN ClientWrites(f, "requestW")
                     ELSE cpc' = "done" /\ UNCHANGED <<cerr, c2s>>
  BY <1>0, <1>2 DEF ClientReadShare
<1>5. CASE debugReveal /\ ended
  BY <1>1, <1>3, <1>4, <1>5, FailingWrite, ClientGivesUpInv DEF ClientWrites, ClientFails
<1>6. CASE debugReveal /\ ~ended
  <2>1. /\ cpc' = "requestW" /\ cerr' = cerr /\ c2s' = Append(c2s, f)
    BY <1>4, <1>6 DEF ClientWrites
  <2>2. ConnectionTypes' /\ Sending' = Sending + 1 /\ Arriving' = Arriving - 1
    BY <1>0, <1>1, <2>1, RequestType, ClientQueues
  <2>3. ClientTypes'
    BY <1>1, <1>3, <2>1 DEF IInv, ClientTypes
  <2>4. Balanced'
    <3>1. ClientSent' = ClientSent + 1 /\ ClientTaken' = ClientTaken + 1
      <4>1. ClientSent' = 2 * K + 2 /\ ClientTaken' = K + 1
        BY <2>1 DEF ClientSent, ClientTaken
      <4>2. QED
        BY <1>1, <4>1, Lengths, ClientCounts
    <3>2. QED
      BY <1>1, <2>2, <3>1, KeepsBalance
  <2>5. ClientControl'
    BY <1>1, <1>3, <1>6, <2>1, ServerSide, ShareFound, Lengths
    DEF IInv, ClientControl, serverVars
  <2>6. ToServer'
    <3> SUFFICES ASSUME ~ServerDone PROVE ToServer'
      BY <1>1 DEF ToServer, serverVars
    <3>1. spc \in {"printShare", "reveal"} /\ sessionDebug /\ c2s' = <<f>>
      BY <1>1, <1>6, <2>1, ShareFound, ShortQueues DEF IInv, ServerControl
    <3>2. QED
      BY <1>0, <1>1, <3>1 DEF ToServer, serverVars
  <2>7. FromServer'
    BY <1>1, <1>2, ShareFound DEF FromServer
  <2>8. Stranded'
    BY <1>1, <2>1 DEF IInv, Stranded, ClientControl, serverVars
  <2>9. QED
    BY <1>1, <2>2, <2>3, <2>4, <2>5, <2>6, <2>7, <2>8, ServerSide DEF IInv
<1>7. CASE ~debugReveal
  <2>1. /\ cpc' = "done" /\ cerr' = cerr /\ c2s' = c2s
        /\ spc \in {"printShare", "done", "failed"} /\ (~ServerDone => c2s = <<>>)
    BY <1>1, <1>4, <1>7, ShareFound
  <2>2. ClientTypes'
    BY <1>1, <1>3, <2>1 DEF IInv, ClientTypes
  <2>3. ConnectionTypes'
    BY <1>1, <2>1, ClientQueues
  <2>4. Balanced' /\ FromServer' /\ ToServer'
    BY <1>1, <2>1 DEF Balanced, FromServer, ToServer, serverVars
  <2>5. ClientControl'
    BY <1>1, <1>3, <1>7, <2>1, ServerSide DEF IInv, ClientControl, serverVars
  <2>6. Stranded'
    BY <1>1, <2>1 DEF IInv, Stranded, ClientControl, serverVars
  <2>7. QED
    BY <1>1, <2>2, <2>3, <2>4, <2>5, <2>6, ServerSide DEF IInv
<1>8. QED
  BY <1>5, <1>6, <1>7

LEMMA ClientReadRevealInv == IInv /\ ClientReadReveal => IInv'
<1> SUFFICES ASSUME IInv, ClientReadReveal PROVE IInv'
  OBVIOUS
<1>1. /\ ClientOnly /\ cpc = "revealR" /\ chunks # <<>> /\ chunks' = Tail(chunks)
      /\ UNCHANGED <<x, debugReveal, a, m0, uiValues, clientV, c2s>>
      /\ UNCHANGED serverVars
  BY DEF ClientReadReveal, ClientReads, ClientOnly
<1>2. /\ spc \in {"printVerdict", "done", "failed"} /\ y \in Secret
      /\ chunks = <<DebugRevealResponse(y, verified)>>
  BY <1>1 DEF IInv, FromServer, Inbound
<1>3. debugReveal /\ (~ServerDone => c2s = <<>>)
  <2>1. debugReveal
    BY <1>1 DEF IInv, ClientControl
  <2>2. ~ServerDone => c2s = <<>>
    BY <1>1, <1>2, Phases, Queues DEF Phase
  <2>3. QED
    BY <2>1, <2>2
<1>4. Head(chunks).type = "DebugRevealResponse" /\ Head(chunks).y = y
  BY <1>2, ShortQueues DEF DebugRevealResponse
<1>5. cpc' = "done" /\ cerr' = cerr /\ clientY' = y /\ clientVerdict' \in {"ok", "failed"}
  BY <1>4 DEF ClientReadReveal, VerdictText
<1>6. ClientTypes'
  BY <1>1, <1>2, <1>5 DEF IInv, ClientTypes, Verdict
<1>7. ConnectionTypes'
  BY <1>1, ClientQueues
<1>8. Balanced' /\ FromServer' /\ ToServer' /\ Stranded'
  BY <1>1, <1>2, <1>3, <1>5
  DEF IInv, ClientControl, Balanced, FromServer, ToServer, Stranded, serverVars
<1>9. ClientControl'
  <2>1. I' = I
    BY <1>1 DEF I
  <2>2. QED
    BY <1>1, <1>2, <1>3, <1>5, <2>1, ServerSide DEF IInv, ClientControl, serverVars
<1>10. QED
  BY <1>1, <1>6, <1>7, <1>8, <1>9, ServerSide DEF IInv

\* The ways in which a client comes to its end between its own steps.
LEMMA ClientStopsInv ==
  IInv /\ (ClientExitsSilently \/ ResetArrives \/ ClientKilled) => IInv'
<1> SUFFICES ASSUME IInv, ClientExitsSilently \/ ResetArrives \/ ClientKilled
             PROVE  ClientGivesUp
  BY ClientGivesUpInv
<1>1. /\ cerr = "infinity" => cpc = "failed"
      /\ I <= K
  BY DEF IInv, ClientControl
<1>2. ended => s2c = <<>> /\ ServerDone
  BY DEF IInv, Closing
<1>3. /\ cerr \in {"none", "decode", "infinity", "write after end", "closed", "reset", "killed"}
      /\ a \in Ephemeral \cup {0} /\ m0 \in Mask \cup {0}
      /\ uiValues \in Seq(Mask) /\ clientV \in Residue \cup {None}
  BY DEF IInv, ClientTypes
<1>4. chunks \in Seq(Frame) /\ s2c \in Seq(Frame) /\ ended \in BOOLEAN /\ <<>> \in Seq(Frame)
  BY DEF IInv, ConnectionTypes
<1>5. CASE ClientExitsSilently
  BY <1>1, <1>2, <1>3, <1>4, <1>5 DEF ClientExitsSilently, Awaiting, ClientGivesUp, netVars, I
<1>6. CASE ResetArrives
  BY <1>1, <1>2, <1>3, <1>4, <1>6 DEF ResetArrives, ClientFails, ClientGivesUp, I
<1>7. CASE ClientKilled
  BY <1>1, <1>2, <1>3, <1>4, <1>7 DEF ClientKilled, ClientFails, ClientGivesUp, netVars, I
<1>8. QED
  BY <1>5, <1>6, <1>7
-----------------------------------------------------------------------------
(* The events of the connection.                                           *)

LEMMA TypesKept ==
  ASSUME IInv
  PROVE  /\ UNCHANGED clientVars => ClientTypes'
         /\ UNCHANGED serverVars => ServerTypes'
<1>1. ClientTypes /\ ServerTypes
  BY DEF IInv
<1>2. UNCHANGED clientVars => ClientTypes'
  BY <1>1 DEF ClientTypes, clientVars
<1>3. UNCHANGED serverVars => ServerTypes'
  BY <1>1 DEF ServerTypes, serverVars
<1>4. QED
  BY <1>2, <1>3

LEMMA DataArrivesInv == IInv /\ DataArrives => IInv'
<1> SUFFICES ASSUME IInv, DataArrives PROVE IInv'
  OBVIOUS
<1>1. /\ ~ClientDone /\ ~ended /\ s2c # <<>>
      /\ chunks' = Append(chunks, Head(s2c)) /\ s2c' = Tail(s2c)
      /\ UNCHANGED <<c2s, ended, serverSide>> /\ UNCHANGED clientVars /\ UNCHANGED serverVars
  BY DEF DataArrives
<1>2. PICK f : chunks = <<>> /\ s2c = <<f>> /\ chunks' = <<f>> /\ s2c' = <<>>
  <2>1. PICK f : Inbound(f)
    BY <1>1 DEF IInv, FromServer
  <2>2. chunks = <<>> /\ s2c = <<f>>
    BY <1>1, <2>1 DEF Inbound
  <2>3. QED
    BY <1>1, <2>2, ShortQueues
<1>3. ClientTypes' /\ ServerTypes'
  BY <1>1, TypesKept
<1>4. ConnectionTypes'
  <2>1. s2c \in Seq(Frame) /\ chunks \in Seq(Frame)
    BY DEF IInv, ConnectionTypes
  <2>2. chunks' \in Seq(Frame) /\ s2c' \in Seq(Frame)
    BY <1>1, <2>1, SequenceTypes
  <2>3. QED
    BY <1>1, <2>2 DEF IInv, ConnectionTypes
<1>5. Balanced'
  <2>1. Arriving' = Arriving /\ Sending' = Sending
    BY <1>1, <1>2, ShortQueues DEF Arriving, Sending
  <2>2. /\ ClientSent' = ClientSent /\ ClientTaken' = ClientTaken
        /\ ServerTaken' = ServerTaken /\ ServerSent' = ServerSent
    BY <1>1 DEF ClientSent, ClientTaken, ServerTaken, ServerSent, I, J, clientVars, serverVars
  <2>3. QED
    BY <1>1, <2>1, <2>2 DEF IInv, Balanced, clientVars, serverVars
<1>6. ClientControl' /\ ServerControl' /\ ServerLog'
  BY <1>1 DEF IInv, ClientControl, ServerControl, ServerLog, I, J, clientVars, serverVars
<1>7. Closing' /\ Stranded'
  BY <1>1, <1>2 DEF IInv, Closing, Stranded, clientVars, serverVars
<1>8. ToServer'
  BY <1>1 DEF IInv, ToServer, Opens, Offered, I, J, clientVars, serverVars
<1>9. FromServer'
  <2>1. \A g : Inbound(g) => g = f
    BY <1>2, ShortQueues DEF Inbound
  <2>2. \A g : Inbound(g) => (Inbound(g))'
    BY <1>2, <2>1 DEF Inbound
  <2>3. Choice' = Choice /\ I' = I /\ J' = J
    BY <1>1 DEF Choice, I, J, clientVars, serverVars
  <2>4. QED
    BY <1>1, <1>2, <2>2, <2>3 DEF IInv, FromServer, Inbound, clientVars, serverVars
<1>10. QED
  BY <1>3, <1>4, <1>5, <1>6, <1>7, <1>8, <1>9 DEF IInv

LEMMA EndArrivesInv == IInv /\ EndArrives => IInv'
<1> SUFFICES ASSUME IInv, EndArrives PROVE IInv'
  OBVIOUS
<1>1. /\ ~ClientDone /\ ~ended /\ s2c = <<>> /\ serverSide = "fin" /\ ended' = TRUE
      /\ UNCHANGED <<x, debugReveal, a, m0, uiValues, clientV, clientY, clientVerdict>>
      /\ UNCHANGED <<c2s, s2c, chunks, serverSide>> /\ UNCHANGED serverVars
      /\ \/ cpc' = "failed" /\ cerr' = "closed"
         \/ UNCHANGED <<cpc, cerr>>
  BY DEF EndArrives, ClientFails
<1>2. ServerDone
  BY <1>1 DEF IInv, Closing
<1>3. CASE cpc' = "failed" /\ cerr' = "closed"
  <2>1. ClientGivesUp
    BY <1>1, <1>2, <1>3
    DEF ClientGivesUp, IInv, ClientTypes, ConnectionTypes, ClientControl, I
  <2>2. QED
    BY <2>1, ClientGivesUpInv
<1>4. CASE UNCHANGED <<cpc, cerr>>
  <2>1. ClientTypes' /\ ServerTypes'
    BY <1>1, <1>4, TypesKept DEF clientVars
  <2>2. ConnectionTypes'
    <3>1. ended' \in BOOLEAN
      BY <1>1
    <3>2. QED
      BY <1>1, <3>1 DEF IInv, ConnectionTypes
  <2>3. Balanced'
    BY <1>1, <1>4 DEF IInv, Balanced, ClientSent, ClientTaken, ServerTaken, ServerSent,
                      Sending, Arriving, I, J, serverVars
  <2>4. ClientControl' /\ ServerControl' /\ ServerLog'
    BY <1>1, <1>4 DEF IInv, ClientControl, ServerControl, ServerLog, I, J, serverVars
  <2>5. Closing' /\ Stranded' /\ ToServer'
    BY <1>1, <1>2, <1>4 DEF IInv, Closing, Stranded, ToServer, serverVars
  <2>6. FromServer'
    BY <1>1, <1>4 DEF IInv, FromServer, Inbound, Choice, I, J, serverVars
  <2>7. QED
    BY <2>1, <2>2, <2>3, <2>4, <2>5, <2>6 DEF IInv
<1>5. QED
  BY <1>1, <1>3, <1>4

LEMMA LateFrameResetInv == IInv /\ LateFrameReset => IInv'
<1> SUFFICES ASSUME IInv, LateFrameReset PROVE IInv'
  OBVIOUS
<1>1. /\ serverSide = "fin" /\ c2s # <<>> /\ serverSide' = "rst" /\ c2s' = <<>>
      /\ UNCHANGED <<s2c, chunks, ended>> /\ UNCHANGED clientVars /\ UNCHANGED serverVars
  BY DEF LateFrameReset
<1>2. ServerDone
  BY <1>1 DEF IInv, Closing
<1>3. ClientDone \/ spc = "failed"
  BY <1>1, <1>2, Phases, Queues DEF Phase
<1>4. ClientTypes' /\ ServerTypes'
  BY <1>1, TypesKept
<1>5. ConnectionTypes'
  BY <1>1 DEF IInv, ConnectionTypes
<1>6. Balanced'
  BY <1>1, <1>3 DEF Balanced, clientVars, serverVars
<1>7. ClientControl' /\ ServerControl' /\ ServerLog'
  BY <1>1 DEF IInv, ClientControl, ServerControl, ServerLog, I, J, clientVars, serverVars
<1>8. Closing' /\ Stranded' /\ ToServer'
  BY <1>1, <1>2, <1>3 DEF IInv, Closing, Stranded, ToServer, clientVars, serverVars
<1>9. FromServer'
  BY <1>1 DEF IInv, FromServer, Inbound, Choice, I, J, clientVars, serverVars
<1>10. QED
  BY <1>4, <1>5, <1>6, <1>7, <1>8, <1>9 DEF IInv
-----------------------------------------------------------------------------
(* The steps of the server.                                                *)

\* What a step of the server leaves alone.
ServerOnly == ~ServerDone /\ UNCHANGED clientVars /\ UNCHANGED <<chunks, ended>>

LEMMA ClientSide ==
  ASSUME IInv, ServerOnly
  PROVE  /\ ClientTypes' /\ ClientSent' = ClientSent /\ ClientTaken' = ClientTaken
         /\ I' = I /\ ~ended
<1>1. ~ended
  BY DEF IInv, Closing, ServerOnly
<1>2. ClientSent' = ClientSent /\ ClientTaken' = ClientTaken /\ I' = I
  BY DEF ClientSent, ClientTaken, I, clientVars, ServerOnly
<1>3. QED
  BY <1>1, <1>2, TypesKept DEF ServerOnly

LEMMA ServerQueues ==
  ASSUME IInv, ServerOnly, serverSide' \in {"open", "fin", "rst"},
         \/ c2s' = c2s
         \/ c2s # <<>> /\ c2s' = Tail(c2s),
         \/ s2c' = s2c
         \/ \E f \in Frame : s2c' = Append(s2c, f)
  PROVE  /\ ConnectionTypes'
         /\ c2s' = c2s => Sending' = Sending
         /\ c2s # <<>> /\ c2s' = Tail(c2s) => Sending' = Sending - 1
         /\ s2c' = s2c => Arriving' = Arriving
         /\ \A f \in Frame : s2c' = Append(s2c, f) => Arriving' = Arriving + 1
<1>1. /\ c2s \in Seq(Frame) /\ s2c \in Seq(Frame) /\ chunks \in Seq(Frame)
      /\ chunks' = chunks /\ ended' = ended /\ ended \in BOOLEAN
  BY DEF IInv, ConnectionTypes, ServerOnly
<1>2. c2s' \in Seq(Frame)
  BY <1>1, SequenceTypes
<1>3. s2c' \in Seq(Frame)
  <2>1. \A f \in Frame : Append(s2c, f) \in Seq(Frame)
    BY <1>1
  <2>2. QED
    BY <1>1, <2>1
<1>4. ConnectionTypes'
  BY <1>1, <1>2, <1>3 DEF ConnectionTypes
<1>5. c2s # <<>> /\ c2s' = Tail(c2s) => Sending' = Sending - 1
  BY <1>1, SequenceTypes DEF Sending
<1>6. \A f \in Frame : s2c' = Append(s2c, f) => Arriving' = Arriving + 1
  <2>1. Len(s2c) \in Nat /\ Len(chunks) \in Nat
    BY <1>1
  <2>2. \A f \in Frame : Len(Append(s2c, f)) = Len(s2c) + 1
    BY <1>1
  <2>3. QED
    BY <1>1, <2>1, <2>2 DEF Arriving
<1>7. QED
  BY <1>1, <1>4, <1>5, <1>6 DEF Sending, Arriving

LEMMA ServerKeepsBalance ==
  ASSUME IInv, ServerOnly,
         \/ ServerTaken' = ServerTaken /\ Sending' = Sending
         \/ ServerTaken' = ServerTaken + 1 /\ Sending' = Sending - 1,
         \/ ServerSent' = ServerSent /\ Arriving' = Arriving
         \/ ServerSent' = ServerSent + 1 /\ Arriving' = Arriving + 1
  PROVE  Balanced'
<1> SUFFICES ASSUME ~ClientDone
             PROVE  /\ ClientSent' = ServerTaken' + Sending'
                    /\ ServerSent' = ClientTaken' + Arriving'
  BY DEF Balanced, ServerOnly, clientVars
<1>1. spc # "failed"
  BY DEF ServerOnly
<1>2. /\ ClientSent = ServerTaken + Sending /\ ServerSent = ClientTaken + Arriving
      /\ Sending \in Nat /\ Arriving \in Nat
  BY <1>1, Balance
<1>3. ServerTaken \in Int /\ ServerSent \in Int /\ ClientTaken \in Int
  BY <1>1, Balance, ServerCounts, ClientCounts
<1>4. ClientSent' = ClientSent /\ ClientTaken' = ClientTaken
  BY ClientSide
<1>5. QED
  BY <1>2, <1>3, <1>4

\* The ways in which a server comes to its end between its own steps.
LEMMA ServerStopsInv == IInv /\ (ServerReceiveFails \/ ServerKilled) => IInv'
<1> SUFFICES ASSUME IInv, ServerReceiveFails \/ ServerKilled PROVE ServerGivesUp
  BY ServerGivesUpInv
<1>1. /\ b \in Ephemeral \cup {0} /\ key \in Word \cup {None} /\ v \in Residue \cup {None}
      /\ verified \in BOOLEAN
  BY DEF IInv, ServerTypes
<1>2. c2s \in Seq(Frame) /\ <<>> \in Seq(Frame)
  BY DEF IInv, ConnectionTypes
<1>3. CASE ServerReceiveFails
  BY <1>1, <1>2, <1>3 DEF ServerReceiveFails, ServerFails, ServerCloses, ServerGivesUp
<1>4. CASE ServerKilled
  BY <1>1, <1>2, <1>4 DEF ServerKilled, ServerFails, ServerCloses, ServerGivesUp
<1>5. QED
  BY <1>3, <1>4

LEMMA ServerReadConfigInv == IInv /\ ServerReadConfig => IInv'
<1> SUFFICES ASSUME IInv, ServerReadConfig PROVE IInv'
  OBVIOUS
<1>1. /\ ServerOnly /\ spc = "config" /\ c2s # <<>> /\ s2c' = s2c
      /\ UNCHANGED <<b, key, mcValues, v, verified, printedV, serverVerdict>>
  BY DEF ServerReadConfig, ServerOnly
<1>2. \/ c2s = <<SessionConfig(debugReveal)>>
      \/ a \in Ephemeral /\ c2s = <<SessionConfig(debugReveal), OTInit(MulG(a), 0)>>
  BY <1>1 DEF IInv, ToServer
<1>3. Head(c2s) = SessionConfig(debugReveal)
  BY <1>2, ShortQueues
<1>4. /\ sessionDebug' = debugReveal /\ y' \in Secret /\ spc' = "init"
      /\ c2s' = Tail(c2s) /\ UNCHANGED <<serr, serverSide>>
  BY <1>3 DEF ServerReadConfig, SessionConfig
<1>5. J' = J /\ J = 0
  BY <1>1 DEF IInv, ServerControl, J
<1>6. serverSide \in {"open", "fin", "rst"}
  BY DEF IInv, ConnectionTypes
<1>7. ConnectionTypes' /\ Sending' = Sending - 1 /\ Arriving' = Arriving
  BY <1>1, <1>4, <1>6, ServerQueues
<1>8. ServerTypes'
  <2>1. debugReveal \in BOOLEAN
    BY DEF IInv, ClientTypes
  <2>2. QED
    BY <1>1, <1>4, <2>1 DEF IInv, ServerTypes
<1>9. Balanced'
  <2>1. ServerTaken' = 1 /\ ServerSent' = 0
    BY <1>4, <1>5 DEF ServerTaken, ServerSent
  <2>2. ServerTaken = 0 /\ ServerSent = 0
    BY <1>1, <1>5 DEF ServerTaken, ServerSent
  <2>3. QED
    BY <1>1, <1>7, <2>1, <2>2, ServerKeepsBalance
<1>10. ClientControl'
  BY <1>1, <1>4, <1>5, ClientSide DEF IInv, ClientControl, ServerOnly, clientVars
<1>11. ServerControl'
  <2>1. serr # "infinity"
    BY <1>1 DEF IInv, ServerControl
  <2>2. QED
    BY <1>1, <1>4, <1>5, <2>1, KPositive DEF ServerControl, ServerOnly, clientVars
<1>17. ServerLog'
  BY <1>1, <1>4 DEF IInv, ServerLog
<1>12. Closing'
  BY <1>1, <1>4 DEF IInv, Closing, ServerOnly
<1>13. ToServer'
  <2>1. c2s' = <<>> \/ (a \in Ephemeral /\ c2s' = <<OTInit(MulG(a), J')>>)
    BY <1>2, <1>4, <1>5, ShortQueues
  <2>2. QED
    BY <1>1, <1>4, <2>1 DEF ToServer, ServerOnly, clientVars
<1>14. FromServer'
  <2>1. ~ClientDone => chunks = <<>> /\ s2c = <<>>
    BY <1>1, Phases, Queues DEF Phase
  <2>2. QED
    BY <1>1, <2>1 DEF FromServer, ServerOnly, clientVars
<1>15. Stranded'
  BY <1>1, <1>4 DEF IInv, Stranded, ServerControl, ServerOnly, clientVars
<1>16. QED
  BY <1>1, <1>7, <1>8, <1>9, <1>10, <1>11, <1>12, <1>13, <1>14, <1>15, <1>17, ClientSide
  DEF IInv

\* What a server that awaits OTInit finds, and where the client is then.
LEMMA InitFound ==
  ASSUME IInv, spc = "init", c2s # <<>>
  PROVE  /\ a \in Ephemeral /\ y \in Secret /\ J < K
         /\ c2s = <<OTInit(MulG(a), J)>> /\ MulG(a) \in Point
         /\ ~ClientDone => /\ cpc \in {"initW", "responseR"} /\ J = I
                           /\ chunks = <<>> /\ s2c = <<>>
<1>1. a \in Ephemeral /\ c2s = <<OTInit(MulG(a), J)>>
  BY DEF IInv, ToServer
<1>2. y \in Secret /\ J < K
  BY DEF IInv, ServerControl
<1>3. ~ClientDone => /\ cpc \in {"initW", "responseR"} /\ J = I
                     /\ chunks = <<>> /\ s2c = <<>>
  BY Phases, Queues DEF Phase
<1>4. MulG(a) \in Point
  BY <1>1, PointTypes, DrawAssumption
<1>5. QED
  BY <1>1, <1>2, <1>3, <1>4

LEMMA ServerReadInitInv == IInv /\ ServerReadInit => IInv'
<1> SUFFICES ASSUME IInv, ServerReadInit PROVE IInv'
  OBVIOUS
<1>1. /\ ServerOnly /\ spc = "init" /\ c2s # <<>>
      /\ UNCHANGED <<y, sessionDebug, mcValues, v, verified, printedV, serverVerdict>>
  BY DEF ServerReadInit, ServerOnly
<1>2. /\ Head(c2s).type = "OTInit" /\ Head(c2s).bitIndex = J /\ Head(c2s).pointA = MulG(a)
      /\ Tail(c2s) = <<>>
  <2>1. Head(c2s) = OTInit(MulG(a), J) /\ Tail(c2s) = <<>>
    BY <1>1, InitFound, ShortQueues
  <2>2. QED
    BY <2>1 DEF OTInit
<1>3. PICK rb \in Ephemeral :
        LET B == BobPoint(GetBit(y, J), rb, MulG(a)) IN
        /\ b' = rb /\ key' = BobKey(rb, MulG(a))
        /\ IF B = Infinity
           THEN ServerFails("infinity", <<>>) /\ UNCHANGED s2c
           ELSE ServerWrites(OTResponse(B), "encrypted", <<>>)
  BY <1>2 DEF ServerReadInit, J
<1>4. PICK B : B = BobPoint(GetBit(y, J), rb, MulG(a))
  OBVIOUS
<1>5. /\ b' = rb /\ key' = BobKey(rb, MulG(a))
      /\ \/ B = Infinity /\ ServerFails("infinity", <<>>) /\ UNCHANGED s2c
         \/ B # Infinity /\ ClientDone /\ ServerFails("send", <<>>) /\ UNCHANGED s2c
         \/ /\ B # Infinity /\ spc' = "encrypted" /\ s2c' = Append(s2c, OTResponse(B))
            /\ UNCHANGED <<serr, serverSide>> /\ c2s' = <<>>
  BY <1>3, <1>4 DEF ServerWrites
<1>6. key' \in Word
  <2>1. rb \in Scalar /\ MulG(a) \in Point
    BY <1>1, InitFound, DrawAssumption
  <2>2. QED
    BY <1>5, <2>1, KeyType, PointTypes DEF BobKey
<1>7. <<>> \in Seq(Frame) /\ v \in Residue \cup {None} /\ verified \in BOOLEAN
  <2>1. v \in Residue \cup {None} /\ verified \in BOOLEAN
    BY DEF IInv, ServerTypes
  <2>2. QED
    BY <2>1
<1>8. CASE spc' = "failed" /\ s2c' = s2c
  <2>1. /\ c2s' = <<>> /\ serverSide' = "fin"
        /\ \/ serr' = "infinity"
           \/ serr' = "send"
    BY <1>1, <1>5, <1>8 DEF ServerFails, ServerCloses
  <2>2. ServerGivesUp
    BY <1>1, <1>5, <1>6, <1>7, <1>8, <2>1, InitFound DEF ServerGivesUp, ServerOnly
  <2>3. QED
    BY <2>2, ServerGivesUpInv
<1>9. CASE /\ B # Infinity /\ spc' = "encrypted" /\ s2c' = Append(s2c, OTResponse(B))
           /\ UNCHANGED <<serr, serverSide>> /\ c2s' = <<>>
  <2>1. B \in Point
    <3>1. MulG(a) \in Point /\ MulG(rb) \in Point /\ GetBit(y, J) \in {0, 1}
      BY <1>1, InitFound, PointTypes, DrawAssumption, ChoiceBit
    <3>2. QED
      BY <1>4, <1>9, <3>1, PointTypes DEF BobPoint
  <2>2. J' = J /\ c2s' = Tail(c2s) /\ OTResponse(B) \in Frame
    BY <1>1, <1>2, <1>9, <2>1, FrameTypes DEF J
  <2>3. serverSide \in {"open", "fin", "rst"}
    BY DEF IInv, ConnectionTypes
  <2>4. ConnectionTypes' /\ Sending' = Sending - 1 /\ Arriving' = Arriving + 1
    BY <1>1, <1>9, <2>2, <2>3, ServerQueues
  <2>5. ServerTypes'
    BY <1>1, <1>5, <1>6, <1>9 DEF IInv, ServerTypes
  <2>6. Balanced'
    <3>1. ServerTaken' = 2 * J + 2 /\ ServerSent' = J + 1
      BY <1>9, <2>2 DEF ServerTaken, ServerSent
    <3>2. ServerTaken' = ServerTaken + 1 /\ ServerSent' = ServerSent + 1
      BY <1>1, <3>1, Lengths, ServerCounts
    <3>3. QED
      BY <1>1, <2>4, <3>2, ServerKeepsBalance
  <2>7. ClientControl'
    BY <1>1, <1>9, <2>2, ClientSide DEF IInv, ClientControl, clientVars, ServerOnly
  <2>8. ServerControl'
    BY <1>1, <1>6, <1>9, <2>2, InitFound DEF IInv, ServerControl, clientVars, ServerOnly
  <2>14. ServerLog'
    BY <1>1, <1>9 DEF IInv, ServerLog
  <2>9. Closing'
    BY <1>1, <1>9 DEF IInv, Closing, ServerOnly
  <2>10. ToServer'
    BY <1>9 DEF ToServer
  <2>11. FromServer'
    <3> SUFFICES ASSUME ~ClientDone PROVE FromServer'
      BY <1>1 DEF FromServer, ServerOnly, clientVars
    <3>1. /\ cpc \in {"initW", "responseR"} /\ J = I
          /\ chunks = <<>> /\ s2c = <<>> /\ y \in Secret
      BY <1>1, InitFound
    <3>2. chunks' = <<>> /\ s2c' = <<OTResponse(B)>>
      BY <1>1, <1>9, <3>1, ShortQueues DEF ServerOnly
    <3>3. Choice' = B
      BY <1>1, <1>4, <1>5, <2>2 DEF Choice, ServerOnly, clientVars
    <3>4. b' \in Ephemeral /\ key' = BobKey(b', MulG(a')) /\ a' = a
      BY <1>1, <1>5 DEF ServerOnly, clientVars
    <3>5. /\ cpc' \in {"initW", "responseR"} /\ J' = I' /\ y' \in Secret
      BY <1>1, <2>2, <3>1, ClientSide DEF ServerOnly, clientVars
    <3>6. (Inbound(OTResponse(Choice)))'
      BY <3>2, <3>3 DEF Inbound
    <3>7. QED
      BY <1>9, <2>1, <3>3, <3>4, <3>5, <3>6 DEF FromServer
  <2>12. Stranded'
    BY <1>1, <1>9 DEF IInv, Stranded, ServerControl, ServerOnly, clientVars
  <2>13. QED
    BY <1>1, <2>4, <2>5, <2>6, <2>7, <2>8, <2>9, <2>10, <2>11, <2>12, <2>14, ClientSide
    DEF IInv
<1>10. QED
  BY <1>5, <1>8, <1>9 DEF ServerFails

\* What a server that awaits OTEncrypted finds, and where the client is then.
LEMMA EncryptedFound ==
  ASSUME IInv, spc = "encrypted", c2s # <<>>
  PROVE  /\ y \in Secret /\ y # 0 /\ J < K /\ key \in Word
         /\ \E e \in [m0 : Word, m1 : Word] :
              /\ Opens(e)
              /\ \/ c2s = <<OTEncrypted(e)>>
                 \/ /\ J + 1 < K /\ a \in Ephemeral
                    /\ c2s = <<OTEncrypted(e), OTInit(MulG(a), J + 1)>>
         /\ ~ClientDone => /\ cpc \in {"initW", "responseR", "encryptedW", "shareR"}
                           /\ cpc = "encryptedW" => I = J
                           /\ chunks = <<>> /\ s2c = <<>>
<1>1. y \in Secret /\ J < K /\ key \in Word
  BY DEF IInv, ServerControl
<1>2. y # 0
  BY <1>1, DrawAssumption DEF Scalar
<1>3. ~ClientDone => /\ cpc \in {"initW", "responseR", "encryptedW", "shareR"}
                     /\ cpc = "encryptedW" => I = J
                     /\ chunks = <<>> /\ s2c = <<>>
  BY Phases, Queues DEF Phase
<1>4. \E e \in [m0 : Word, m1 : Word] :
              /\ Opens(e)
              /\ \/ c2s = <<OTEncrypted(e)>>
                 \/ /\ J + 1 < K /\ a \in Ephemeral
                    /\ c2s = <<OTEncrypted(e), OTInit(MulG(a), J + 1)>>
  BY DEF IInv, ToServer
<1>5. QED
  BY <1>1, <1>2, <1>3, <1>4

\* What is decrypted: the mask of the server's round plus the bit's multiple of x.
LEMMA Decrypted ==
  ASSUME IInv, ServerReadEncrypted
  PROVE  /\ spc = "encrypted" /\ c2s # <<>> /\ J <= I /\ Offered[J + 1] \in Mask
         /\ mcValues' = Append(mcValues, (Offered[J + 1] + GetBit(y, J) * x) % N)
         /\ (Offered[J + 1] + GetBit(y, J) * x) % N \in Residue
         /\ J' = J + 1
         /\ spc' = IF J + 1 < K THEN "init" ELSE "share"
         /\ c2s' = Tail(c2s) /\ UNCHANGED <<serr, serverSide>>
<1>1. spc = "encrypted" /\ c2s # <<>>
  BY DEF ServerReadEncrypted
<1>2. PICK e \in [m0 : Word, m1 : Word] : Opens(e) /\ Head(c2s) = OTEncrypted(e)
  BY <1>1, EncryptedFound, ShortQueues
<1>3. /\ mcValues' = Append(mcValues, BobDecrypt(GetBit(y, J), key, OTEncrypted(e)))
      /\ spc' = IF J + 1 < K THEN "init" ELSE "share"
      /\ c2s' = Tail(c2s) /\ UNCHANGED <<serr, serverSide>>
  BY <1>2 DEF ServerReadEncrypted, OTEncrypted, J
<1>4. BobDecrypt(GetBit(y, J), key, OTEncrypted(e)) = BobDecrypt(GetBit(y, J), key, e)
  BY DEF BobDecrypt, OTEncrypted
<1>5. (Offered[J + 1] + GetBit(y, J) * x) % N \in Residue
  <2>1. x \in Scalar /\ Offered[J + 1] \in Scalar /\ GetBit(y, J) \in {0, 1}
    BY <1>1, <1>2, EncryptedFound, ChoiceBit, DrawAssumption DEF IInv, ClientTypes, Opens
  <2>2. Offered[J + 1] + GetBit(y, J) * x \in Int
    BY <2>1, OrderAssumption DEF Scalar
  <2>3. QED
    BY <2>2, DivMod, OrderAssumption DEF Residue
<1>6. J' = J + 1
  <2>1. /\ mcValues' = Append(mcValues, (Offered[J + 1] + GetBit(y, J) * x) % N)
        /\ (Offered[J + 1] + GetBit(y, J) * x) % N \in Word
    BY <1>2, <1>3, <1>4, <1>5, KeyAssumption DEF Opens
  <2>2. mcValues \in Seq(Word)
    BY DEF IInv, ServerTypes
  <2>3. QED
    BY <2>1, <2>2, SequenceTypes DEF J
<1>7. QED
  BY <1>1, <1>2, <1>3, <1>4, <1>5, <1>6 DEF Opens

LEMMA ServerReadEncryptedInv == IInv /\ ServerReadEncrypted => IInv'
<1> SUFFICES ASSUME IInv, ServerReadEncrypted PROVE IInv'
  OBVIOUS
<1>0. PICK mc : mc = (Offered[J + 1] + GetBit(y, J) * x) % N
  OBVIOUS
<1>1. /\ ServerOnly /\ spc = "encrypted" /\ c2s # <<>> /\ s2c' = s2c
      /\ UNCHANGED <<y, sessionDebug, b, key, v, verified, printedV, serverVerdict>>
  BY DEF ServerReadEncrypted, ServerOnly
<1>2. /\ mcValues' = Append(mcValues, mc) /\ mc \in Residue /\ J' = J + 1
      /\ spc' = IF J + 1 < K THEN "init" ELSE "share"
      /\ c2s' = Tail(c2s) /\ UNCHANGED <<serr, serverSide>>
  BY <1>0, Decrypted
<1>3. /\ y \in Secret /\ y # 0 /\ J < K /\ J \in Nat /\ I \in Nat
      /\ ~ClientDone => /\ cpc \in {"initW", "responseR", "encryptedW", "shareR"}
                        /\ cpc = "encryptedW" => I = J
                        /\ chunks = <<>> /\ s2c = <<>>
  BY <1>1, EncryptedFound, Lengths
<1>4. UNCHANGED clientVars /\ UNCHANGED <<chunks, ended>> /\ ~ServerDone
  BY <1>1 DEF ServerOnly
<1>5. serverSide \in {"open", "fin", "rst"}
  BY DEF IInv, ConnectionTypes
<1>6. ConnectionTypes' /\ Sending' = Sending - 1 /\ Arriving' = Arriving
  BY <1>1, <1>2, <1>5, ServerQueues
<1>7. ServerTypes'
  <2>1. mcValues' \in Seq(Word)
    <3>1. mcValues \in Seq(Word) /\ mc \in Word
      BY <1>2, KeyAssumption DEF IInv, ServerTypes
    <3>2. QED
      BY <1>2, <3>1, SequenceTypes
  <2>2. QED
    BY <1>1, <1>2, <2>1 DEF IInv, ServerTypes
<1>8. Balanced'
  <2>1. ServerTaken' = 2 * J + 3 /\ ServerSent' = J + 1
    <3>1. CASE J + 1 < K
      BY <1>2, <1>3, <3>1 DEF ServerTaken, ServerSent
    <3>2. CASE ~(J + 1 < K)
      <4>1. J + 1 = K
        BY <1>3, <3>2, KPositive
      <4>2. spc' = "share"
        BY <1>2, <3>2
      <4>3. ServerTaken' = 2 * K + 1 /\ ServerSent' = K
        BY <4>2 DEF ServerTaken, ServerSent
      <4>4. QED
        BY <1>3, <4>1, <4>3
    <3>3. QED
      BY <3>1, <3>2
  <2>2. ServerTaken' = ServerTaken + 1 /\ ServerSent' = ServerSent
    BY <1>1, <1>3, <2>1, ServerCounts
  <2>3. QED
    BY <1>1, <1>6, <2>2, ServerKeepsBalance
<1>9. ClientControl'
  <2>1. I' = I
    BY <1>1, ClientSide
  <2>2. cpc # "done"
    BY <1>1 DEF IInv, ClientControl
  <2>3. QED
    BY <1>1, <1>2, <1>3, <1>4, <2>1, <2>2 DEF IInv, ClientControl, clientVars
<1>10. ServerControl'
  BY <1>1, <1>2, <1>3, <1>4, KPositive DEF IInv, ServerControl, clientVars
<1>16. ServerLog'
  BY <1>1, <1>2 DEF IInv, ServerLog
<1>11. Closing'
  BY <1>1, <1>2, <1>4 DEF IInv, Closing
<1>12. ToServer'
  <2>1. PICK e \in [m0 : Word, m1 : Word] :
              \/ c2s = <<OTEncrypted(e)>>
              \/ /\ J + 1 < K /\ a \in Ephemeral
                 /\ c2s = <<OTEncrypted(e), OTInit(MulG(a), J + 1)>>
    BY <1>1, EncryptedFound
  <2>2. \/ c2s' = <<>>
        \/ spc' = "init" /\ a \in Ephemeral /\ c2s' = <<OTInit(MulG(a), J + 1)>>
    BY <1>2, <2>1, ShortQueues
  <2>3. QED
    BY <1>2, <1>4, <2>2 DEF ToServer, clientVars
<1>13. FromServer'
  BY <1>1, <1>3, <1>4 DEF FromServer, clientVars
<1>14. Stranded'
  BY <1>1, <1>2, <1>4 DEF IInv, Stranded, ServerControl, clientVars
<1>15. QED
  BY <1>1, <1>6, <1>7, <1>8, <1>9, <1>10, <1>11, <1>12, <1>13, <1>14, <1>16, ClientSide
  DEF IInv

LEMMA ServerSendShareInv == IInv /\ ServerSendShare => IInv'
<1> SUFFICES ASSUME IInv, ServerSendShare PROVE IInv'
  OBVIOUS
<1>1. /\ ServerOnly /\ spc = "share"
      /\ UNCHANGED <<y, sessionDebug, b, key, mcValues, verified, printedV, serverVerdict>>
  BY DEF ServerSendShare, ServerOnly
<1>2. PICK share \in Residue :
        v' = share /\ ServerWrites(MTAShare(share), "printShare", c2s)
  <2>1. mcValues \in Seq(Nat)
    BY SeqMonotone, KeyAssumption DEF IInv, ServerTypes
  <2>2. \A g \in Garbage : CppComputeBobShare(mcValues, g) \in Residue
    BY <2>1, CppComputeBobShareType, DrawAssumption
  <2>3. QED
    BY <2>2 DEF ServerSendShare
<1>3. /\ y \in Secret /\ J = K /\ J' = J /\ c2s = <<>> /\ serr # "infinity"
      /\ sessionDebug = debugReveal
  BY <1>1 DEF IInv, ServerControl, ToServer, J
<1>4. CASE ClientDone /\ ServerFails("send", c2s) /\ UNCHANGED s2c
  <2>1. /\ c2s' = c2s /\ c2s' \in Seq(Frame) /\ serverSide' \in {"fin", "rst"}
    BY <1>4 DEF ServerFails, ServerCloses, IInv, ConnectionTypes
  <2>2. b \in Ephemeral \cup {0} /\ key \in Word \cup {None} /\ verified \in BOOLEAN
    BY DEF IInv, ServerTypes
  <2>3. ServerGivesUp
    BY <1>1, <1>2, <1>4, <2>1, <2>2 DEF ServerGivesUp, ServerOnly, ServerFails
  <2>4. QED
    BY <2>3, ServerGivesUpInv
<1>5. CASE ~(ClientDone /\ ServerFails("send", c2s) /\ UNCHANGED s2c)
  <2>1. /\ s2c' = Append(s2c, MTAShare(share)) /\ serr' = serr /\ c2s' = c2s
        /\ spc' = "printShare" /\ serverSide' = serverSide
    BY <1>2, <1>3, <1>5 DEF ServerWrites
  <2>2. UNCHANGED clientVars /\ UNCHANGED <<chunks, ended>> /\ ~ServerDone
    BY <1>1 DEF ServerOnly
  <2>3. ~ClientDone => /\ (cpc = "encryptedW" /\ I + 1 = K) \/ cpc = "shareR"
                       /\ chunks = <<>> /\ s2c = <<>>
    BY <1>1, Phases, Queues DEF Phase
  <2>4. MTAShare(share) \in Frame /\ serverSide \in {"open", "fin", "rst"}
    BY FrameTypes DEF IInv, ConnectionTypes
  <2>5. ConnectionTypes' /\ Sending' = Sending /\ Arriving' = Arriving + 1
    BY <1>1, <2>1, <2>4, ServerQueues
  <2>6. ServerTypes'
    BY <1>1, <1>2, <2>1 DEF IInv, ServerTypes
  <2>7. Balanced'
    <3>1. ServerTaken' = 2 * K + 1 /\ ServerSent' = K + 1
      BY <1>1, <2>1 DEF ServerTaken, ServerSent
    <3>2. ServerTaken' = ServerTaken /\ ServerSent' = ServerSent + 1
      BY <1>1, <3>1, KPositive, ServerCounts
    <3>3. QED
      BY <1>1, <2>5, <3>2, ServerKeepsBalance
  <2>8. ClientControl'
    <3>1. I' = I
      BY <1>1, ClientSide
    <3>2. cpc # "done"
      BY <1>1 DEF IInv, ClientControl
    <3>3. QED
      BY <1>1, <1>3, <2>2, <2>3, <3>1, <3>2 DEF IInv, ClientControl, clientVars
  <2>9. ServerControl'
    <3>1. y # 0
      BY <1>3, DrawAssumption DEF Scalar
    <3>2. QED
      BY <1>1, <1>2, <1>3, <2>1, <2>2, <3>1, KPositive DEF IInv, ServerControl, clientVars
  <2>15. ServerLog'
    BY <1>1, <2>1 DEF IInv, ServerLog
  <2>10. Closing'
    BY <1>1, <2>1, <2>2, ClientSide DEF IInv, Closing
  <2>11. ToServer'
    BY <1>3, <2>1 DEF ToServer
  <2>12. FromServer'
    <3> SUFFICES ASSUME ~ClientDone PROVE FromServer'
      BY <2>2 DEF FromServer, clientVars
    <3>1. chunks' = <<>> /\ s2c' = <<MTAShare(share)>>
      BY <2>1, <2>2, <2>3, ShortQueues
    <3>2. (Inbound(MTAShare(v)))'
      BY <1>2, <3>1 DEF Inbound
    <3>3. /\ cpc' \in {"encryptedW", "shareR"} /\ (cpc' = "encryptedW" => I' + 1 = K)
          /\ J' = K /\ v' \in Residue
      BY <1>1, <1>2, <1>3, <2>2, <2>3, ClientSide DEF clientVars
    <3>4. QED
      BY <2>1, <3>2, <3>3 DEF FromServer
  <2>13. Stranded'
    BY <1>1, <1>3, <2>1, <2>2 DEF IInv, Stranded, clientVars
  <2>14. QED
    BY <1>1, <2>5, <2>6, <2>7, <2>8, <2>9, <2>10, <2>11, <2>12, <2>13, <2>15, ClientSide
    DEF IInv
<1>6. QED
  BY <1>4, <1>5

\* A line of the log, after which the server waits for DebugRevealRequest or closes.
ServerPrints ==
  /\ ServerOnly /\ UNCHANGED <<y, sessionDebug, b, key, mcValues, v, verified, serr, c2s, s2c>>
  /\ \/ /\ spc = "printShare" /\ sessionDebug /\ spc' = "reveal" /\ printedV' = v
        /\ UNCHANGED <<serverSide, serverVerdict>>
     \/ /\ spc = "printShare" /\ ~sessionDebug /\ spc' = "done" /\ printedV' = v
        /\ c2s = <<>> /\ serverSide' = "fin" /\ UNCHANGED serverVerdict
     \/ /\ spc = "printVerdict" /\ spc' = "done" /\ serverVerdict' = VerdictText(verified)
        /\ c2s = <<>> /\ serverSide' = "fin" /\ UNCHANGED printedV

LEMMA ServerPrintsCases ==
  ASSUME IInv, ServerPrintShare \/ ServerPrintVerdict
  PROVE  ServerPrints
<1>1. CASE ServerPrintShare
  <2>1. ~sessionDebug => c2s = <<>>
    BY <1>1 DEF ServerPrintShare, IInv, ToServer
  <2>2. CASE sessionDebug
    BY <1>1, <2>2 DEF ServerPrintShare, ServerPrints, ServerOnly
  <2>3. CASE ~sessionDebug
    BY <1>1, <2>1, <2>3 DEF ServerPrintShare, ServerPrints, ServerOnly, ServerCloses
  <2>4. QED
    BY <2>2, <2>3
<1>2. CASE ServerPrintVerdict
  <2>1. c2s = <<>>
    BY <1>2 DEF ServerPrintVerdict, IInv, ToServer
  <2>2. QED
    BY <1>2, <2>1 DEF ServerPrintVerdict, ServerPrints, ServerOnly, ServerCloses
<1>3. QED
  BY <1>1, <1>2

LEMMA ServerPrintsInv == IInv /\ (ServerPrintShare \/ ServerPrintVerdict) => IInv'
<1> SUFFICES ASSUME IInv, ServerPrints PROVE IInv'
  BY ServerPrintsCases
<1>1. /\ ServerOnly /\ UNCHANGED <<y, sessionDebug, b, key, mcValues, v, verified, serr, c2s, s2c>>
      /\ \/ spc = "printShare" /\ sessionDebug /\ spc' = "reveal" /\ serverSide' = serverSide
         \/ spc = "printShare" /\ ~sessionDebug /\ spc' = "done" /\ serverSide' = "fin"
         \/ spc = "printVerdict" /\ spc' = "done" /\ serverSide' = "fin"
  BY DEF ServerPrints
<1>2. UNCHANGED clientVars /\ UNCHANGED <<chunks, ended>> /\ ~ServerDone
  BY <1>1 DEF ServerOnly
<1>3. /\ y \in Secret /\ y # 0 /\ J = K /\ J' = J /\ v \in Residue /\ serr # "infinity"
      /\ sessionDebug = debugReveal /\ (spc = "printVerdict" => sessionDebug)
  <2>1. y \in Secret
    BY <1>1 DEF IInv, ServerControl
  <2>2. y # 0
    BY <2>1, DrawAssumption DEF Scalar
  <2>3. QED
    BY <1>1, <2>1, <2>2 DEF IInv, ServerControl, J
<1>4. serverSide \in {"open", "fin", "rst"}
  BY DEF IInv, ConnectionTypes
<1>5. ConnectionTypes' /\ Sending' = Sending /\ Arriving' = Arriving
  BY <1>1, <1>4, ServerQueues
<1>6. ServerTypes'
  <2>1. printedV' \in {printedV, v} /\ serverVerdict' \in Verdict
    BY DEF ServerPrints, VerdictText, Verdict, IInv, ServerTypes
  <2>2. QED
    BY <1>1, <1>3, <2>1 DEF IInv, ServerTypes
<1>7. Balanced'
  <2>1. ServerTaken' = ServerTaken /\ ServerSent' = ServerSent
    BY <1>1, <1>3 DEF ServerTaken, ServerSent
  <2>2. QED
    BY <1>1, <1>5, <2>1, ServerKeepsBalance
<1>8. ClientControl'
  <2>1. I' = I
    BY <1>1, ClientSide
  <2>2. cpc = "done" => spc' = "done"
    BY <1>1, <1>3 DEF IInv, ClientControl
  <2>3. QED
    BY <1>1, <1>2, <1>3, <2>1, <2>2 DEF IInv, ClientControl, clientVars
<1>9. ServerControl'
  BY <1>1, <1>2, <1>3, KPositive DEF IInv, ServerControl, clientVars
<1>10. ServerLog'
  <2>1. /\ printedV \in {None, v} /\ (spc = "printVerdict" => printedV = v)
        /\ serverVerdict = "unavailable"
    BY <1>1 DEF IInv, ServerLog
  <2>2. QED
    BY <1>1, <1>3, <2>1 DEF ServerPrints, ServerLog
<1>11. Closing'
  BY <1>1, <1>2, ClientSide DEF IInv, Closing
<1>12. ToServer'
  BY <1>1, <1>2 DEF IInv, ToServer, I, clientVars
<1>13. FromServer'
  <2> SUFFICES ASSUME ~ClientDone, ~(chunks = <<>> /\ s2c = <<>>) PROVE FromServer'
    BY <1>1, <1>2 DEF FromServer, clientVars
  <2>1. \/ /\ spc = "printShare" /\ cpc \in {"encryptedW", "shareR"}
           /\ cpc = "encryptedW" => I + 1 = K
           /\ Inbound(MTAShare(v))
        \/ /\ spc = "printVerdict" /\ cpc \in {"requestW", "revealR"}
           /\ printedV = v /\ Inbound(DebugRevealResponse(y, verified))
    BY <1>1, <1>2 DEF IInv, FromServer
  <2>2. \A f : Inbound(f) => (Inbound(f))'
    BY <1>1, <1>2 DEF Inbound
  <2>3. I' = I /\ cpc' = cpc /\ debugReveal' = debugReveal
    BY <1>2 DEF I, clientVars
  <2>4. CASE spc = "printShare"
    <3>1. (Inbound(MTAShare(v)))'
      BY <1>1, <2>1, <2>2, <2>4 DEF Inbound
    <3>2. QED
      BY <1>1, <1>3, <2>1, <2>3, <2>4, <3>1 DEF FromServer
  <2>5. CASE spc = "printVerdict"
    <3>1. (Inbound(DebugRevealResponse(y, verified)))'
      BY <1>1, <2>1, <2>2, <2>5 DEF Inbound
    <3>2. printedV' = v'
      BY <1>1, <2>1, <2>5 DEF ServerPrints
    <3>3. QED
      BY <1>1, <1>3, <2>1, <2>3, <2>5, <3>1, <3>2 DEF FromServer
  <2>6. QED
    BY <2>1, <2>4, <2>5
<1>14. Stranded'
  BY <1>1, <1>2, <1>3 DEF IInv, Stranded, ServerControl, clientVars
<1>15. QED
  BY <1>1, <1>5, <1>6, <1>7, <1>8, <1>9, <1>10, <1>11, <1>12, <1>13, <1>14, ClientSide DEF IInv

LEMMA ServerReadRevealInv == IInv /\ ServerReadReveal => IInv'
<1> SUFFICES ASSUME IInv, ServerReadReveal PROVE IInv'
  OBVIOUS
<1>1. /\ ServerOnly /\ spc = "reveal" /\ c2s # <<>>
      /\ UNCHANGED <<y, sessionDebug, b, key, mcValues, v, printedV, serverVerdict>>
  BY DEF ServerReadReveal, ServerOnly
<1>2. /\ y \in Secret /\ J = K /\ J' = J /\ v \in Residue /\ serr # "infinity"
      /\ sessionDebug
  BY <1>1 DEF IInv, ServerControl, J
<1>3. Head(c2s).type = "DebugRevealRequest" /\ Tail(c2s) = <<>>
  <2>1. c2s = <<DebugRevealRequest(x, ComputeAliceShare(uiValues))>>
    BY <1>1 DEF IInv, ToServer
  <2>2. QED
    BY <2>1, ShortQueues DEF DebugRevealRequest
<1>4. PICK ok \in BOOLEAN :
        verified' = ok /\ ServerWrites(DebugRevealResponse(y, ok), "printVerdict", <<>>)
  <2>1. \A bnXy, bnUv \in Garbage : CppVerifyMta(y, v, bnXy, bnUv) \subseteq BOOLEAN
    BY DEF CppVerifyMta
  <2>2. QED
    BY <1>3, <2>1 DEF ServerReadReveal
<1>5. \/ ClientDone /\ ServerFails("send", <<>>) /\ UNCHANGED s2c
      \/ /\ spc' = "printVerdict" /\ s2c' = Append(s2c, DebugRevealResponse(y, ok))
         /\ c2s' = <<>> /\ UNCHANGED <<serr, serverSide>>
  BY <1>4 DEF ServerWrites
<1>6. CASE ClientDone /\ ServerFails("send", <<>>) /\ UNCHANGED s2c
  <2>1. /\ spc' = "failed" /\ serr' = "send" /\ c2s' = <<>> /\ serverSide' = "fin"
        /\ verified' \in BOOLEAN
    BY <1>4, <1>6 DEF ServerFails, ServerCloses
  <2>2. b \in Ephemeral \cup {0} /\ key \in Word \cup {None} /\ v \in Residue \cup {None}
    BY DEF IInv, ServerTypes
  <2>3. <<>> \in Seq(Frame)
    OBVIOUS
  <2>4. ServerGivesUp
    BY <1>1, <1>6, <2>1, <2>2, <2>3 DEF ServerGivesUp, ServerOnly
  <2>5. QED
    BY <2>4, ServerGivesUpInv
<1>7. CASE /\ spc' = "printVerdict" /\ s2c' = Append(s2c, DebugRevealResponse(y, ok))
           /\ c2s' = <<>> /\ UNCHANGED <<serr, serverSide>>
  <2>1. UNCHANGED clientVars /\ UNCHANGED <<chunks, ended>> /\ ~ServerDone
    BY <1>1 DEF ServerOnly
  <2>2. ~ClientDone => /\ cpc \in {"requestW", "revealR"}
                       /\ chunks = <<>> /\ s2c = <<>>
    BY <1>1, Phases, Queues DEF Phase
  <2>3. DebugRevealResponse(y, ok) \in Frame
    BY <1>2, FrameTypes, DrawAssumption
  <2>4. ConnectionTypes' /\ Sending' = Sending - 1 /\ Arriving' = Arriving + 1
    <3>1. c2s' = Tail(c2s)
      BY <1>3, <1>7
    <3>2. serverSide \in {"open", "fin", "rst"}
      BY DEF IInv, ConnectionTypes
    <3>3. QED
      BY <1>1, <1>7, <2>3, <3>1, <3>2, ServerQueues
  <2>5. ServerLog' /\ printedV' = v'
    BY <1>1, <1>7 DEF IInv, ServerLog
  <2>6. ServerTypes'
    BY <1>1, <1>4, <1>7 DEF IInv, ServerTypes, Verdict
  <2>7. Balanced'
    <3>1. ServerTaken' = 2 * K + 2 /\ ServerSent' = K + 2
      BY <1>1, <1>2, <1>7 DEF ServerTaken, ServerSent
    <3>2. ServerTaken' = ServerTaken + 1 /\ ServerSent' = ServerSent + 1
      BY <1>1, <3>1, KPositive, ServerCounts
    <3>3. QED
      BY <1>1, <2>4, <3>2, ServerKeepsBalance
  <2>8. ClientControl'
    <3>1. I' = I
      BY <1>1, ClientSide
    <3>2. cpc # "done"
      BY <1>1 DEF IInv, ClientControl
    <3>3. QED
      BY <1>1, <1>2, <1>7, <2>1, <3>1, <3>2 DEF IInv, ClientControl, clientVars
  <2>9. ServerControl'
    BY <1>1, <1>2, <1>7, <2>1 DEF IInv, ServerControl, clientVars
  <2>10. Closing'
    BY <1>1, <1>7, <2>1, ClientSide DEF IInv, Closing
  <2>11. ToServer'
    BY <1>7 DEF ToServer
  <2>12. FromServer'
    <3> SUFFICES ASSUME ~ClientDone PROVE FromServer'
      BY <2>1 DEF FromServer, clientVars
    <3>1. chunks' = <<>> /\ s2c' = <<DebugRevealResponse(y, ok)>>
      BY <1>7, <2>1, <2>2, ShortQueues
    <3>2. (Inbound(DebugRevealResponse(y, verified)))'
      BY <1>1, <1>4, <3>1 DEF Inbound
    <3>3. QED
      BY <1>1, <1>2, <1>7, <2>1, <2>2, <2>5, <3>2 DEF FromServer, clientVars
  <2>13. Stranded'
    BY <1>1, <1>2, <1>7, <2>1 DEF IInv, Stranded, clientVars
  <2>14. QED
    BY <1>1, <2>4, <2>5, <2>6, <2>7, <2>8, <2>9, <2>10, <2>11, <2>12, <2>13, ClientSide DEF IInv
<1>8. QED
  BY <1>5, <1>6, <1>7
-----------------------------------------------------------------------------
LEMMA StutterInv == IInv /\ UNCHANGED vars => IInv'
<1> SUFFICES ASSUME IInv, UNCHANGED vars PROVE IInv'
  OBVIOUS
<1>1. UNCHANGED clientVars /\ UNCHANGED serverVars /\ UNCHANGED <<c2s, s2c, chunks, ended, serverSide>>
  BY DEF vars, netVars
<1>2. ClientTypes' /\ ServerTypes'
  BY <1>1, TypesKept
<1>3. ConnectionTypes'
  BY <1>1 DEF IInv, ConnectionTypes
<1>4. Balanced'
  BY <1>1 DEF IInv, Balanced, ClientSent, ClientTaken, ServerTaken, ServerSent,
              Sending, Arriving, I, J, clientVars, serverVars
<1>5. ClientControl' /\ ServerControl' /\ ServerLog'
  BY <1>1 DEF IInv, ClientControl, ServerControl, ServerLog, I, J, clientVars, serverVars
<1>6. Closing' /\ Stranded'
  BY <1>1 DEF IInv, Closing, Stranded, clientVars, serverVars
<1>7. ToServer'
  BY <1>1 DEF IInv, ToServer, Opens, Offered, I, J, clientVars, serverVars
<1>8. FromServer'
  BY <1>1 DEF IInv, FromServer, Inbound, Choice, I, J, clientVars, serverVars
<1>9. QED
  BY <1>2, <1>3, <1>4, <1>5, <1>6, <1>7, <1>8 DEF IInv

LEMMA NextIInv == IInv /\ [Next]_vars => IInv'
<1> SUFFICES ASSUME IInv, [Next]_vars PROVE IInv'
  OBVIOUS
<1>1. CASE ClientStep
  BY <1>1, ClientSendConfigInv, ClientConfigWrittenInv, ClientWaitsInv, ClientReadResponseInv,
     ClientEncryptedWrittenInv, ClientReadShareInv, ClientReadRevealInv, ClientStopsInv
  DEF ClientStep
<1>2. CASE Delivery
  BY <1>2, DataArrivesInv, EndArrivesInv, ClientStopsInv, LateFrameResetInv DEF Delivery
<1>3. CASE ServerStep
  BY <1>3, ServerReadConfigInv, ServerReadInitInv, ServerReadEncryptedInv, ServerSendShareInv,
     ServerPrintsInv, ServerReadRevealInv, ServerStopsInv
  DEF ServerStep
<1>4. CASE Killed
  BY <1>4, ClientStopsInv, ServerStopsInv DEF Killed
<1>5. CASE Finished \/ UNCHANGED vars
  BY <1>5, StutterInv DEF Finished
<1>6. QED
  BY <1>1, <1>2, <1>3, <1>4, <1>5 DEF Next

\* The counts of frames, the contents of the queues and the values the two sides
\* hold are related as IInv says in every reachable state of a session.
THEOREM SessionInvariant == Spec => []IInv
BY InitIInv, NextIInv, PTL DEF Spec

\* Every reachable state of a session is well typed.
THEOREM SessionTypeCorrect == Spec => []TypeOK
<1>1. IInv => TypeOK
  BY DEF IInv, TypeOK
<1>2. QED
  BY SessionInvariant, <1>1, PTL
-----------------------------------------------------------------------------
(* What follows from the inductive invariant: the safety properties, and    *)
(* that a session implements correlated OT.                                *)

\* The steps that change what the two sides hold.
LEMMA WhoChangesWhat ==
  ASSUME [Next]_vars
  PROVE  /\ UNCHANGED <<x, debugReveal>>
         /\ y' = y \/ ServerReadConfig
         /\ mcValues' = mcValues \/ ServerReadEncrypted
         /\ b' = b \/ ServerReadInit
         /\ UNCHANGED <<a, m0, uiValues>> \/ ClientConfigWritten \/ ClientEncryptedWritten
<1>1. CASE ClientStep
  <2> USE DEF serverVars, netVars
  <2>1. UNCHANGED <<x, debugReveal, y, mcValues, b>>
    BY <1>1
    DEF ClientStep, ClientSendConfig, ClientConfigWritten, ClientInitWritten,
        ClientReadResponse, ClientEncryptedWritten, ClientReadShare,
        ClientRequestWritten, ClientReadReveal, ClientExitsSilently
  <2>2. UNCHANGED <<a, m0, uiValues>> \/ ClientConfigWritten \/ ClientEncryptedWritten
    BY <1>1
    DEF ClientStep, ClientSendConfig, ClientInitWritten, ClientReadResponse, ClientReadShare,
        ClientRequestWritten, ClientReadReveal, ClientExitsSilently
  <2>3. QED
    BY <2>1, <2>2
<1>2. CASE Delivery \/ ClientKilled
  BY <1>2 DEF Delivery, DataArrives, EndArrives, ResetArrives, LateFrameReset, ClientKilled,
              clientVars, serverVars, netVars
<1>3. CASE ServerStep \/ ServerKilled
  <2> USE DEF clientVars
  <2>1. UNCHANGED <<x, debugReveal, a, m0, uiValues>>
    BY <1>3 DEF ServerStep, ServerReadConfig, ServerReadInit, ServerReadEncrypted,
                ServerSendShare, ServerPrintShare, ServerReadReveal, ServerPrintVerdict,
                ServerReceiveFails, ServerKilled
  <2>2. y' = y \/ ServerReadConfig
    BY <1>3 DEF ServerStep, ServerReadInit, ServerReadEncrypted,
                ServerSendShare, ServerPrintShare, ServerReadReveal, ServerPrintVerdict,
                ServerReceiveFails, ServerKilled
  <2>3. mcValues' = mcValues \/ ServerReadEncrypted
    BY <1>3 DEF ServerStep, ServerReadConfig, ServerReadInit,
                ServerSendShare, ServerPrintShare, ServerReadReveal, ServerPrintVerdict,
                ServerReceiveFails, ServerKilled
  <2>4. b' = b \/ ServerReadInit
    BY <1>3 DEF ServerStep, ServerReadConfig, ServerReadEncrypted,
                ServerSendShare, ServerPrintShare, ServerReadReveal, ServerPrintVerdict,
                ServerReceiveFails, ServerKilled
  <2>5. QED
    BY <2>1, <2>2, <2>3, <2>4
<1>4. CASE Finished \/ UNCHANGED vars
  BY <1>4 DEF Finished, vars, clientVars, serverVars
<1>5. QED
  BY <1>1, <1>2, <1>3, <1>4 DEF Next, Killed
-----------------------------------------------------------------------------
(* The rounds of the two sides.                                            *)

LEMMA ClientRound ==
  ASSUME IInv, ClientEncryptedWritten
  PROVE  /\ I <= J /\ I' = I + 1 /\ uiValues' = Append(uiValues, m0) /\ m0 \in Mask
         /\ uiValues \in Seq(Mask)
<1>1. cpc = "encryptedW" /\ uiValues' = Append(uiValues, m0)
  BY DEF ClientEncryptedWritten
<1>2. I <= J /\ m0 \in Mask /\ uiValues \in Seq(Mask)
  BY <1>1 DEF IInv, ClientControl, ClientTypes
<1>3. I' = I + 1
  BY <1>1, <1>2, SequenceTypes DEF I
<1>4. QED
  BY <1>1, <1>2, <1>3

\* Nothing is drawn or pushed before the first round except that round's mask.
LEMMA FirstRound ==
  ASSUME IInv, ClientConfigWritten
  PROVE  J = 0 /\ uiValues' = uiValues
BY DEF IInv, ClientControl, ClientConfigWritten

LEMMA SkewStep == IInv /\ RoundSkew /\ [Next]_vars => RoundSkew'
<1> SUFFICES ASSUME IInv, RoundSkew, [Next]_vars PROVE RoundSkew'
  OBVIOUS
<1>1. I \in Nat /\ J \in Nat /\ J <= I + 1 /\ I <= J + 1
  BY Lengths DEF RoundSkew, I, J
<1>2. CASE ServerReadEncrypted
  <2>1. J <= I /\ J' = J + 1
    BY <1>2, Decrypted
  <2>2. I' = I
    BY <1>2 DEF ServerReadEncrypted, clientVars, I
  <2>3. QED
    BY <1>1, <2>1, <2>2 DEF RoundSkew, I, J
<1>3. CASE ClientEncryptedWritten
  <2>1. I <= J /\ I' = I + 1
    BY <1>3, ClientRound
  <2>2. J' = J
    BY <1>3 DEF ClientEncryptedWritten, serverVars, J
  <2>3. QED
    BY <1>1, <2>1, <2>2 DEF RoundSkew, I, J
<1>4. CASE ~ServerReadEncrypted /\ ~ClientEncryptedWritten
  <2>1. mcValues' = mcValues /\ uiValues' = uiValues
    BY <1>4, WhoChangesWhat, FirstRound
  <2>2. QED
    BY <2>1 DEF RoundSkew
<1>5. QED
  BY <1>2, <1>3, <1>4

\* The loops of the two sides are never more than one round apart.
THEOREM SessionRoundSkew == Spec => []RoundSkew
<1>1. Init => RoundSkew
  BY DEF Init, RoundSkew
<1>2. QED
  BY SessionInvariant, <1>1, SkewStep, PTL DEF Spec
-----------------------------------------------------------------------------
(* What is decrypted stays correlated with what will be aggregated.        *)

\* The masks of the rounds the server has completed are fixed.
LEMMA MasksKept ==
  ASSUME IInv, RoundSkew, [Next]_vars
  PROVE  \A i \in 1 .. J : Offered'[i] = Offered[i]
<1> SUFFICES ASSUME NEW i \in 1 .. J PROVE Offered'[i] = Offered[i]
  OBVIOUS
<1>1. I \in Nat /\ J \in Nat /\ J <= I + 1 /\ I = Len(uiValues)
  BY Lengths DEF RoundSkew, I, J
<1>2. CASE ClientConfigWritten
  BY <1>1, <1>2, FirstRound
<1>3. CASE ClientEncryptedWritten
  <2>1. /\ Offered' = Append(Append(uiValues, m0), m0') /\ m0 \in Mask
        /\ uiValues \in Seq(Mask)
    BY <1>3, ClientRound DEF Offered
  <2>2. i \in 1 .. (Len(uiValues) + 1)
    BY <1>1
  <2>3. QED
    BY <2>1, <2>2, OfferedGrows DEF Offered
<1>4. CASE UNCHANGED <<a, m0, uiValues>>
  BY <1>4 DEF Offered
<1>5. QED
  BY <1>2, <1>3, <1>4, WhoChangesWhat

LEMMA CorrelatedStep ==
  IInv /\ RoundSkew /\ CorrelatedRounds /\ [Next]_vars => CorrelatedRounds'
<1> SUFFICES ASSUME IInv, RoundSkew, CorrelatedRounds, [Next]_vars,
                    NEW i \in 1 .. J'
             PROVE  mcValues'[i] = (Offered'[i] + GetBit(y', i-1) * x') % N
  BY DEF CorrelatedRounds, J
<1>1. x' = x /\ J \in Nat
  BY WhoChangesWhat, Lengths
<1>2. \A j \in 1 .. J : mcValues[j] = (Offered[j] + GetBit(y, j-1) * x) % N
  BY DEF CorrelatedRounds, J
<1>3. CASE ServerReadEncrypted
  <2>1. PICK mc : mc = (Offered[J + 1] + GetBit(y, J) * x) % N
    OBVIOUS
  <2>2. mcValues' = Append(mcValues, mc) /\ mc \in Residue /\ J' = J + 1
    BY <1>3, <2>1, Decrypted
  <2>3. mcValues \in Seq(Word) /\ mc \in Word
    BY <2>2, KeyAssumption DEF IInv, ServerTypes
  <2>4. y' = y /\ Offered' = Offered
    BY <1>3 DEF ServerReadEncrypted, Offered, clientVars
  <2>5. CASE i = J + 1
    <3>1. mcValues'[i] = mc /\ i - 1 = J
      BY <1>1, <2>2, <2>3, <2>5 DEF J
    <3>2. QED
      BY <1>1, <2>1, <2>4, <2>5, <3>1
  <2>6. CASE i # J + 1
    <3>1. i \in 1 .. J
      BY <1>1, <2>2, <2>6
    <3>2. mcValues'[i] = mcValues[i]
      BY <2>2, <2>3, <3>1 DEF J
    <3>3. QED
      BY <1>1, <1>2, <2>4, <3>1, <3>2
  <2>7. QED
    BY <2>5, <2>6
<1>4. CASE mcValues' = mcValues
  <2>1. i \in 1 .. J /\ J # 0
    BY <1>1, <1>4 DEF J
  <2>2. y' = y
    <3>1. ServerReadConfig => J = 0
      BY DEF ServerReadConfig, IInv, ServerControl
    <3>2. QED
      BY <2>1, <3>1, WhoChangesWhat
  <2>3. QED
    BY <1>1, <1>2, <1>4, <2>1, <2>2, MasksKept
<1>5. QED
  BY <1>3, <1>4, WhoChangesWhat

\* Whatever the server has decrypted is correlated with the client's masks, for
\* every group, every order and every number of rounds.
THEOREM SessionCorrelated == Spec => []CorrelatedRounds
<1>1. Init => CorrelatedRounds
  <2> SUFFICES ASSUME Init PROVE CorrelatedRounds
    OBVIOUS
  <2>1. Len(mcValues) = 0
    BY DEF Init
  <2>2. QED
    BY <2>1 DEF CorrelatedRounds
<1>2. QED
  BY SessionInvariant, SessionRoundSkew, <1>1, CorrelatedStep, PTL DEF Spec

LEMMA MasksType ==
  ASSUME NEW ui \in Seq(Mask), NEW m \in Mask \cup {0}
  PROVE  Append(ui, m) \in Seq(Nat) /\ Len(Append(ui, m)) = Len(ui) + 1
<1>1. Mask \subseteq Nat
  BY DrawAssumption, OrderAssumption DEF Scalar
<1>2. ui \in Seq(Nat)
  BY <1>1, SeqMonotone
<1>3. m \in Nat
  BY <1>1
<1>4. QED
  BY <1>2, <1>3

LEMMA OfferedType ==
  ASSUME IInv
  PROVE  Offered \in Seq(Nat) /\ Len(Offered) = I + 1
BY MasksType DEF IInv, ClientTypes, Offered, I

\* The first n elements of a sequence.
LEMMA Prefix ==
  ASSUME NEW s \in Seq(Nat), NEW n \in 0 .. Len(s)
  PROVE  /\ SubSeq(s, 1, n) \in Seq(Nat) /\ Len(SubSeq(s, 1, n)) = n
         /\ \A i \in 1 .. n : SubSeq(s, 1, n)[i] = s[i]
<1>1. n \in Int /\ \A i \in 1 .. n : s[i] \in Nat
  OBVIOUS
<1>2. /\ SubSeq(s, 1, n) \in Seq(Nat) /\ Len(SubSeq(s, 1, n)) = IF 1 <= n THEN n - 1 + 1 ELSE 0
      /\ \A i \in 1 .. n - 1 + 1 : SubSeq(s, 1, n)[i] = s[1 + i - 1]
  BY <1>1, SubSeqProperties
<1>3. QED
  BY <1>2

LEMMA ProductDetermined == IInv /\ RoundSkew /\ CorrelatedRounds => RoundsDetermineProduct
<1> SUFFICES ASSUME IInv, RoundSkew, CorrelatedRounds, J = K
             PROVE  Verify(x, y, ComputeAliceShare(SubSeq(Offered, 1, K)),
                           ComputeBobShare(mcValues))
  BY DEF RoundsDetermineProduct, J
<1>1. K \in Nat /\ K > 0 /\ I \in Nat /\ K <= I + 1
  BY Lengths DEF RoundSkew, I, J
<1>2. PICK us : us = SubSeq(Offered, 1, K)
  OBVIOUS
<1>3. us \in Seq(Nat) /\ Len(us) = K /\ \A i \in 1 .. K : us[i] = Offered[i]
  BY <1>1, <1>2, OfferedType, Prefix
<1>4. mcValues \in Seq(Nat) /\ Len(mcValues) = K
  BY SeqMonotone, KeyAssumption DEF IInv, ServerTypes, J
<1>5. x \in Residue /\ y \in Residue
  <2>1. x \in Secret /\ y \in Secret
    <3>1. x \in Secret /\ y \in Secret \cup {0}
      BY DEF IInv, ClientTypes, ServerTypes
    <3>2. y # 0
      BY <1>1 DEF IInv, ServerControl
    <3>3. QED
      BY <3>1, <3>2
  <2>2. Scalar \subseteq Residue
    BY OrderAssumption DEF Scalar, Residue
  <2>3. QED
    BY <2>1, <2>2, DrawAssumption
<1>6. \A i \in 1 .. K : mcValues[i] = (us[i] + GetBit(y, i-1) * x) % N
  BY <1>3, <1>4 DEF CorrelatedRounds
<1>7. QED
  BY <1>2, <1>3, <1>4, <1>5, <1>6, CorrelatedPairsMultiply

\* When the transfers are through, what the two sides hold determines additive
\* shares of the product.
THEOREM SessionProduct == Spec => []RoundsDetermineProduct
BY SessionInvariant, SessionRoundSkew, SessionCorrelated, ProductDetermined, PTL
-----------------------------------------------------------------------------
(* Frames are decoded as what they are.                                    *)

LEMMA ConfigRead ==
  ASSUME IInv, ServerReadConfig
  PROVE  y = 0 /\ y' \in Secret /\ serr' = serr
<1>1. spc = "config" /\ y = 0
  BY DEF IInv, ServerControl, ServerReadConfig
<1>2. \/ c2s = <<SessionConfig(debugReveal)>>
      \/ c2s = <<SessionConfig(debugReveal), OTInit(MulG(a), 0)>>
  BY <1>1 DEF IInv, ToServer, ServerReadConfig
<1>3. Head(c2s) = SessionConfig(debugReveal)
  BY <1>2, ShortQueues
<1>4. QED
  BY <1>1, <1>3 DEF ServerReadConfig, SessionConfig

LEMMA LockstepStep == IInv /\ FramesInLockstep /\ [Next]_vars => FramesInLockstep'
<1> SUFFICES ASSUME IInv, FramesInLockstep, [Next]_vars
             PROVE  cerr' # "decode" /\ serr' \notin {"decode", "bit index"}
  BY DEF FramesInLockstep
<1>1. cerr # "decode" /\ serr \notin {"decode", "bit index"}
  BY DEF FramesInLockstep
<1>2. CASE ClientStep
  <2>1. serr' = serr
    BY <1>2
    DEF ClientStep, ClientSendConfig, ClientConfigWritten, ClientInitWritten,
        ClientReadResponse, ClientEncryptedWritten, ClientReadShare,
        ClientRequestWritten, ClientReadReveal, ClientExitsSilently, serverVars
  <2>2. ClientReadResponse => cerr' # "decode"
    <3> SUFFICES ASSUME ClientReadResponse PROVE cerr' # "decode"
      OBVIOUS
    <3>1. Head(chunks).type = "OTResponse"
      BY ResponseFound, ShortQueues DEF ClientReadResponse, ClientReads, OTResponse
    <3>2. QED
      BY <1>1, <3>1 DEF ClientReadResponse, ClientFails, ClientWrites
  <2>3. ClientReadShare => cerr' # "decode"
    <3> SUFFICES ASSUME ClientReadShare PROVE cerr' # "decode"
      OBVIOUS
    <3>1. Head(chunks).type = "MTAShare"
      BY ShareFound, ShortQueues DEF ClientReadShare, ClientReads, MTAShare
    <3>2. QED
      BY <1>1, <3>1 DEF ClientReadShare, ClientFails, ClientWrites
  <2>4. ClientReadReveal => cerr' # "decode"
    <3> SUFFICES ASSUME ClientReadReveal PROVE cerr' # "decode"
      OBVIOUS
    <3>1. chunks = <<DebugRevealResponse(y, verified)>>
      BY DEF IInv, FromServer, Inbound, ClientReadReveal, ClientReads
    <3>2. Head(chunks).type = "DebugRevealResponse"
      BY <3>1, ShortQueues DEF DebugRevealResponse
    <3>3. QED
      BY <1>1, <3>2 DEF ClientReadReveal
  <2>5. QED
    BY <1>1, <1>2, <2>1, <2>2, <2>3, <2>4
    DEF ClientStep, ClientSendConfig, ClientConfigWritten, ClientInitWritten,
        ClientEncryptedWritten, ClientOffer, ClientRequestWritten, ClientExitsSilently,
        ClientFails, ClientWrites
<1>3. CASE ServerStep
  <2>1. cerr' = cerr
    BY <1>3 DEF ServerStep, ServerReadConfig, ServerReadInit, ServerReadEncrypted,
                ServerSendShare, ServerPrintShare, ServerReadReveal, ServerPrintVerdict,
                ServerReceiveFails, clientVars
  <2>2. ServerReadConfig => serr' = serr
    BY ConfigRead
  <2>3. ServerReadInit => serr' \in {serr, "infinity", "send"}
    <3> SUFFICES ASSUME ServerReadInit PROVE serr' \in {serr, "infinity", "send"}
      OBVIOUS
    <3>1. Head(c2s) = OTInit(MulG(a), J)
      BY InitFound, ShortQueues DEF ServerReadInit
    <3>2. Head(c2s).type = "OTInit" /\ Head(c2s).bitIndex = Len(mcValues)
      BY <3>1 DEF OTInit, J
    <3>3. QED
      BY <3>2 DEF ServerReadInit, ServerFails, ServerWrites
  <2>4. ServerReadEncrypted => serr' = serr
    BY Decrypted
  <2>5. ServerReadReveal => serr' \in {serr, "send"}
    <3> SUFFICES ASSUME ServerReadReveal PROVE serr' \in {serr, "send"}
      OBVIOUS
    <3>1. c2s = <<DebugRevealRequest(x, ComputeAliceShare(uiValues))>>
      BY DEF IInv, ToServer, ServerReadReveal
    <3>2. Head(c2s).type = "DebugRevealRequest"
      BY <3>1, ShortQueues DEF DebugRevealRequest
    <3>3. QED
      BY <3>2 DEF ServerReadReveal, ServerFails, ServerWrites
  <2>6. ServerSendShare \/ ServerReceiveFails => serr' \in {serr, "send", "receive"}
    BY DEF ServerSendShare, ServerReceiveFails, ServerFails, ServerWrites
  <2>8. ServerPrintShare \/ ServerPrintVerdict => serr' = serr
    BY DEF ServerPrintShare, ServerPrintVerdict
  <2>7. QED
    BY <1>1, <1>3, <2>1, <2>2, <2>3, <2>4, <2>5, <2>6, <2>8 DEF ServerStep
<1>4. CASE Delivery \/ Killed
  BY <1>1, <1>4 DEF Delivery, DataArrives, EndArrives, ResetArrives, LateFrameReset, Killed,
                    ClientKilled, ServerKilled, ClientFails, ServerFails,
                    clientVars, serverVars, netVars
<1>5. CASE Finished \/ UNCHANGED vars
  BY <1>1, <1>5 DEF Finished, vars, clientVars, serverVars
<1>6. QED
  BY <1>2, <1>3, <1>4, <1>5 DEF Next

\* No frame is ever decoded as another message, and no bit index is out of step.
THEOREM SessionLockstep == Spec => []FramesInLockstep
<1>1. Init => FramesInLockstep
  BY DEF Init, FramesInLockstep
<1>2. QED
  BY SessionInvariant, <1>1, LockstepStep, PTL DEF Spec
-----------------------------------------------------------------------------
(* What a completed client holds.                                          *)

\* Once the client has completed, the server may only print, close or be killed.
LEMMA CompletedStays ==
  ASSUME IInv, [Next]_vars, cpc = "done"
  PROVE  /\ UNCHANGED clientVars
         /\ UNCHANGED serverVars \/ ServerPrintShare \/ ServerPrintVerdict \/ ServerKilled
<1>1. ClientDone /\ spc \in {"printShare", "printVerdict", "done", "failed"}
  BY DEF IInv, ClientControl
<1>2. ~ClientStep /\ ~ClientKilled
  BY <1>1 DEF ClientStep, ClientSendConfig, ClientConfigWritten, ClientInitWritten,
              ClientReadResponse, ClientEncryptedWritten, ClientReadShare, ClientReads,
              ClientRequestWritten, ClientReadReveal, ClientExitsSilently, Awaiting,
              ClientKilled
<1>3. ServerStep => ServerPrintShare \/ ServerPrintVerdict
  BY <1>1 DEF ServerStep, ServerReadConfig, ServerReadInit, ServerReadEncrypted,
              ServerSendShare, ServerReadReveal, ServerReceiveFails
<1>4. ServerPrintShare \/ ServerPrintVerdict \/ ServerKilled => UNCHANGED clientVars
  BY DEF ServerPrintShare, ServerPrintVerdict, ServerKilled
<1>5. CASE Delivery
  BY <1>1, <1>5 DEF Delivery, DataArrives, EndArrives, ResetArrives, LateFrameReset
<1>6. CASE Finished \/ UNCHANGED vars
  BY <1>6 DEF Finished, vars
<1>7. QED
  BY <1>2, <1>3, <1>4, <1>5, <1>6 DEF Next, Killed

\* What the server still does when the client has completed agrees with what it sent.
LEMMA LogStep ==
  ASSUME IInv, DoneMeansAgreed, cpc = "done", UNCHANGED clientVars,
         ServerPrintShare \/ ServerPrintVerdict \/ ServerKilled
  PROVE  DoneMeansAgreed'
<1>1. /\ Len(mcValues) = K /\ Len(uiValues) = K /\ clientV = v /\ v # None
      /\ IF debugReveal
         THEN /\ clientY = y /\ clientVerdict = VerdictText(verified)
              /\ printedV = clientV /\ serverVerdict \in {"unavailable", clientVerdict}
         ELSE clientY = None /\ printedV \in {None, clientV}
  BY DEF DoneMeansAgreed
<1>2. /\ UNCHANGED <<debugReveal, cpc, uiValues, clientV, clientY, clientVerdict>>
      /\ UNCHANGED <<y, mcValues, v, verified>>
  BY DEF clientVars, ServerPrintShare, ServerPrintVerdict, ServerKilled
<1>3. CASE ServerPrintShare
  <2>1. ~debugReveal /\ printedV' = v
    BY <1>3 DEF IInv, ClientControl, ServerPrintShare
  <2>2. QED
    BY <1>1, <1>2, <2>1 DEF DoneMeansAgreed, LogComplete
<1>4. CASE ServerPrintVerdict
  <2>1. /\ debugReveal /\ serverVerdict' = VerdictText(verified) /\ printedV' = printedV
    BY <1>4 DEF IInv, ClientControl, ServerPrintVerdict
  <2>2. VerdictText(verified) # "unavailable"
    BY DEF VerdictText
  <2>3. VerdictText(verified)' = VerdictText(verified)
    BY <1>2 DEF VerdictText
  <2>4. QED
    BY <1>1, <1>2, <2>1, <2>2, <2>3 DEF DoneMeansAgreed, LogComplete
<1>5. CASE ServerKilled
  <2>1. serr' = "killed" /\ UNCHANGED <<printedV, serverVerdict>>
    BY <1>5 DEF ServerKilled, ServerFails
  <2>2. VerdictText(verified)' = VerdictText(verified)
    BY <1>2 DEF VerdictText
  <2>3. QED
    BY <1>1, <1>2, <2>1, <2>2 DEF DoneMeansAgreed
<1>6. QED
  BY <1>3, <1>4, <1>5

LEMMA AgreedStep == IInv /\ DoneMeansAgreed /\ [Next]_vars => DoneMeansAgreed'
<1> SUFFICES ASSUME IInv, DoneMeansAgreed, [Next]_vars, cpc' = "done"
             PROVE  DoneMeansAgreed'
  BY DEF DoneMeansAgreed
<1>1. CASE cpc = "done"
  <2>1. CASE UNCHANGED serverVars
    BY <1>1, <2>1, CompletedStays
    DEF DoneMeansAgreed, LogComplete, Printing, VerdictText, clientVars, serverVars
  <2>2. CASE ServerPrintShare \/ ServerPrintVerdict \/ ServerKilled
    BY <1>1, <2>2, CompletedStays, LogStep
  <2>3. QED
    BY <1>1, <2>1, <2>2, CompletedStays
<1>2. CASE cpc # "done"
  <2>1. ClientReadShare \/ ClientReadReveal
    BY <1>2 DEF Next, ClientStep, Delivery, ServerStep, Killed, Finished,
       ClientSendConfig, ClientConfigWritten, ClientOffer, ClientInitWritten,
       ClientReadResponse,
       ClientEncryptedWritten, ClientRequestWritten, ClientExitsSilently, ClientFails,
       ClientWrites,
       DataArrives, EndArrives, ResetArrives, LateFrameReset,
       ServerReadConfig, ServerReadInit, ServerReadEncrypted, ServerSendShare,
       ServerPrintShare, ServerReadReveal,
       ServerPrintVerdict,
       ServerReceiveFails, ClientKilled, ServerKilled, vars, clientVars
  <2>2. CASE ClientReadShare
    <3>1. /\ cpc = "shareR" /\ chunks # <<>> /\ UNCHANGED serverVars
          /\ UNCHANGED <<debugReveal, uiValues, clientY>>
      BY <2>2 DEF ClientReadShare, ClientReads
    <3>2. Head(chunks) = MTAShare(v) /\ I = K /\ J = K /\ v \in Residue
      BY <3>1, ShareFound, ShortQueues
    <3>3. clientV' = v /\ ~debugReveal
      BY <2>2, <3>2 DEF ClientReadShare, MTAShare, ClientWrites, ClientFails
    <3>4. clientY = None /\ printedV \in {None, v}
      BY <3>3 DEF IInv, ClientControl, ServerLog
    <3>5. v # None
      BY <3>2, OrderAssumption DEF None, Residue
    <3>6. \/ spc = "printShare"
          \/ spc = "done" /\ printedV = v
          \/ serr = "killed"
      BY <3>1, <3>3, Zenon DEF IInv, FromServer, ServerLog
    <3>7. QED
      BY <3>1, <3>2, <3>3, <3>4, <3>5, <3>6
      DEF DoneMeansAgreed, LogComplete, Printing, I, J, serverVars
  <2>3. CASE ClientReadReveal
    <3>1. /\ cpc = "revealR" /\ UNCHANGED serverVars /\ chunks # <<>>
          /\ UNCHANGED <<debugReveal, uiValues, clientV>>
      BY <2>3 DEF ClientReadReveal, ClientReads
    <3>2. debugReveal /\ clientV = v /\ v \in Residue /\ J = K /\ I = K
      BY <3>1 DEF IInv, ClientControl
    <3>3. /\ chunks = <<DebugRevealResponse(y, verified)>> /\ printedV = v
          /\ spc \in {"printVerdict", "done", "failed"} /\ (spc = "failed" => serr = "killed")
      BY <3>1 DEF IInv, FromServer, Inbound
    <3>4. Head(chunks) = DebugRevealResponse(y, verified)
      BY <3>3, ShortQueues
    <3>5. clientY' = y /\ clientVerdict' = VerdictText(verified)
      BY <2>3, <3>4 DEF ClientReadReveal, DebugRevealResponse
    <3>6. v # None
      BY <3>2, OrderAssumption DEF None, Residue
    <3>7. /\ spc \in {"printVerdict", "failed"} => serverVerdict = "unavailable"
          /\ spc = "done" => serverVerdict = VerdictText(verified)
      BY <3>2 DEF IInv, ServerLog, ServerControl
    <3>8. VerdictText(verified) # "unavailable" /\ VerdictText(verified)' = VerdictText(verified)
      BY <3>1 DEF VerdictText, serverVars
    <3>9. QED
      BY <3>1, <3>2, <3>3, <3>5, <3>6, <3>7, <3>8
      DEF DoneMeansAgreed, LogComplete, Printing, I, J, serverVars
  <2>4. QED
    BY <2>1, <2>2, <2>3
<1>3. QED
  BY <1>1, <1>2

\* A client that has completed holds the V that the server computed and, with
\* --debug-reveal, its y and its verdict.  The server's log says the same or, until the
\* server gets to it or if it is killed before, does not say it yet.
THEOREM SessionAgreement == Spec => []DoneMeansAgreed
<1>1. Init => DoneMeansAgreed
  BY DEF Init, DoneMeansAgreed
<1>2. QED
  BY SessionInvariant, <1>1, AgreedStep, PTL DEF Spec
-----------------------------------------------------------------------------
(* Why a side fails.                                                       *)

\* A side that is still at work has no error yet.
NoErrorYet ==
  /\ ~ClientDone => cerr = "none"
  /\ ~ServerDone => serr = "none"

LEMMA NoErrorStep == NoErrorYet /\ [Next]_vars => NoErrorYet'
<1> SUFFICES ASSUME NoErrorYet, [Next]_vars PROVE NoErrorYet'
  OBVIOUS
<1>1. CASE ClientStep
  BY <1>1
  DEF NoErrorYet, ClientStep, ClientSendConfig, ClientConfigWritten, ClientOffer,
      ClientInitWritten,
      ClientReadResponse, ClientEncryptedWritten, ClientReadShare, ClientReads, ClientWrites,
      ClientFails, ClientRequestWritten, ClientReadReveal, ClientExitsSilently, Awaiting,
      serverVars
<1>2. CASE ServerStep
  BY <1>2
  DEF NoErrorYet, ServerStep, ServerReadConfig, ServerReadInit, ServerReadEncrypted,
      ServerSendShare, ServerPrintShare, ServerReadReveal, ServerPrintVerdict,
      ServerReceiveFails, ServerWrites, ServerFails, clientVars
<1>3. CASE Delivery \/ Killed \/ Finished \/ UNCHANGED vars
  BY <1>3 DEF NoErrorYet, Delivery, DataArrives, EndArrives, ResetArrives, LateFrameReset,
              Killed,
              ClientKilled, ServerKilled, ClientFails, ServerFails, Finished,
              vars, clientVars, serverVars, netVars
<1>4. QED
  BY <1>1, <1>2, <1>3 DEF Next

\* As long as the client is at work, a server that has completed has sent what the
\* client still waits for, and the client has nothing left to write but what the
\* server has read.
LEMMA CompletedServer ==
  ASSUME IInv, spc = "done", ~ClientDone
  PROVE  /\ chunks # <<>> \/ s2c # <<>>
         /\ serverSide = "fin"
         /\ \/ cpc = "encryptedW" /\ I + 1 = K
            \/ cpc = "shareR" /\ ~debugReveal
            \/ cpc \in {"requestW", "revealR"}
<1>1. sessionDebug = debugReveal /\ serverSide = "fin"
  BY DEF IInv, ServerControl, Closing
<1>2. QED
  BY <1>1, Phases, Queues DEF Phase

\* A client that fails while the server has not, was killed or found no encoding.
LEMMA ClientCause ==
  ASSUME IInv, FramesInLockstep', [Next]_vars, ~ClientDone, spc # "failed",
         cpc' \in {"failed", "silent"}
  PROVE  cerr' \in RootCause
<1>1. cerr' # "decode"
  BY DEF FramesInLockstep
<1>2. ended \/ serverSide \in {"fin", "rst"} => spc = "done"
  BY DEF IInv, Closing
<1>3. ended => s2c = <<>>
  BY DEF IInv, Closing
<1>4. spc = "done" => /\ chunks # <<>> \/ s2c # <<>>
                      /\ serverSide = "fin"
                      /\ \/ cpc = "encryptedW" /\ Len(uiValues) + 1 = K
                         \/ cpc = "shareR" /\ ~debugReveal
                         \/ cpc \in {"requestW", "revealR"}
  BY CompletedServer DEF I
<1>5. CASE ClientStep
  <2>1. ClientSendConfig \/ ClientConfigWritten \/ ClientInitWritten => cerr' \in RootCause
    BY <1>2, <1>4
    DEF ClientSendConfig, ClientConfigWritten, ClientOffer, ClientInitWritten, ClientWrites,
        ClientFails
  <2>2. ClientReadResponse => cerr' \in RootCause
    BY <1>1, <1>2, <1>4
    DEF ClientReadResponse, ClientReads, ClientWrites, ClientFails, RootCause
  <2>3. ~ClientEncryptedWritten
    <3> SUFFICES ASSUME ClientEncryptedWritten PROVE FALSE
      OBVIOUS
    <3>1. cpc = "encryptedW" /\ Len(uiValues) \in Nat
      BY Lengths DEF ClientEncryptedWritten, I
    <3>2. ended /\ Len(uiValues) + 1 < K
      BY DEF ClientEncryptedWritten, ClientOffer, ClientWrites, ClientFails
    <3>3. QED
      BY <1>2, <1>4, <3>1, <3>2, KPositive
  <2>4. ClientReadShare => cerr' \in RootCause
    BY <1>1, <1>2, <1>4
    DEF ClientReadShare, ClientReads, ClientWrites, ClientFails, RootCause
  <2>5. ~ClientRequestWritten /\ (ClientReadReveal => cerr' \in RootCause)
    BY <1>1 DEF ClientRequestWritten, ClientReadReveal, ClientFails
  <2>6. ~ClientExitsSilently
    BY <1>2, <1>3, <1>4 DEF ClientExitsSilently
  <2>7. QED
    BY <1>5, <2>1, <2>2, <2>3, <2>4, <2>5, <2>6 DEF ClientStep
<1>6. ~Delivery
  BY <1>2, <1>4 DEF Delivery, DataArrives, EndArrives, ResetArrives, LateFrameReset, clientVars
<1>7. CASE ClientKilled
  BY <1>7 DEF ClientKilled, ClientFails, RootCause
<1>8. ~ServerStep /\ ~ServerKilled /\ ~Finished /\ ~UNCHANGED vars
  BY DEF ServerStep, ServerReadConfig, ServerReadInit, ServerReadEncrypted, ServerSendShare,
         ServerPrintShare, ServerReadReveal, ServerPrintVerdict, ServerReceiveFails,
         ServerKilled, Finished, vars, clientVars
<1>9. QED
  BY <1>5, <1>6, <1>7, <1>8 DEF Next, Killed

\* A server that fails before the client has ended, or while it prints, was killed or
\* found no encoding.
LEMMA ServerCause ==
  ASSUME FramesInLockstep', [Next]_vars, ~ServerDone, ~ClientDone \/ Printing, spc' = "failed"
  PROVE  serr' \in RootCause
<1>1. serr' \notin {"decode", "bit index"}
  BY DEF FramesInLockstep
<1>2. CASE ServerStep
  <2>1. serr' \in {"decode", "bit index", "infinity"}
    BY <1>2 DEF ServerStep, ServerReadConfig, ServerReadInit, ServerReadEncrypted,
                ServerSendShare, ServerPrintShare, ServerReadReveal, ServerPrintVerdict,
                ServerReceiveFails, ServerWrites, ServerFails,
                Printing
  <2>2. QED
    BY <1>1, <2>1 DEF RootCause
<1>3. CASE ServerKilled
  BY <1>3 DEF ServerKilled, ServerFails, RootCause
<1>4. ~ClientStep /\ ~Delivery /\ ~ClientKilled /\ ~Finished /\ ~UNCHANGED vars
  BY DEF ClientStep, ClientSendConfig, ClientConfigWritten, ClientInitWritten,
         ClientReadResponse, ClientEncryptedWritten, ClientReadShare,
         ClientRequestWritten, ClientReadReveal, ClientExitsSilently,
         Delivery, DataArrives, EndArrives, ResetArrives, LateFrameReset,
         ClientKilled, Finished, vars, serverVars
<1>5. QED
  BY <1>2, <1>3, <1>4 DEF Next, Killed

\* A step of a side whose end has come changes nothing of what it ended with.
LEMMA EndedStays ==
  ASSUME [Next]_vars
  PROVE  /\ ClientDone => UNCHANGED <<cpc, cerr>>
         /\ ServerDone => UNCHANGED <<spc, serr>>
<1>1. CASE ClientStep
  BY <1>1
  DEF ClientStep, ClientSendConfig, ClientConfigWritten, ClientInitWritten,
      ClientReadResponse, ClientEncryptedWritten, ClientReadShare, ClientReads,
      ClientRequestWritten, ClientReadReveal, ClientExitsSilently, Awaiting, serverVars
<1>2. CASE ServerStep
  BY <1>2 DEF ServerStep, ServerReadConfig, ServerReadInit, ServerReadEncrypted,
              ServerSendShare, ServerPrintShare, ServerReadReveal, ServerPrintVerdict,
              ServerReceiveFails, clientVars
<1>3. CASE Delivery \/ Killed \/ Finished \/ UNCHANGED vars
  BY <1>3 DEF Delivery, DataArrives, EndArrives, ResetArrives, LateFrameReset, Killed,
              ClientKilled, ServerKilled, Finished, vars, clientVars, serverVars, netVars
<1>4. QED
  BY <1>1, <1>2, <1>3 DEF Next

\* The two sides never fail in the same step.
LEMMA OneSideAtATime ==
  ASSUME [Next]_vars
  PROVE  UNCHANGED <<cpc, cerr>> \/ UNCHANGED <<spc, serr>>
BY DEF Next, ClientStep, ClientSendConfig, ClientConfigWritten, ClientInitWritten,
       ClientReadResponse, ClientEncryptedWritten, ClientReadShare,
       ClientRequestWritten, ClientReadReveal, ClientExitsSilently,
       Delivery, DataArrives, EndArrives, ResetArrives, LateFrameReset, Killed,
       ClientKilled, ServerKilled, Finished, ServerStep, ServerReadConfig, ServerReadInit,
       ServerReadEncrypted, ServerSendShare, ServerPrintShare, ServerReadReveal,
       ServerPrintVerdict, ServerReceiveFails,
       vars, clientVars, serverVars, netVars

LEMMA RootCauseStep ==
  IInv /\ NoErrorYet /\ FramesInLockstep' /\ FailureHasRootCause /\ [Next]_vars =>
    FailureHasRootCause'
<1> SUFFICES ASSUME IInv, NoErrorYet, FramesInLockstep', FailureHasRootCause, [Next]_vars,
                    cpc' \in {"failed", "silent"} \/ spc' = "failed"
             PROVE  cerr' \in RootCause \/ serr' \in RootCause
  BY DEF FailureHasRootCause
<1>1. cpc = "done" => Printing \/ spc \in {"done", "failed"}
  BY DEF IInv, ClientControl, Printing
<1>2. /\ ~ClientDone => cerr \notin RootCause
      /\ ~ServerDone => serr \notin RootCause
  BY DEF NoErrorYet, RootCause
<1>3. CASE cpc \in {"failed", "silent"} \/ spc = "failed"
  <2>1. cerr \in RootCause \/ serr \in RootCause
    BY <1>3 DEF FailureHasRootCause
  <2>2. QED
    BY <1>2, <2>1, EndedStays
<1>4. CASE cpc \notin {"failed", "silent"} /\ spc # "failed"
  <2>1. CASE cpc' \in {"failed", "silent"}
    BY <1>4, <2>1, EndedStays, ClientCause
  <2>2. CASE spc' = "failed"
    BY <1>1, <1>4, <2>2, EndedStays, ServerCause
  <2>3. QED
    BY <2>1, <2>2
<1>5. QED
  BY <1>3, <1>4

\* If a process fails, one of them was killed or a sum of points had no encoding.
THEOREM SessionRootCause == Spec => []FailureHasRootCause
<1>1. Init => FailureHasRootCause /\ NoErrorYet
  BY DEF Init, FailureHasRootCause, NoErrorYet
<1>2. Spec => []NoErrorYet
  BY <1>1, NoErrorStep, PTL DEF Spec
<1>3. QED
  BY SessionInvariant, SessionLockstep, <1>1, <1>2, RootCauseStep, PTL DEF Spec
-----------------------------------------------------------------------------
(* When a sum of points has no encoding.                                   *)

\* The server found none: B = bG + A.
ServerAbort == serr = "infinity" =>
  /\ GetBit(y, J) = 1
  /\ Add(MulG(b), MulG(a)) = Infinity

\* The client found none: B - A, for B = bG.
ClientAbort == cerr = "infinity" =>
  /\ GetBit(y, J) = 0
  /\ PointSubtract(MulG(b), MulG(a)) = Infinity

\* Who reports that a sum has no encoding.
LEMMA WhoAborts ==
  ASSUME [Next]_vars
  PROVE  /\ serr' = "infinity" => serr = "infinity" \/ ServerReadInit
         /\ cerr' = "infinity" => cerr = "infinity" \/ ClientReadResponse
<1>1. CASE ClientStep
  BY <1>1
  DEF ClientStep, ClientSendConfig, ClientConfigWritten, ClientOffer, ClientInitWritten,
      ClientEncryptedWritten, ClientReadShare, ClientRequestWritten, ClientReadReveal,
      ClientExitsSilently, ClientWrites, ClientFails, ClientReadResponse, serverVars
<1>2. CASE ServerStep
  BY <1>2 DEF ServerStep, ServerReadConfig, ServerReadEncrypted, ServerSendShare,
              ServerPrintShare, ServerReadReveal, ServerPrintVerdict, ServerReceiveFails,
              ServerWrites, ServerFails, ServerReadInit,
              clientVars
<1>3. CASE Delivery \/ Killed \/ Finished \/ UNCHANGED vars
  BY <1>3 DEF Delivery, DataArrives, EndArrives, ResetArrives, LateFrameReset, Killed,
              ClientKilled, ServerKilled, ClientFails, ServerFails, Finished,
              vars, clientVars, serverVars, netVars
<1>4. QED
  BY <1>1, <1>2, <1>3 DEF Next

LEMMA ServerAbortStep == IInv /\ ServerAbort /\ [Next]_vars => ServerAbort'
<1> SUFFICES ASSUME IInv, ServerAbort, [Next]_vars, serr' = "infinity"
             PROVE  GetBit(y', J') = 1 /\ Add(MulG(b'), MulG(a')) = Infinity
  BY DEF ServerAbort
<1>1. CASE ServerReadInit
  <2>1. spc = "init" /\ c2s # <<>> /\ y' = y /\ J' = J /\ a' = a /\ spc # "failed"
    BY <1>1 DEF ServerReadInit, clientVars, J
  <2>2. /\ a \in Ephemeral /\ y \in Secret /\ MulG(a) \in Point
        /\ Head(c2s) = OTInit(MulG(a), J)
    BY <2>1, InitFound, ShortQueues
  <2>3. serr # "infinity"
    BY <2>1 DEF IInv, ServerControl
  <2>4. /\ Head(c2s).type = "OTInit" /\ Head(c2s).bitIndex = Len(mcValues)
        /\ Head(c2s).pointA = MulG(a)
    BY <2>2 DEF OTInit, J
  <2>5. b' \in Ephemeral /\ BobPoint(GetBit(y, J), b', MulG(a)) = Infinity
    BY <1>1, <2>3, <2>4 DEF ServerReadInit, ServerWrites, ServerFails, J
  <2>6. MulG(b') \in Point /\ GetBit(y, J) \in {0, 1}
    BY <2>2, <2>5, PointTypes, DrawAssumption, ChoiceBit
  <2>7. QED
    BY <2>1, <2>5, <2>6, PointTypes DEF BobPoint
<1>2. CASE ~ServerReadInit
  <2>1. serr = "infinity" /\ GetBit(y, J) = 1 /\ Add(MulG(b), MulG(a)) = Infinity
    BY <1>2, WhoAborts DEF ServerAbort
  <2>2. spc = "failed"
    BY <2>1 DEF IInv, ServerControl
  <2>3. b' = b /\ y' = y /\ J' = J
    BY <1>2, <2>2, WhoChangesWhat DEF ServerReadConfig, ServerReadEncrypted, J
  <2>4. a' = a
    <3>1. ~ClientConfigWritten /\ ~ClientEncryptedWritten
      BY <2>1 DEF IInv, Stranded, ClientConfigWritten, ClientEncryptedWritten
    <3>2. QED
      BY <3>1, WhoChangesWhat
  <2>5. QED
    BY <2>1, <2>3, <2>4
<1>3. QED
  BY <1>1, <1>2

LEMMA ClientAbortStep == IInv /\ ClientAbort /\ [Next]_vars => ClientAbort'
<1> SUFFICES ASSUME IInv, ClientAbort, [Next]_vars, cerr' = "infinity"
             PROVE  GetBit(y', J') = 0 /\ PointSubtract(MulG(b'), MulG(a')) = Infinity
  BY DEF ClientAbort
<1>1. CASE ClientReadResponse
  <2>1. cpc = "responseR" /\ chunks # <<>> /\ UNCHANGED <<a, y, b, mcValues>> /\ J' = J
    BY <1>1 DEF ClientReadResponse, ClientReads, serverVars, J
  <2>2. /\ y \in Secret /\ a \in Scalar /\ b \in Scalar
        /\ Choice \in Point /\ Head(chunks) = OTResponse(Choice)
    BY <2>1, ResponseFound, ShortQueues, DrawAssumption
  <2>3. cerr # "infinity"
    BY <2>1 DEF IInv, ClientControl
  <2>4. Head(chunks).type = "OTResponse" /\ Head(chunks).pointB = Choice
    BY <2>2 DEF OTResponse
  <2>5. AliceRefuses(a, Choice)
    BY <1>1, <2>3, <2>4 DEF ClientReadResponse, ClientWrites, ClientFails
  <2>6. GetBit(y, J) \in {0, 1}
    BY <2>2, ChoiceBit
  <2>7. GetBit(y, J) = 0 /\ PointSubtract(MulG(b), MulG(a)) = Infinity
    BY <2>2, <2>5, <2>6, RefusalIsCollision DEF Choice
  <2>8. QED
    BY <2>1, <2>7
<1>2. CASE ~ClientReadResponse
  <2>1. cerr = "infinity" /\ GetBit(y, J) = 0 /\ PointSubtract(MulG(b), MulG(a)) = Infinity
    BY <1>2, WhoAborts DEF ClientAbort
  <2>2. cpc = "failed"
    BY <2>1 DEF IInv, ClientControl
  <2>3. ~ServerReadInit /\ ~ServerReadConfig /\ ~ServerReadEncrypted
    BY <2>1 DEF IInv, Stranded, ServerReadInit, ServerReadConfig, ServerReadEncrypted
  <2>4. b' = b /\ y' = y /\ J' = J
    BY <2>3, WhoChangesWhat DEF J
  <2>5. a' = a
    BY <2>2, WhoChangesWhat DEF ClientConfigWritten, ClientEncryptedWritten
  <2>6. QED
    BY <2>1, <2>4, <2>5
<1>3. QED
  BY <1>1, <1>2

\* An abort for want of an encoding happens in exactly the two collisions of the
\* ephemeral points.
THEOREM SessionAborts == Spec => []AbortsOnlyOnCollision
<1>1. Init => ServerAbort /\ ClientAbort
  BY DEF Init, ServerAbort, ClientAbort
<1>2. ServerAbort /\ ClientAbort => AbortsOnlyOnCollision
  BY DEF ServerAbort, ClientAbort, AbortsOnlyOnCollision, J
<1>3. QED
  BY SessionInvariant, <1>1, <1>2, ServerAbortStep, ClientAbortStep, PTL DEF Spec
-----------------------------------------------------------------------------
(* The session implements correlated OT.                                   *)

\* The two specifications mean the same by the bits of y.
LEMMA SameBits == \A s, i : Ideal!GetBit(s, i) = GetBit(s, i)
<1>1. Ideal!Pow2 = Pow2
  BY DEF Ideal!Pow2, Pow2
<1>2. QED
  BY <1>1 DEF Ideal!GetBit, GetBit

LEMMA InitRefines == Init => Ideal!Init
<1> SUFFICES ASSUME Init PROVE Ideal!Init
  OBVIOUS
<1>1. IInv /\ Len(mcValues) = 0
  BY InitIInv DEF Init
<1>2. SubSeq(Offered, 1, 0) = <<>>
  BY SubSeqEmpty
<1>3. QED
  BY <1>1, <1>2 DEF Init, Ideal!Init

\* Two prefixes of the same length with the same elements.
LEMMA SamePrefix ==
  ASSUME NEW s \in Seq(Nat), NEW t \in Seq(Nat), NEW n \in Nat, n <= Len(s), n <= Len(t),
         \A i \in 1 .. n : s[i] = t[i]
  PROVE  SubSeq(s, 1, n) = SubSeq(t, 1, n)
<1> DEFINE p == SubSeq(s, 1, n)
           q == SubSeq(t, 1, n)
<1>1. /\ p \in Seq(Nat) /\ Len(p) = n /\ \A i \in 1 .. n : p[i] = s[i]
      /\ q \in Seq(Nat) /\ Len(q) = n /\ \A i \in 1 .. n : q[i] = t[i]
  BY Prefix
<1> HIDE DEF p, q
<1>2. p = [i \in 1 .. n |-> p[i]] /\ q = [i \in 1 .. n |-> q[i]]
  BY <1>1
<1>3. [i \in 1 .. n |-> p[i]] = [i \in 1 .. n |-> q[i]]
  BY <1>1
<1>4. QED
  BY <1>2, <1>3 DEF p, q

\* A prefix that is one longer.
LEMMA LongerPrefix ==
  ASSUME NEW s \in Seq(Nat), NEW n \in Nat, n < Len(s)
  PROVE  SubSeq(s, 1, n + 1) = Append(SubSeq(s, 1, n), s[n + 1])
<1> DEFINE p == SubSeq(s, 1, n + 1)
           q == Append(SubSeq(s, 1, n), s[n + 1])
<1>1. /\ p \in Seq(Nat) /\ Len(p) = n + 1 /\ \A i \in 1 .. n + 1 : p[i] = s[i]
  BY Prefix
<1>2. s[n + 1] \in Nat
  OBVIOUS
<1>3. /\ SubSeq(s, 1, n) \in Seq(Nat) /\ Len(SubSeq(s, 1, n)) = n
      /\ \A i \in 1 .. n : SubSeq(s, 1, n)[i] = s[i]
  BY Prefix
<1>4. q \in Seq(Nat) /\ Len(q) = n + 1 /\ \A i \in 1 .. n + 1 : q[i] = s[i]
  BY <1>2, <1>3
<1> HIDE DEF p, q
<1>5. p = [i \in 1 .. n + 1 |-> p[i]] /\ q = [i \in 1 .. n + 1 |-> q[i]]
  BY <1>1, <1>4
<1>6. [i \in 1 .. n + 1 |-> p[i]] = [i \in 1 .. n + 1 |-> q[i]]
  BY <1>1, <1>4
<1>7. QED
  BY <1>5, <1>6 DEF p, q

LEMMA StepRefines == IInv /\ IInv' /\ RoundSkew /\ RoundSkew' /\ [Next]_vars => [Ideal!Next]_(Ideal!vars)
<1> SUFFICES ASSUME IInv, IInv', RoundSkew, RoundSkew', [Next]_vars
             PROVE  Ideal!Next \/ UNCHANGED Ideal!vars
  OBVIOUS
<1>1. /\ I \in Nat /\ J \in Nat /\ J <= I + 1
      /\ Offered \in Seq(Nat) /\ Len(Offered) = I + 1 /\ x' = x
  BY Lengths, OfferedType, WhoChangesWhat DEF RoundSkew, I, J
<1>2. I' \in Nat /\ J' \in Nat /\ J' <= I' + 1 /\ Offered' \in Seq(Nat) /\ Len(Offered') = I' + 1
  <2>1. /\ uiValues' \in Seq(Mask) /\ m0' \in Mask \cup {0} /\ mcValues' \in Seq(Word)
        /\ Len(mcValues') <= Len(uiValues') + 1
    BY DEF IInv, ClientTypes, ServerTypes, RoundSkew
  <2>2. Len(uiValues') \in Nat /\ Len(mcValues') \in Nat
    BY <2>1
  <2>3. QED
    BY <2>1, <2>2, MasksType DEF Offered, I, J
<1>3. CASE ServerReadConfig
  <2>1. y = 0 /\ y' \in Secret /\ mcValues' = mcValues /\ Offered' = Offered
    BY <1>3, ConfigRead DEF ServerReadConfig, Offered, clientVars
  <2>2. QED
    BY <1>1, <2>1 DEF Ideal!Next, Ideal!Choose
<1>4. CASE ServerReadEncrypted
  <2>1. PICK u : u = Offered[J + 1]
    OBVIOUS
  <2>2. /\ u \in Mask /\ J <= I /\ J' = J + 1
        /\ mcValues' = Append(mcValues, (u + GetBit(y, J) * x) % N)
    BY <1>4, <2>1, Decrypted
  <2>3. y # 0 /\ J < K
    BY <1>4, Decrypted, EncryptedFound
  <2>4. y' = y /\ Offered' = Offered
    BY <1>4 DEF ServerReadEncrypted, Offered, clientVars
  <2>5. SubSeq(Offered', 1, J') = Append(SubSeq(Offered, 1, J), u)
    BY <1>1, <2>1, <2>2, <2>4, LongerPrefix
  <2>6. Ideal!Transfer
    <3>1. /\ SubSeq(Offered', 1, Len(mcValues')) = Append(SubSeq(Offered, 1, Len(mcValues)), u)
          /\ mcValues' = Append(mcValues, (u + GetBit(y, Len(mcValues)) * x) % N)
          /\ Len(mcValues) < K
      BY <2>2, <2>3, <2>5 DEF J
    <3>2. u \in Mask /\ y # 0 /\ UNCHANGED <<x, y>>
      BY <1>1, <2>2, <2>3, <2>4
    <3>3. QED
      BY <3>1, <3>2, SameBits DEF Ideal!Transfer
  <2>7. QED
    BY <2>6 DEF Ideal!Next
<1>5. CASE ~ServerReadConfig /\ ~ServerReadEncrypted
  <2>1. y' = y /\ mcValues' = mcValues /\ J' = J
    BY <1>5, WhoChangesWhat DEF J
  <2>2. \A i \in 1 .. J : Offered[i] = Offered'[i]
    BY MasksKept
  <2>3. SubSeq(Offered', 1, J') = SubSeq(Offered, 1, J)
    BY <1>1, <1>2, <2>1, <2>2, SamePrefix
  <2>4. QED
    BY <1>1, <2>1, <2>3 DEF Ideal!vars, J
<1>6. QED
  BY <1>3, <1>4, <1>5

\* Every behaviour of the session is, seen from the masks that are fixed and the
\* values that are decrypted, a behaviour of correlated OT.
THEOREM SessionRefines == Spec => RefinesCorrelatedOT
<1>1. Init => Ideal!Init
  BY InitRefines
<1>2. IInv /\ IInv' /\ RoundSkew /\ RoundSkew' /\ [Next]_vars => [Ideal!Next]_(Ideal!vars)
  BY StepRefines
<1>3. QED
  BY SessionInvariant, SessionRoundSkew, <1>1, <1>2, PTL DEF Spec, RefinesCorrelatedOT,
                                                             Ideal!Spec
=============================================================================
