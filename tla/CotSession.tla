----------------------------- MODULE CotSession -----------------------------
(***************************************************************************)
(* One network session: runNetworkDemo of client/src/client.ts against     *)
(* ServerApp::run of server/src/server.cpp, from the accepted connection   *)
(* on, with the TCP connection between them.                               *)
(*                                                                         *)
(* The client is an event-driven process: the code between two awaits runs *)
(* without interruption and is one action; while it awaits a write         *)
(* callback (pc "..W") or a frame (pc "..R") the socket's events are       *)
(* delivered.  The server is a blocking process: one action runs from one  *)
(* recv, or from a line of its log that reports a write, to the next.  A   *)
(* channel is the sequence of frames in flight; the bytes of a frame are   *)
(* left to the framing layer.                                              *)
(***************************************************************************)
EXTENDS CotOT

CONSTANTS
  Secret,      \* x and y are drawn from it
  Ephemeral,   \* a and b are drawn from it
  Mask,        \* m0 is drawn from it
  Garbage,     \* what an uninitialised bignum256 may hold
  Killable     \* the processes that may be killed, a subset of {"client", "server"}

ASSUME DrawAssumption ==
  /\ Secret \subseteq Scalar /\ Ephemeral \subseteq Scalar /\ Mask \subseteq Scalar
  /\ Garbage \subseteq Residue

None == -1     \* an unset optional

VARIABLES
  \* the client
  x, debugReveal,   \* options.x and options.debugReveal
  cpc,              \* where the client is
  a, m0,            \* secret and mask of the AliceOT of the current round
  uiValues,         \* its length is the client's round number
  clientV,          \* the additive share received from the server
  clientY,          \* the y the server revealed
  clientVerdict,    \* verifiedText
  cerr,             \* why the client failed
  \* the server
  spc,              \* where the server is
  y,
  sessionDebug,     \* session_config.debug_reveal
  b, key,           \* secret_b_ and decryption_key_ of the current BobOT
  mcValues,         \* its length is bit_idx
  v,
  verified,         \* the result of verify_mta
  printedV,         \* the V in the server's log: what went to std::cout, which
                    \* a killed process may not have flushed
  serverVerdict,    \* the verdict in the server's log
  serr,             \* why the server failed
  \* the connection
  c2s, s2c,         \* frames in flight
  chunks,           \* frames the client's 'data' listener has queued
  ended,            \* FramedSocket.ended
  serverSide        \* the server's end: "open", "fin" or "rst"

clientVars == <<x, debugReveal, cpc, a, m0, uiValues, clientV, clientY,
                clientVerdict, cerr>>
serverVars == <<spc, y, sessionDebug, b, key, mcValues, v, verified, printedV,
                serverVerdict, serr>>
netVars    == <<c2s, s2c, chunks, ended, serverSide>>
vars       == <<clientVars, serverVars, netVars>>

SessionConfig(d)            == [type |-> "SessionConfig", debugReveal |-> d]
OTInit(A, i)                == [type |-> "OTInit", pointA |-> A, bitIndex |-> i]
OTResponse(B)               == [type |-> "OTResponse", pointB |-> B]
OTEncrypted(e)              == [type |-> "OTEncrypted", m0 |-> e.m0, m1 |-> e.m1]
MTAShare(s)                 == [type |-> "MTAShare", additiveShare |-> s]
DebugRevealRequest(sx, su)  == [type |-> "DebugRevealRequest", x |-> sx, u |-> su]
DebugRevealResponse(sy, ok) == [type |-> "DebugRevealResponse", y |-> sy, verified |-> ok]

ClientDone == cpc \in {"done", "failed", "silent"}
ServerDone == spc \in {"done", "failed"}

VerdictText(ok) == IF ok THEN "ok" ELSE "failed"

Init ==
  /\ x \in Secret /\ debugReveal \in BOOLEAN
  /\ cpc = "start" /\ a = 0 /\ m0 = 0 /\ uiValues = <<>>
  /\ clientV = None /\ clientY = None
  /\ clientVerdict = "unavailable" /\ cerr = "none"
  /\ spc = "config" /\ y = 0 /\ sessionDebug = FALSE /\ b = 0 /\ key = None
  /\ mcValues = <<>> /\ v = None /\ verified = FALSE
  /\ printedV = None /\ serverVerdict = "unavailable" /\ serr = "none"
  /\ c2s = <<>> /\ s2c = <<>> /\ chunks = <<>>
  /\ ended = FALSE /\ serverSide = "open"
-----------------------------------------------------------------------------
(* The client.                                                             *)

\* The error reaches main().catch, or is an uncaught 'error' event: the process
\* reports it and exits with a non-zero code.
ClientFails(reason) == cpc' = "failed" /\ cerr' = reason

\* FramedSocket.write up to its await: the frame is handed to the socket and the
\* callback is pending.  Once the other side has ended, the socket refuses.
ClientWrites(frame, pc) ==
  IF ended
  THEN ClientFails("write after end") /\ UNCHANGED c2s
  ELSE cpc' = pc /\ c2s' = Append(c2s, frame) /\ UNCHANGED cerr

\* FramedSocket.read: its await returns the first queued frame.
ClientReads(pc) == cpc = pc /\ chunks # <<>> /\ chunks' = Tail(chunks)

ClientSendConfig ==
  /\ cpc = "start"
  /\ ClientWrites(SessionConfig(debugReveal), "configW")
  /\ UNCHANGED <<x, debugReveal, a, m0, uiValues, clientV, clientY, clientVerdict>>
  /\ UNCHANGED <<s2c, chunks, ended, serverSide>> /\ UNCHANGED serverVars

\* mutant: the bit index counted from one
ClientOfferFromOne(i) ==
  \E ra \in Ephemeral, rm \in Mask :
    /\ a' = ra /\ m0' = rm
    /\ ClientWrites(OTInit(MulG(ra), i + 1), "initW")

\* An iteration of the loop up to the write of OTInit.
ClientOffer(i) ==
  \E ra \in Ephemeral, rm \in Mask :
    /\ a' = ra /\ m0' = rm
    /\ ClientWrites(OTInit(MulG(ra), i), "initW")

ClientConfigWritten ==
  /\ cpc = "configW"
  /\ ClientOffer(0)
  /\ UNCHANGED <<x, debugReveal, uiValues, clientV, clientY, clientVerdict>>
  /\ UNCHANGED <<s2c, chunks, ended, serverSide>> /\ UNCHANGED serverVars

\* mutant: the response is not awaited
ClientInitWrittenNoWait ==
  /\ cpc = "initW"
  /\ cpc' = "encryptedW"
  /\ UNCHANGED <<x, debugReveal, a, m0, uiValues, clientV, clientY, clientVerdict, cerr>>
  /\ UNCHANGED netVars /\ UNCHANGED serverVars

ClientInitWritten ==
  /\ cpc = "initW"
  /\ cpc' = "responseR"
  /\ UNCHANGED <<x, debugReveal, a, m0, uiValues, clientV, clientY, clientVerdict, cerr>>
  /\ UNCHANGED netVars /\ UNCHANGED serverVars

\* The response is read and answered, or processResponse throws because B - A
\* has no encoding.
ClientReadResponse ==
  /\ ClientReads("responseR")
  /\ LET f == Head(chunks) IN
       IF f.type # "OTResponse"
       THEN ClientFails("decode") /\ UNCHANGED c2s
       ELSE IF AliceRefuses(a, f.pointB)
       THEN ClientFails("infinity") /\ UNCHANGED c2s
       ELSE ClientWrites(OTEncrypted(AliceEncrypt(a, f.pointB, m0, x)), "encryptedW")
  /\ UNCHANGED <<x, debugReveal, a, m0, uiValues, clientV, clientY, clientVerdict>>
  /\ UNCHANGED <<s2c, ended, serverSide>> /\ UNCHANGED serverVars

\* mutant: the mask is pushed after the next round has drawn its own
ClientEncryptedWrittenLatePush ==
  /\ cpc = "encryptedW"
  /\ IF Len(uiValues) + 1 < K
     THEN ClientOffer(Len(uiValues) + 1)
     ELSE cpc' = "shareR" /\ UNCHANGED <<a, m0, cerr, c2s>>
  /\ uiValues' = Append(uiValues, m0')
  /\ UNCHANGED <<x, debugReveal, clientV, clientY, clientVerdict>>
  /\ UNCHANGED <<s2c, chunks, ended, serverSide>> /\ UNCHANGED serverVars

\* mutant: one round too few
ClientEncryptedWrittenShort ==
  /\ cpc = "encryptedW"
  /\ uiValues' = Append(uiValues, m0)
  /\ IF Len(uiValues) + 1 < K - 1
     THEN ClientOffer(Len(uiValues) + 1)
     ELSE cpc' = "shareR" /\ UNCHANGED <<a, m0, cerr, c2s>>
  /\ UNCHANGED <<x, debugReveal, clientV, clientY, clientVerdict>>
  /\ UNCHANGED <<s2c, chunks, ended, serverSide>> /\ UNCHANGED serverVars

\* ui is pushed; the next iteration starts or the loop is over.
ClientEncryptedWritten ==
  /\ cpc = "encryptedW"
  /\ uiValues' = Append(uiValues, m0)
  /\ IF Len(uiValues) + 1 < K
     THEN ClientOffer(Len(uiValues) + 1)
     ELSE cpc' = "shareR" /\ UNCHANGED <<a, m0, cerr, c2s>>
  /\ UNCHANGED <<x, debugReveal, clientV, clientY, clientVerdict>>
  /\ UNCHANGED <<s2c, chunks, ended, serverSide>> /\ UNCHANGED serverVars

\* V is read; with --debug-reveal the client sends x and U and goes on, without
\* it prints its shares and closes.
ClientReadShare ==
  /\ ClientReads("shareR")
  /\ LET f == Head(chunks) IN
       IF f.type # "MTAShare"
       THEN ClientFails("decode") /\ UNCHANGED <<clientV, c2s>>
       ELSE /\ clientV' = f.additiveShare
            /\ IF debugReveal
               THEN ClientWrites(DebugRevealRequest(x, ComputeAliceShare(uiValues)), "requestW")
               ELSE cpc' = "done" /\ UNCHANGED <<cerr, c2s>>
  /\ UNCHANGED <<x, debugReveal, a, m0, uiValues, clientY, clientVerdict>>
  /\ UNCHANGED <<s2c, ended, serverSide>> /\ UNCHANGED serverVars

ClientRequestWritten ==
  /\ cpc = "requestW"
  /\ cpc' = "revealR"
  /\ UNCHANGED <<x, debugReveal, a, m0, uiValues, clientV, clientY, clientVerdict, cerr>>
  /\ UNCHANGED netVars /\ UNCHANGED serverVars

ClientReadReveal ==
  /\ ClientReads("revealR")
  /\ LET f == Head(chunks) IN
       IF f.type # "DebugRevealResponse"
       THEN ClientFails("decode") /\ UNCHANGED <<clientY, clientVerdict>>
       ELSE /\ clientY' = f.y
            /\ clientVerdict' = VerdictText(f.verified)
            /\ cpc' = "done" /\ UNCHANGED cerr
  /\ UNCHANGED <<x, debugReveal, a, m0, uiValues, clientV>>
  /\ UNCHANGED <<c2s, s2c, ended, serverSide>> /\ UNCHANGED serverVars

Awaiting == cpc \in {"responseR", "shareR", "revealR"}

\* waitForBytes registers its listeners after 'end' was delivered: no event will
\* settle the promise, `ended' is only looked at once it has settled, and with
\* the socket gone nothing keeps the event loop alive.  The process exits with
\* code 0 and without a word.
ClientExitsSilently ==
  /\ Awaiting /\ chunks = <<>> /\ ended
  /\ cpc' = "silent"
  /\ UNCHANGED <<x, debugReveal, a, m0, uiValues, clientV, clientY, clientVerdict, cerr>>
  /\ UNCHANGED netVars /\ UNCHANGED serverVars
-----------------------------------------------------------------------------
(* The socket's events at the client.                                      *)

DataArrives ==
  /\ ~ClientDone /\ ~ended /\ s2c # <<>>
  /\ chunks' = Append(chunks, Head(s2c)) /\ s2c' = Tail(s2c)
  /\ UNCHANGED <<c2s, ended, serverSide>> /\ UNCHANGED <<clientVars, serverVars>>

\* 'end': the constructor's listener always runs, the one of waitForBytes only
\* if a read is waiting at that time; it rejects.
EndArrives ==
  /\ ~ClientDone /\ ~ended /\ s2c = <<>> /\ serverSide = "fin"
  /\ ended' = TRUE
  /\ IF Awaiting /\ chunks = <<>>
     THEN ClientFails("closed") ELSE UNCHANGED <<cpc, cerr>>
  /\ UNCHANGED <<x, debugReveal, a, m0, uiValues, clientV, clientY, clientVerdict>>
  /\ UNCHANGED <<c2s, s2c, chunks, serverSide>> /\ UNCHANGED serverVars

\* 'error' after a reset: rejects the waiting read or the pending write, or is
\* uncaught.  Frames in flight are lost.
ResetArrives ==
  /\ ~ClientDone /\ serverSide = "rst"
  /\ ClientFails("reset")
  /\ s2c' = <<>>
  /\ UNCHANGED <<x, debugReveal, a, m0, uiValues, clientV, clientY, clientVerdict>>
  /\ UNCHANGED <<c2s, chunks, ended, serverSide>> /\ UNCHANGED serverVars

\* The kernel answers a frame that reaches a closed socket with a reset.
LateFrameReset ==
  /\ serverSide = "fin" /\ c2s # <<>>
  /\ serverSide' = "rst" /\ c2s' = <<>>
  /\ UNCHANGED <<s2c, chunks, ended>> /\ UNCHANGED <<clientVars, serverVars>>

ClientKilled ==
  /\ "client" \in Killable /\ ~ClientDone
  /\ ClientFails("killed")
  /\ UNCHANGED <<x, debugReveal, a, m0, uiValues, clientV, clientY, clientVerdict>>
  /\ UNCHANGED netVars /\ UNCHANGED serverVars
-----------------------------------------------------------------------------
(* The server.                                                             *)

\* The Socket destructor runs, by an exception or at the end of run().  With
\* `unread' frames in its receive buffer the kernel resets the connection; if they
\* are still under way it closes in order, and LateFrameReset follows.
ServerCloses(unread) ==
  /\ c2s' = unread
  /\ serverSide' \in IF unread = <<>> THEN {"fin"} ELSE {"fin", "rst"}

ServerFails(reason, unread) ==
  spc' = "failed" /\ serr' = reason /\ ServerCloses(unread)

\* write_framed succeeds, or fails because the client's socket is closed (send
\* returns an error, or SIGPIPE ends the process: the connection closes alike).
ServerWrites(frame, pc, unread) ==
  \/ /\ spc' = pc /\ s2c' = Append(s2c, frame) /\ c2s' = unread
     /\ UNCHANGED <<serr, serverSide>>
  \/ ClientDone /\ ServerFails("send", unread) /\ UNCHANGED s2c

ServerReadConfig ==
  /\ spc = "config" /\ c2s # <<>>
  /\ IF Head(c2s).type # "SessionConfig"
     THEN ServerFails("decode", Tail(c2s)) /\ UNCHANGED <<sessionDebug, y>>
     ELSE /\ sessionDebug' = Head(c2s).debugReveal
          /\ y' \in Secret
          /\ spc' = "init" /\ c2s' = Tail(c2s) /\ UNCHANGED <<serr, serverSide>>
  /\ UNCHANGED <<b, key, mcValues, v, verified, printedV, serverVerdict>>
  /\ UNCHANGED <<s2c, chunks, ended>> /\ UNCHANGED clientVars

ServerReadInit ==
  /\ spc = "init" /\ c2s # <<>>
  /\ LET f == Head(c2s)
         i == Len(mcValues) IN
       IF f.type # "OTInit"
       THEN ServerFails("decode", Tail(c2s)) /\ UNCHANGED <<b, key, s2c>>
       ELSE IF f.bitIndex # i
       THEN ServerFails("bit index", Tail(c2s)) /\ UNCHANGED <<b, key, s2c>>
       ELSE \E rb \in Ephemeral :
              LET B == BobPoint(GetBit(y, i), rb, f.pointA) IN
              /\ b' = rb /\ key' = BobKey(rb, f.pointA)
              /\ IF B = Infinity
                 THEN ServerFails("infinity", Tail(c2s)) /\ UNCHANGED s2c
                 ELSE ServerWrites(OTResponse(B), "encrypted", Tail(c2s))
  /\ UNCHANGED <<y, sessionDebug, mcValues, v, verified, printedV, serverVerdict>>
  /\ UNCHANGED <<chunks, ended>> /\ UNCHANGED clientVars

ServerReadEncrypted ==
  /\ spc = "encrypted" /\ c2s # <<>>
  /\ LET f == Head(c2s)
         i == Len(mcValues) IN
       IF f.type # "OTEncrypted"
       THEN ServerFails("decode", Tail(c2s)) /\ UNCHANGED mcValues
       ELSE /\ mcValues' = Append(mcValues, BobDecrypt(GetBit(y, i), key, f))
            /\ spc' = IF i + 1 < K THEN "init" ELSE "share"
            /\ c2s' = Tail(c2s) /\ UNCHANGED <<serr, serverSide>>
  /\ UNCHANGED <<y, sessionDebug, b, key, v, verified, printedV, serverVerdict>>
  /\ UNCHANGED <<s2c, chunks, ended>> /\ UNCHANGED clientVars

\* mutant: V is computed once for the log and once for the frame
ServerSendShareTwice ==
  /\ spc = "share"
  /\ \E g, h \in Garbage :
       /\ v' = CppComputeBobShare(mcValues, g)
       /\ ServerWrites(MTAShare(CppComputeBobShare(mcValues, h)), "printShare", c2s)
  /\ UNCHANGED <<y, sessionDebug, b, key, mcValues, verified, printedV, serverVerdict>>
  /\ UNCHANGED <<chunks, ended>> /\ UNCHANGED clientVars

\* compute_bob_share and the write of V.
ServerSendShare ==
  /\ spc = "share"
  /\ \E g \in Garbage :
       LET share == CppComputeBobShare(mcValues, g) IN
       v' = share /\ ServerWrites(MTAShare(share), "printShare", c2s)
  /\ UNCHANGED <<y, sessionDebug, b, key, mcValues, verified, printedV, serverVerdict>>
  /\ UNCHANGED <<chunks, ended>> /\ UNCHANGED clientVars

\* mutant: the server closes after V whatever was configured
ServerPrintShareAndClose ==
  /\ spc = "printShare"
  /\ printedV' = v
  /\ spc' = "done" /\ ServerCloses(c2s)
  /\ UNCHANGED <<y, sessionDebug, b, key, mcValues, v, verified, serverVerdict, serr>>
  /\ UNCHANGED <<s2c, chunks, ended>> /\ UNCHANGED clientVars

\* V is printed after it has been written; without debug_reveal run() returns.
ServerPrintShare ==
  /\ spc = "printShare"
  /\ printedV' = v
  /\ IF sessionDebug
     THEN spc' = "reveal" /\ UNCHANGED <<c2s, serverSide>>
     ELSE spc' = "done" /\ ServerCloses(c2s)
  /\ UNCHANGED <<y, sessionDebug, b, key, mcValues, v, verified, serverVerdict, serr>>
  /\ UNCHANGED <<s2c, chunks, ended>> /\ UNCHANGED clientVars

ServerReadReveal ==
  /\ spc = "reveal" /\ c2s # <<>>
  /\ IF Head(c2s).type # "DebugRevealRequest"
     THEN ServerFails("decode", Tail(c2s)) /\ UNCHANGED <<verified, s2c>>
     ELSE \E bnXy, bnUv \in Garbage :
          \E ok \in CppVerifyMta(y, v, bnXy, bnUv) :
            /\ verified' = ok
            /\ ServerWrites(DebugRevealResponse(y, ok), "printVerdict", Tail(c2s))
  /\ UNCHANGED <<y, sessionDebug, b, key, mcValues, v, printedV, serverVerdict>>
  /\ UNCHANGED <<chunks, ended>> /\ UNCHANGED clientVars

\* The verdict is printed after it has been written, and run() returns.
ServerPrintVerdict ==
  /\ spc = "printVerdict"
  /\ serverVerdict' = VerdictText(verified)
  /\ spc' = "done" /\ ServerCloses(c2s)
  /\ UNCHANGED <<y, sessionDebug, b, key, mcValues, v, verified, printedV, serr>>
  /\ UNCHANGED <<s2c, chunks, ended>> /\ UNCHANGED clientVars

\* recv returns 0 or an error: the client has closed, or was killed with unread
\* data, in which case what it had sent may be lost.
ServerReceiveFails ==
  /\ spc \in {"config", "init", "encrypted", "reveal"}
  /\ ClientDone
  /\ ServerFails("receive", <<>>)
  /\ UNCHANGED <<y, sessionDebug, b, key, mcValues, v, verified, printedV, serverVerdict>>
  /\ UNCHANGED <<s2c, chunks, ended>> /\ UNCHANGED clientVars

\* Also between a write and the line of the log that reports it.
ServerKilled ==
  /\ "server" \in Killable /\ ~ServerDone
  /\ ServerFails("killed", c2s)
  /\ UNCHANGED <<y, sessionDebug, b, key, mcValues, v, verified, printedV, serverVerdict>>
  /\ UNCHANGED <<s2c, chunks, ended>> /\ UNCHANGED clientVars
-----------------------------------------------------------------------------
ClientStep ==
  \/ ClientSendConfig \/ ClientConfigWritten \/ ClientInitWritten
  \/ ClientReadResponse \/ ClientEncryptedWritten \/ ClientReadShare
  \/ ClientRequestWritten \/ ClientReadReveal \/ ClientExitsSilently

Delivery == DataArrives \/ EndArrives \/ ResetArrives \/ LateFrameReset

ServerStep ==
  \/ ServerReadConfig \/ ServerReadInit \/ ServerReadEncrypted
  \/ ServerSendShare \/ ServerPrintShare \/ ServerReadReveal
  \/ ServerPrintVerdict \/ ServerReceiveFails

Killed == ClientKilled \/ ServerKilled

\* Both processes have exited: the only state in which nothing more need happen.
Finished == ClientDone /\ ServerDone /\ UNCHANGED vars

Next == ClientStep \/ Delivery \/ ServerStep \/ Killed \/ Finished

Spec == Init /\ [][Next]_vars

\* Both processes are scheduled and TCP delivers; nothing obliges a kill.
Fairness ==
  /\ WF_vars(ClientStep) /\ WF_vars(ServerStep)
  /\ WF_vars(DataArrives) /\ WF_vars(EndArrives) /\ WF_vars(ResetArrives)
  /\ WF_vars(LateFrameReset)

FairSpec == Spec /\ Fairness
-----------------------------------------------------------------------------
(* Properties.                                                             *)

Frame ==
  [type : {"SessionConfig"}, debugReveal : BOOLEAN]
  \cup [type : {"OTInit"}, pointA : Point, bitIndex : Nat]
  \cup [type : {"OTResponse"}, pointB : Point]
  \cup [type : {"OTEncrypted"}, m0 : Word, m1 : Word]
  \cup [type : {"MTAShare"}, additiveShare : Residue]
  \cup [type : {"DebugRevealRequest"}, x : Scalar, u : Residue]
  \cup [type : {"DebugRevealResponse"}, y : Scalar, verified : BOOLEAN]

Verdict == {"unavailable", "ok", "failed"}

ClientTypes ==
  /\ x \in Secret /\ debugReveal \in BOOLEAN
  /\ cpc \in {"start", "configW", "initW", "responseR", "encryptedW", "shareR",
              "requestW", "revealR", "done", "failed", "silent"}
  /\ a \in Ephemeral \cup {0} /\ m0 \in Mask \cup {0} /\ uiValues \in Seq(Mask)
  /\ clientV \in Residue \cup {None} /\ clientY \in Secret \cup {None}
  /\ clientVerdict \in Verdict
  /\ cerr \in {"none", "decode", "infinity", "write after end", "closed", "reset", "killed"}

ServerTypes ==
  /\ spc \in {"config", "init", "encrypted", "share", "printShare", "reveal",
              "printVerdict", "done", "failed"}
  /\ y \in Secret \cup {0} /\ sessionDebug \in BOOLEAN
  /\ b \in Ephemeral \cup {0} /\ key \in Word \cup {None}
  /\ mcValues \in Seq(Word) /\ v \in Residue \cup {None} /\ verified \in BOOLEAN
  /\ printedV \in Residue \cup {None} /\ serverVerdict \in Verdict
  /\ serr \in {"none", "decode", "bit index", "infinity", "send", "receive", "killed"}

ConnectionTypes ==
  /\ c2s \in Seq(Frame) /\ s2c \in Seq(Frame) /\ chunks \in Seq(Frame)
  /\ ended \in BOOLEAN /\ serverSide \in {"open", "fin", "rst"}

\* The state has the types the code declares, and no process is anywhere but at
\* one of its await, recv or print points.
TypeOK == ClientTypes /\ ServerTypes /\ ConnectionTypes

\* The frames carry no type on the wire: a reader decodes what it expects next
\* (server.cpp:139-171, client.ts:311-345).  However the two processes, the
\* callbacks and the closing of the connection interleave, and though up to two
\* frames are under way to the server, no frame is ever decoded as another
\* message and no bit index is out of step.
FramesInLockstep ==
  cerr # "decode" /\ serr \notin {"decode", "bit index"}

\* The masks the client has committed to: those pushed and the current one.
Offered == Append(uiValues, m0)

\* Whatever the server has decrypted is the client's mask of that round plus the
\* round's bit of y times x, for the mask the client will aggregate.
CorrelatedRounds ==
  \A i \in 1 .. Len(mcValues) :
    mcValues[i] = (Offered[i] + GetBit(y, i-1) * x) % N

\* After the last transfer, what the two sides hold determines additive shares of
\* x * y, under the aggregation both sides document.
RoundsDetermineProduct ==
  Len(mcValues) = K =>
    Verify(x, y, ComputeAliceShare(SubSeq(Offered, 1, K)), ComputeBobShare(mcValues))

\* The two loops are never more than a round apart, in either direction: the
\* server may decrypt before the client's write callback runs, and the callback
\* may run before the server has read the frame.
RoundSkew ==
  /\ Len(mcValues) <= Len(uiValues) + 1
  /\ Len(uiValues) <= Len(mcValues) + 1

Printing == spc \in {"printShare", "printVerdict"}

\* What is to stand in the server's log at the end.
LogComplete == IF debugReveal THEN serverVerdict # "unavailable" ELSE printedV # None

\* A client that has completed, after all transfers, holds what the server holds: the
\* V it computed, and with --debug-reveal its y and its verdict.  What the server
\* prints of it after the write is the same, and is missing only until the server
\* gets to it (server.cpp:181,194) or if the server is killed before.
DoneMeansAgreed ==
  cpc = "done" =>
    /\ Len(mcValues) = K /\ Len(uiValues) = K
    /\ clientV = v /\ v # None
    /\ IF debugReveal
       THEN /\ clientY = y /\ clientVerdict = VerdictText(verified)
            /\ printedV = clientV /\ serverVerdict \in {"unavailable", clientVerdict}
       ELSE clientY = None /\ printedV \in {None, clientV}
    /\ LogComplete \/ Printing \/ serr = "killed"

RootCause == {"killed", "infinity"}

\* Nothing goes wrong by itself: if a process fails, one of them was killed or a
\* sum of points had no encoding.  In particular the server's close after its last
\* write fails neither a pending write nor the last read of the client.
FailureHasRootCause ==
  cpc \in {"failed", "silent"} \/ spc = "failed" =>
    cerr \in RootCause \/ serr \in RootCause

\* An abort for want of an encoding happens in exactly two cases, one per value of
\* the choice bit: B = bG + A with bG = -A, found by the server, and B = bG with
\* bG = A, found by the client.
AbortsOnlyOnCollision ==
  /\ serr = "infinity" =>
       /\ GetBit(y, Len(mcValues)) = 1
       /\ Add(MulG(b), MulG(a)) = Infinity
  /\ cerr = "infinity" =>
       /\ GetBit(y, Len(mcValues)) = 0
       /\ PointSubtract(MulG(b), MulG(a)) = Infinity

Ideal == INSTANCE CorrelatedOT WITH
           us <- SubSeq(Offered, 1, Len(mcValues)), mcs <- mcValues

\* The session implements correlated OT: what Bob holds only ever grows by one
\* correlated pair, against masks of Alice that are fixed from then on.
RefinesCorrelatedOT == Ideal!Spec

\* No session hangs: both processes come to an end, though neither has a timeout.
EverySessionEnds == <>[](ClientDone /\ ServerDone)

\* Once the server has completed, the client completes too, unless it is killed:
\* the share sent just before the close is not lost, even when the close is
\* noticed before a write callback.
ServerDoneCompletesClient == spc = "done" ~> (cpc = "done" \/ cerr = "killed")
-----------------------------------------------------------------------------
(* What the documents and the code say of the program; see the findings.   *)

\* README: the additive shares satisfy U + V = x * y mod n.
PrintedSharesMultiply ==
  cpc = "done" => Verify(x, y, ComputeAliceShare(uiValues), clientV)

\* README: the verification is the check x * y == U + V; ok is printed of shares for
\* which it holds.
VerdictIsTruthful ==
  cpc = "done" /\ debugReveal /\ clientVerdict = "ok" =>
    Verify(x, y, ComputeAliceShare(uiValues), clientV)

\* client.ts:111-113: a read that finds the socket ended throws.
NoSilentExit == cpc # "silent"
=============================================================================
