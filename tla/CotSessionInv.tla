--------------------------- MODULE CotSessionInv ---------------------------
(***************************************************************************)
(* The inductive invariant of CotSession: how many frames each side has    *)
(* sent and taken at each of its control points, what the frames in flight *)
(* are, and what follows for the values the two sides hold.                *)
(***************************************************************************)
EXTENDS CotSession

I == Len(uiValues)     \* the client's round
J == Len(mcValues)     \* the server's round (bit_idx)

Sending  == Len(c2s)                    \* frames under way to the server
Arriving == Len(chunks) + Len(s2c)      \* and to the client

(* Frames written and read so far by a side that has not failed. *)

ClientSent ==
  CASE cpc = "start"                  -> 0
    [] cpc = "configW"                -> 1
    [] cpc \in {"initW", "responseR"} -> 2 * I + 2
    [] cpc = "encryptedW"             -> 2 * I + 3
    [] cpc = "shareR"                 -> 2 * K + 1
    [] OTHER                          -> 2 * K + 2

ClientTaken ==
  CASE cpc \in {"start", "configW", "initW", "responseR"} -> I
    [] cpc = "encryptedW"                                 -> I + 1
    [] cpc = "shareR"                                     -> K
    [] OTHER                                              -> K + 1

ServerTaken ==
  CASE spc = "config"                -> 0
    [] spc = "init"                  -> 2 * J + 1
    [] spc = "encrypted"             -> 2 * J + 2
    [] spc \in {"share", "printShare", "reveal"} -> 2 * K + 1
    [] OTHER                         -> IF sessionDebug THEN 2 * K + 2 ELSE 2 * K + 1

ServerSent ==
  CASE spc \in {"config", "init"}    -> J
    [] spc = "encrypted"             -> J + 1
    [] spc = "share"                 -> K
    [] spc \in {"printShare", "reveal"} -> K + 1
    [] OTHER                         -> IF sessionDebug THEN K + 2 ELSE K + 1

\* While both sides are up, or the server has completed, no frame is lost.
Balanced ==
  ~ClientDone /\ spc # "failed" =>
    /\ ClientSent = ServerTaken + Sending
    /\ ServerSent = ClientTaken + Arriving

\* Where the two sides can be relative to each other while neither has failed, a
\* consequence of the counts: never more than two frames under way to the server,
\* nor more than one to the client.
Phase ==
  \/ cpc = "start" /\ spc = "config" /\ Sending = 0 /\ Arriving = 0
  \/ cpc = "configW" /\ I = 0 /\ J = 0 /\ Arriving = 0
       /\ \/ spc = "config" /\ Sending = 1
          \/ spc = "init" /\ Sending = 0
  \/ cpc \in {"initW", "responseR"} /\ I < K
       /\ \/ spc = "config" /\ I = 0 /\ J = 0 /\ Sending = 2 /\ Arriving = 0
          \/ spc = "init" /\ J = I /\ Sending = 1 /\ Arriving = 0
          \/ spc = "encrypted" /\ J + 1 = I /\ Sending = 2 /\ Arriving = 0
          \/ spc = "encrypted" /\ J = I /\ Sending = 0 /\ Arriving = 1
  \/ cpc = "encryptedW" /\ I < K
       /\ \/ spc = "encrypted" /\ J = I /\ Sending = 1 /\ Arriving = 0
          \/ spc = "init" /\ J = I + 1 /\ J < K /\ Sending = 0 /\ Arriving = 0
          \/ spc = "share" /\ J = I + 1 /\ J = K /\ Sending = 0 /\ Arriving = 0
          \/ spc \in {"printShare", "reveal"} /\ J = I + 1 /\ J = K /\ Sending = 0 /\ Arriving = 1
          \/ spc = "done" /\ ~sessionDebug /\ J = I + 1 /\ J = K /\ Sending = 0 /\ Arriving = 1
  \/ cpc = "shareR" /\ I = K
       /\ \/ spc = "encrypted" /\ J + 1 = I /\ Sending = 1 /\ Arriving = 0
          \/ spc = "share" /\ J = I /\ Sending = 0 /\ Arriving = 0
          \/ spc \in {"printShare", "reveal"} /\ J = I /\ Sending = 0 /\ Arriving = 1
          \/ spc = "done" /\ ~sessionDebug /\ J = I /\ Sending = 0 /\ Arriving = 1
  \/ cpc \in {"requestW", "revealR"} /\ I = K /\ J = K
       /\ \/ spc \in {"printShare", "reveal"} /\ Sending = 1 /\ Arriving = 0
          \/ spc \in {"printVerdict", "done"} /\ sessionDebug /\ Sending = 0 /\ Arriving = 1
-----------------------------------------------------------------------------
ClientControl ==
  /\ I <= K
  /\ cpc \in {"start", "configW"} => I = 0 /\ J = 0
  /\ cpc \in {"initW", "responseR", "encryptedW"} => I < K /\ a \in Ephemeral /\ m0 \in Mask
  /\ cpc = "encryptedW" => I <= J
  /\ cpc \in {"shareR", "requestW", "revealR"} => I = K
  /\ cpc \in {"requestW", "revealR"} =>
       debugReveal /\ clientV = v /\ v \in Residue /\ J = K
  /\ cpc = "done" =>
       spc \in {IF debugReveal THEN "printVerdict" ELSE "printShare", "done", "failed"}
  /\ clientY # None => debugReveal
  /\ cerr = "infinity" => cpc = "failed"

ServerControl ==
  /\ J <= K
  /\ spc = "config" => J = 0 /\ y = 0
  /\ y = 0 => J = 0
  /\ spc \notin {"config", "failed"} => y \in Secret /\ sessionDebug = debugReveal
  /\ spc \in {"init", "encrypted"} => J < K
  /\ spc = "encrypted" => key \in Word
  /\ spc \in {"share", "printShare", "reveal", "printVerdict", "done"} => J = K
  /\ spc \in {"printShare", "reveal", "printVerdict", "done"} => v \in Residue
  /\ spc \in {"reveal", "printVerdict"} => sessionDebug
  /\ serr = "infinity" => spc = "failed"

\* What the server has printed at each control point.
ServerLog ==
  /\ printedV \in {None, v}
  /\ spc \in {"config", "init", "encrypted", "share", "printShare"} => printedV = None
  /\ spc \in {"reveal", "printVerdict", "done"} => printedV = v
  /\ serverVerdict =
       IF spc = "done" /\ sessionDebug THEN VerdictText(verified) ELSE "unavailable"

\* How the connection closes.
Closing ==
  /\ serverSide = "open" <=> ~ServerDone
  /\ spc = "done" /\ ~ClientDone => serverSide = "fin"
  /\ ended => s2c = <<>> /\ ServerDone
-----------------------------------------------------------------------------
\* Under the server's key and choice bit, an encrypted pair opens to the mask of
\* the server's round plus the bit's multiple of x.
Opens(e) ==
  /\ J <= I
  /\ Offered[J + 1] \in Mask
  /\ BobDecrypt(GetBit(y, J), key, e) = (Offered[J + 1] + GetBit(y, J) * x) % N

\* The frames on their way to a server that is still reading: those its control
\* point asks for, an OTInit carrying the point of the client's current round.
ToServer ==
  ~ServerDone =>
    \/ c2s = <<>>
    \/ /\ spc = "config"
       /\ \/ c2s = <<SessionConfig(debugReveal)>>
          \/ a \in Ephemeral /\ c2s = <<SessionConfig(debugReveal), OTInit(MulG(a), 0)>>
    \/ /\ spc = "init" /\ a \in Ephemeral
       /\ c2s = <<OTInit(MulG(a), J)>>
    \/ /\ spc = "encrypted"
       /\ \E e \in [m0 : Word, m1 : Word] :
            /\ Opens(e)
            /\ \/ c2s = <<OTEncrypted(e)>>
               \/ /\ J + 1 < K /\ a \in Ephemeral
                  /\ c2s = <<OTEncrypted(e), OTInit(MulG(a), J + 1)>>
    \/ /\ spc \in {"printShare", "reveal"} /\ sessionDebug
       /\ c2s = <<DebugRevealRequest(x, ComputeAliceShare(uiValues))>>

\* f is the only frame on its way to the client.
Inbound(f) ==
  \/ chunks = <<f>> /\ s2c = <<>>
  \/ chunks = <<>>  /\ s2c = <<f>>

Choice == BobPoint(GetBit(y, J), b, MulG(a))

\* The frame on its way to a client that is still reading.
FromServer ==
  ~ClientDone =>
    \/ chunks = <<>> /\ s2c = <<>>
    \/ /\ cpc \in {"initW", "responseR"} /\ spc \in {"encrypted", "failed"}
       /\ J = I /\ y \in Secret /\ b \in Ephemeral
       /\ Choice \in Point /\ key = BobKey(b, MulG(a))
       /\ Inbound(OTResponse(Choice))
    \/ /\ cpc \in {"encryptedW", "shareR"} /\ (cpc = "encryptedW" => I + 1 = K)
       /\ J = K /\ v \in Residue
       /\ spc \in {"printShare", IF debugReveal THEN "reveal" ELSE "done", "failed"}
       /\ spc = "failed" => serr = "killed"
       /\ Inbound(MTAShare(v))
    \/ /\ cpc \in {"requestW", "revealR"} /\ spc \in {"printVerdict", "done", "failed"}
       /\ spc = "failed" => serr = "killed"
       /\ y \in Secret /\ printedV = v
       /\ Inbound(DebugRevealResponse(y, verified))

\* A side that gave up for want of an encoding has nothing more to read, and
\* leaves the other where it was.
Stranded ==
  /\ serr = "infinity" /\ ~ClientDone =>
       cpc \in {"initW", "responseR"} /\ chunks = <<>> /\ s2c = <<>>
  /\ cerr = "infinity" /\ ~ServerDone => spc = "encrypted" /\ c2s = <<>>
-----------------------------------------------------------------------------
IInv ==
  /\ ClientTypes /\ ServerTypes /\ ConnectionTypes
  /\ Balanced /\ ClientControl /\ ServerControl /\ ServerLog /\ Closing
  /\ ToServer /\ FromServer /\ Stranded
=============================================================================
