---------------------------- MODULE FramedSocket ----------------------------
(***************************************************************************)
(* The byte stream from the server to the client:                          *)
(*    write_framed and Socket::send of server/src/server.cpp               *)
(*    FramedSocket.read of client/src/client.ts                            *)
(*                                                                         *)
(* The server hands its bytes to the kernel in as many pieces as the       *)
(* kernel likes; they reach the client's 'data' listener in pieces that    *)
(* have nothing to do with those.  In the client an event is delivered     *)
(* only when no continuation is pending: once a read has the bytes it      *)
(* waits for, its consume loop runs to the end before the next event.      *)
(***************************************************************************)
EXTENDS Framing

VARIABLES
  \* the server
  wpc,       \* "idle", in the send of a "header" or a "body", or "closed"
  ptr,       \* the bytes the current Socket::send has still to send
  \* the connection
  wire,      \* bytes under way
  peer,      \* the server's end: "open", "fin" or "rst"
  \* the client's FramedSocket
  chunks, bufferedLength, ended,
  rpc,       \* "idle" (no read), "await" (in waitForBytes), "consume", "failed"
  part,      \* what the read is at: its "header" or its "body"
  required,  \* the argument of waitForBytes and of consume
  out,       \* the bytes consume has copied
  \* history
  sent,      \* the bodies given to write_framed
  whole,     \* how many of them were sent to the last byte
  received   \* the bodies read has returned

writerVars == <<wpc, ptr, sent, whole>>
readerVars == <<chunks, bufferedLength, ended, rpc, part, required, out, received>>
vars       == <<writerVars, wire, peer, readerVars>>

Init ==
  /\ wpc = "idle" /\ ptr = <<>> /\ wire = <<>> /\ peer = "open"
  /\ chunks = <<>> /\ bufferedLength = 0 /\ ended = FALSE
  /\ rpc = "idle" /\ part = "header" /\ required = 0 /\ out = <<>>
  /\ sent = <<>> /\ whole = 0 /\ received = <<>>
-----------------------------------------------------------------------------
(* The server: write_framed, and the ways its socket comes to be closed.   *)

WriteFramed(body) ==
  /\ wpc = "idle" /\ Len(sent) < MaxFrames
  /\ sent' = Append(sent, body)
  /\ wpc' = "header" /\ ptr' = Header(Len(body))
  /\ UNCHANGED <<whole, wire, peer>> /\ UNCHANGED readerVars

\* The header is followed by a body.
BodyFollows == wpc = "header" /\ Last(sent) # <<>>

\* One ::send: it takes any number of the bytes it is offered.
Send(n) ==
  /\ wpc \in {"header", "body"} /\ n \in 1 .. Len(ptr)
  /\ wire' = wire \o SubSeq(ptr, 1, n)
  /\ ptr' = SubSeq(ptr, n + 1, Len(ptr))
  /\ whole' = IF n = Len(ptr) /\ ~BodyFollows THEN whole + 1 ELSE whole
  /\ UNCHANGED <<wpc, sent, peer>> /\ UNCHANGED readerVars

\* Socket::send returns: write_framed goes on to the body, if there is one.
SendReturns ==
  /\ wpc \in {"header", "body"} /\ ptr = <<>>
  /\ IF BodyFollows
     THEN wpc' = "body" /\ ptr' = Last(sent)
     ELSE wpc' = "idle" /\ UNCHANGED ptr
  /\ UNCHANGED <<sent, whole, wire, peer>> /\ UNCHANGED readerVars

\* The session is over, throws, or the process is killed, in the middle of a
\* frame too: the kernel still delivers what was sent.
Closes ==
  /\ wpc # "closed"
  /\ wpc' = "closed" /\ ptr' = <<>> /\ peer' = "fin"
  /\ UNCHANGED <<sent, whole, wire>> /\ UNCHANGED readerVars

\* The kernel resets the connection: what is under way may be lost.
Resets ==
  /\ peer # "rst"
  /\ wpc' = "closed" /\ ptr' = <<>> /\ peer' = "rst"
  /\ wire' \in {wire, <<>>}
  /\ UNCHANGED <<sent, whole>> /\ UNCHANGED readerVars
-----------------------------------------------------------------------------
(* The client.                                                             *)

\* mutant: waits for more bytes than are needed
WaitForBytesStrict(n, p) ==
  /\ part' = p /\ required' = n /\ out' = <<>>
  /\ rpc' = IF bufferedLength > n THEN "consume" ELSE "await"

\* waitForBytes(n) up to its await.  When the condition holds already it returns,
\* and consume(n) is called; otherwise the three listeners are registered.
WaitForBytes(n, p) ==
  /\ part' = p /\ required' = n /\ out' = <<>>
  /\ rpc' = IF bufferedLength >= n THEN "consume" ELSE "await"

Read ==
  /\ rpc = "idle"
  /\ WaitForBytes(HeaderSize, "header")
  /\ UNCHANGED <<chunks, bufferedLength, ended, received, wire, peer>>
  /\ UNCHANGED writerVars

\* mutant: the chunk alone is compared with what is required
DataArrivesChunkOnly(n) ==
  /\ rpc # "consume" /\ rpc # "failed" /\ ~ended /\ n \in 1 .. Len(wire)
  /\ chunks' = Append(chunks, SubSeq(wire, 1, n))
  /\ wire' = SubSeq(wire, n + 1, Len(wire))
  /\ bufferedLength' = bufferedLength + n
  /\ rpc' = IF rpc = "await" /\ n >= required THEN "consume" ELSE rpc
  /\ UNCHANGED <<ended, part, required, out, received, peer>> /\ UNCHANGED writerVars

\* 'data' with a chunk of n bytes: the constructor's listener queues it, then the
\* one of waitForBytes looks whether there is enough.
DataArrives(n) ==
  /\ rpc # "consume" /\ rpc # "failed" /\ ~ended /\ n \in 1 .. Len(wire)
  /\ chunks' = Append(chunks, SubSeq(wire, 1, n))
  /\ wire' = SubSeq(wire, n + 1, Len(wire))
  /\ bufferedLength' = bufferedLength + n
  /\ rpc' = IF rpc = "await" /\ bufferedLength' >= required THEN "consume" ELSE rpc
  /\ UNCHANGED <<ended, part, required, out, received, peer>> /\ UNCHANGED writerVars

\* 'end' follows the last chunk; a waiting read rejects.
EndArrives ==
  /\ rpc # "consume" /\ rpc # "failed" /\ ~ended /\ peer = "fin" /\ wire = <<>>
  /\ ended' = TRUE
  /\ rpc' = IF rpc = "await" THEN "failed" ELSE rpc
  /\ UNCHANGED <<chunks, bufferedLength, part, required, out, received, wire, peer>>
  /\ UNCHANGED writerVars

\* 'error': a waiting read rejects, without one the event is uncaught.
ErrorArrives ==
  /\ rpc # "consume" /\ rpc # "failed" /\ peer = "rst"
  /\ rpc' = "failed"
  /\ UNCHANGED <<chunks, bufferedLength, ended, part, required, out, received, wire, peer>>
  /\ UNCHANGED writerVars

Remaining == required - Len(out)

\* mutant: a chunk that is used up is not accounted for
ConsumeChunkUnaccounted ==
  /\ rpc = "consume" /\ Remaining > 0 /\ chunks # <<>>
  /\ LET chunk == Head(chunks)
         take  == IF Remaining < Len(chunk) THEN Remaining ELSE Len(chunk) IN
       /\ out' = out \o SubSeq(chunk, 1, take)
       /\ IF take = Len(chunk)
          THEN chunks' = Tail(chunks) /\ UNCHANGED bufferedLength
          ELSE /\ chunks' = [chunks EXCEPT ![1] = SubSeq(chunk, take + 1, Len(chunk))]
               /\ bufferedLength' = bufferedLength - take
  /\ UNCHANGED <<ended, rpc, part, required, received, wire, peer>> /\ UNCHANGED writerVars

\* mutant: the rest of a chunk is dropped
ConsumeChunkWhole ==
  /\ rpc = "consume" /\ Remaining > 0 /\ chunks # <<>>
  /\ LET chunk == Head(chunks)
         take  == IF Remaining < Len(chunk) THEN Remaining ELSE Len(chunk) IN
       /\ out' = out \o SubSeq(chunk, 1, take)
       /\ chunks' = Tail(chunks)
       /\ bufferedLength' = bufferedLength - Len(chunk)
  /\ UNCHANGED <<ended, rpc, part, required, received, wire, peer>> /\ UNCHANGED writerVars

\* An iteration of consume's loop.
ConsumeChunk ==
  /\ rpc = "consume" /\ Remaining > 0 /\ chunks # <<>>
  /\ LET chunk == Head(chunks)
         take  == IF Remaining < Len(chunk) THEN Remaining ELSE Len(chunk) IN
       /\ out' = out \o SubSeq(chunk, 1, take)
       /\ chunks' = IF take = Len(chunk) THEN Tail(chunks)
                    ELSE [chunks EXCEPT ![1] = SubSeq(chunk, take + 1, Len(chunk))]
       /\ bufferedLength' = bufferedLength - take
  /\ UNCHANGED <<ended, rpc, part, required, received, wire, peer>> /\ UNCHANGED writerVars

\* consume(4) returns: the read goes on to the body.
HeaderConsumed ==
  /\ rpc = "consume" /\ part = "header" /\ Remaining = 0
  /\ WaitForBytes(HeaderSizeOf(out), "body")
  /\ UNCHANGED <<chunks, bufferedLength, ended, received, wire, peer>>
  /\ UNCHANGED writerVars

\* consume(size) returns, and with it the read.
BodyConsumed ==
  /\ rpc = "consume" /\ part = "body" /\ Remaining = 0
  /\ received' = Append(received, out)
  /\ rpc' = "idle" /\ part' = "header" /\ out' = <<>> /\ required' = 0
  /\ UNCHANGED <<chunks, bufferedLength, ended, wire, peer>> /\ UNCHANGED writerVars
-----------------------------------------------------------------------------
ServerWrites == SendReturns \/ \E n \in 1 .. Len(ptr) : Send(n)

ClientTurn == ConsumeChunk \/ HeaderConsumed \/ BodyConsumed

Arrival == EndArrives \/ ErrorArrives \/ \E n \in 1 .. Len(wire) : DataArrives(n)

\* A read that began after 'end': the event it waits for will not come (see
\* ClientExitsSilently in CotSession).
AwaitsInVain == rpc = "await" /\ ended

\* The server has closed and the client reads no more.
Finished ==
  /\ wpc = "closed" /\ (rpc = "failed" \/ AwaitsInVain)
  /\ UNCHANGED vars

Next ==
  \/ \E body \in Body : WriteFramed(body)
  \/ ServerWrites \/ Closes \/ Resets
  \/ Read \/ ClientTurn \/ Arrival
  \/ Finished

Spec == Init /\ [][Next]_vars

\* The server's send makes progress, TCP delivers what was sent, the client's
\* event loop turns, and its caller reads again.
FairSpec ==
  Spec /\ WF_vars(ServerWrites) /\ WF_vars(Arrival) /\ WF_vars(ClientTurn) /\ WF_vars(Read)
-----------------------------------------------------------------------------
(* Properties.                                                             *)

TypeOK ==
  /\ wpc \in {"idle", "header", "body", "closed"} /\ ptr \in Seq(Byte)
  /\ wire \in Seq(Byte) /\ peer \in {"open", "fin", "rst"}
  /\ chunks \in Seq(Seq(Byte)) /\ bufferedLength \in Nat /\ ended \in BOOLEAN
  /\ rpc \in {"idle", "await", "consume", "failed"} /\ part \in {"header", "body"}
  /\ required \in Nat /\ out \in Seq(Byte)
  /\ sent \in Seq(Body) /\ whole \in Nat /\ received \in Seq(Body)

\* bufferedLength, kept by two listeners and a loop, is the number of bytes in
\* chunks, and what consume is to copy is there: its chunk is never undefined and
\* the check after the await of waitForBytes never throws.
BufferAccounted ==
  /\ bufferedLength = Len(FlattenSeq(chunks))
  /\ rpc = "consume" => Remaining <= bufferedLength

\* A frame that was sent to its last byte is not lost to the end of the connection
\* that follows it: a read fails, or waits in vain, only when all of them have been
\* returned.  (After a reset nothing is promised.)
EndLosesNoFrame ==
  peer # "rst" /\ (rpc = "failed" \/ AwaitsInVain) => Len(received) = whole

\* The reads return what was written, in order and once.
Channel == INSTANCE FrameChannel
RefinesFrameChannel == Channel!Spec

\* A frame sent to its last byte is eventually returned by a read, unless the
\* connection is reset: no split of the stream leaves a read waiting for bytes
\* that are in its buffer.
FramesArrive ==
  \A n \in 1 .. MaxFrames : whole >= n ~> Len(received) >= n \/ peer = "rst"
=============================================================================
