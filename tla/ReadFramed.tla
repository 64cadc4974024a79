----------------------------- MODULE ReadFramed -----------------------------
(***************************************************************************)
(* The byte stream from the client to the server:                          *)
(*    FramedSocket.write of client/src/client.ts                           *)
(*    Socket::receive and read_framed of server/src/server.cpp             *)
(*                                                                         *)
(* The client hands a whole frame to its socket, and does not write again  *)
(* before the callback; libuv moves the bytes to the kernel in pieces.     *)
(* The server's recv blocks, and returns any number of the bytes it has    *)
(* asked for.                                                              *)
(***************************************************************************)
EXTENDS Framing

VARIABLES
  \* the client
  wpc,       \* "idle", "pending" (the callback has not run) or "closed"
  payload,   \* the bytes of the frame the kernel has not taken yet
  \* the connection
  wire,      \* bytes the kernel has taken and recv has not returned
  peer,      \* the client's end: "open", "fin" or "rst"
  \* the server
  rpc,       \* "idle", in the receive of a "header" or a "body", or "failed"
  size,      \* what the receive was called with
  buffer,    \* the bytes received so far
  \* history
  sent, whole, received      \* as in FramedSocket

clientVars == <<wpc, payload, sent, whole>>
serverVars == <<rpc, size, buffer, received>>
vars       == <<clientVars, wire, peer, serverVars>>

Init ==
  /\ wpc = "idle" /\ payload = <<>> /\ wire = <<>> /\ peer = "open"
  /\ rpc = "idle" /\ size = 0 /\ buffer = <<>>
  /\ sent = <<>> /\ whole = 0 /\ received = <<>>
-----------------------------------------------------------------------------
(* The client.                                                             *)

\* mutant: the header is left out for an empty body
WriteNonEmpty(body) ==
  /\ wpc = "idle" /\ Len(sent) < MaxFrames
  /\ sent' = Append(sent, body)
  /\ wpc' = "pending" /\ payload' = IF body = <<>> THEN <<>> ELSE Encode(body)
  /\ UNCHANGED <<whole, wire, peer>> /\ UNCHANGED serverVars

\* write up to its await.
Write(body) ==
  /\ wpc = "idle" /\ Len(sent) < MaxFrames
  /\ sent' = Append(sent, body)
  /\ wpc' = "pending" /\ payload' = Encode(body)
  /\ UNCHANGED <<whole, wire, peer>> /\ UNCHANGED serverVars

\* The kernel takes n bytes.
Flush(n) ==
  /\ n \in 1 .. Len(payload)
  /\ wire' = wire \o SubSeq(payload, 1, n)
  /\ payload' = SubSeq(payload, n + 1, Len(payload))
  /\ whole' = IF payload' = <<>> THEN whole + 1 ELSE whole
  /\ UNCHANGED <<wpc, sent, peer>> /\ UNCHANGED serverVars

\* The write callback runs, and the await returns.
Written ==
  /\ wpc = "pending" /\ payload = <<>>
  /\ wpc' = "idle"
  /\ UNCHANGED <<payload, sent, whole, wire, peer>> /\ UNCHANGED serverVars

\* close(): socket.end() between writes, or the process is killed at any time.
Closes ==
  /\ wpc # "closed"
  /\ wpc' = "closed" /\ payload' = <<>> /\ peer' = "fin"
  /\ UNCHANGED <<sent, whole, wire>> /\ UNCHANGED serverVars

\* The kernel resets the connection: what is under way may be lost.
Resets ==
  /\ peer # "rst"
  /\ wpc' = "closed" /\ payload' = <<>> /\ peer' = "rst"
  /\ wire' \in {wire, <<>>}
  /\ UNCHANGED <<sent, whole>> /\ UNCHANGED serverVars
-----------------------------------------------------------------------------
(* The server.                                                             *)

\* Socket::receive is called.
Receive(n, pc) == rpc' = pc /\ size' = n /\ buffer' = <<>>

\* read_framed is called.
Read ==
  /\ rpc = "idle"
  /\ Receive(HeaderSize, "header")
  /\ UNCHANGED <<received, wire, peer>> /\ UNCHANGED clientVars

Receiving == rpc \in {"header", "body"} /\ Len(buffer) < size

\* One ::recv of receive's loop: at least a byte, at most what is still wanted.
Recv(n) ==
  /\ Receiving /\ n \in 1 .. Len(wire) /\ n <= size - Len(buffer)
  /\ buffer' = buffer \o SubSeq(wire, 1, n)
  /\ wire' = SubSeq(wire, n + 1, Len(wire))
  /\ UNCHANGED <<rpc, size, received, peer>> /\ UNCHANGED clientVars

\* mutant: the end of the connection is noticed before the bytes that precede it
RecvFailsEarly ==
  /\ Receiving /\ peer \in {"fin", "rst"}
  /\ rpc' = "failed"
  /\ UNCHANGED <<size, buffer, received, wire, peer>> /\ UNCHANGED clientVars

\* ::recv returns 0 at the end of the connection, SOCKET_ERROR after a reset:
\* receive throws.
RecvFails ==
  /\ Receiving /\ wire = <<>> /\ peer \in {"fin", "rst"}
  /\ rpc' = "failed"
  /\ UNCHANGED <<size, buffer, received, wire, peer>> /\ UNCHANGED clientVars

\* mutant: an empty body is received all the same
HeaderReceivedNoEmpty ==
  /\ rpc = "header" /\ Len(buffer) = size
  /\ LET n == HeaderSizeOf(buffer) IN
       Receive(IF n > 0 THEN n ELSE 1, "body") /\ UNCHANGED received
  /\ UNCHANGED <<wire, peer>> /\ UNCHANGED clientVars

\* The header is there: the body is received, unless it is empty.
HeaderReceived ==
  /\ rpc = "header" /\ Len(buffer) = size
  /\ LET n == HeaderSizeOf(buffer) IN
       IF n > 0
       THEN Receive(n, "body") /\ UNCHANGED received
       ELSE Receive(0, "idle") /\ received' = Append(received, <<>>)
  /\ UNCHANGED <<wire, peer>> /\ UNCHANGED clientVars

\* read_framed returns the body.
BodyReceived ==
  /\ rpc = "body" /\ Len(buffer) = size
  /\ Receive(0, "idle") /\ received' = Append(received, buffer)
  /\ UNCHANGED <<wire, peer>> /\ UNCHANGED clientVars
-----------------------------------------------------------------------------
ClientFlushes == \E n \in 1 .. Len(payload) : Flush(n)

ServerStep ==
  \/ Read \/ RecvFails \/ HeaderReceived \/ BodyReceived
  \/ \E n \in 1 .. Len(wire) : Recv(n)

Finished == wpc = "closed" /\ rpc = "failed" /\ UNCHANGED vars

Next ==
  \/ \E body \in Body : Write(body)
  \/ ClientFlushes \/ Written \/ Closes \/ Resets
  \/ ServerStep
  \/ Finished

Spec == Init /\ [][Next]_vars

\* The kernel takes what it is offered and delivers it; the server is scheduled
\* and reads again.
FairSpec == Spec /\ WF_vars(ClientFlushes) /\ WF_vars(ServerStep)
-----------------------------------------------------------------------------
(* Properties.                                                             *)

TypeOK ==
  /\ wpc \in {"idle", "pending", "closed"} /\ payload \in Seq(Byte)
  /\ wire \in Seq(Byte) /\ peer \in {"open", "fin", "rst"}
  /\ rpc \in {"idle", "header", "body", "failed"}
  /\ size \in Nat /\ buffer \in Seq(Byte) /\ Len(buffer) <= size
  /\ sent \in Seq(Body) /\ whole \in Nat /\ received \in Seq(Body)

\* A client that closes after its last write, as the client without --debug-reveal
\* does, does not take back what it has written: a read fails only when every frame
\* handed to the kernel to its last byte has been returned, unless a reset has
\* thrown the kernel's buffer away.
EndLosesNoFrame == rpc = "failed" /\ peer # "rst" => Len(received) = whole

\* The reads return what was written, in order and once.
Channel == INSTANCE FrameChannel
RefinesFrameChannel == Channel!Spec

\* A frame the kernel has taken is eventually returned by a read, unless the
\* connection is reset.
FramesArrive ==
  \A n \in 1 .. MaxFrames : whole >= n ~> Len(received) >= n \/ peer = "rst"
=============================================================================
