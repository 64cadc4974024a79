-------------------------- MODULE ReadFramedProofs --------------------------
(***************************************************************************)
(* The reads of the server return what the client wrote, for every set of  *)
(* bodies, every number of frames and every way to cut the stream.  The    *)
(* invariant places what has been returned, what is in the buffer, what is *)
(* under way and what the kernel has not taken next to each other in the   *)
(* stream of all frames.                                                   *)
(***************************************************************************)
EXTENDS ReadFramed, FramingProofs

\* Where the bytes in buffer begin, and where those end that the kernel has taken.
BufferAt(pos) == pos[Len(received)] + IF rpc = "body" THEN HeaderSize ELSE 0
Taken(pos)    == BufferAt(pos) + Len(buffer)
Handed(pos)   == Taken(pos) + Len(wire)

Control ==
  /\ wpc = "closed" <=> peer # "open"
  /\ wpc # "pending" => payload = <<>>
  /\ rpc = "failed" => peer # "open"
  /\ rpc = "idle" => buffer = <<>> /\ size = 0
  /\ rpc = "header" => size = HeaderSize
  /\ Len(received) <= Len(sent)

\* What the server has received and will receive.
Reader(T, pos) ==
  /\ rpc = "body" => Len(received) < Len(sent) /\ size = Len(sent[Len(received) + 1])
  /\ \A j \in 1 .. Len(buffer) : buffer[j] = T[BufferAt(pos) + j]
  /\ Handed(pos) <= Len(T)
  /\ \A i \in 1 .. Len(wire) : wire[i] = T[Taken(pos) + i]

\* What the kernel has taken from the client and has still to take.
Writer(T, pos) ==
  /\ peer # "rst" => InFrame(pos, sent, whole, Handed(pos))
  /\ wpc # "closed" =>
       /\ Handed(pos) + Len(payload) = Len(T)
       /\ \A i \in 1 .. Len(payload) : payload[i] = T[Handed(pos) + i]
  /\ wpc = "pending" => Len(sent) > 0 /\ pos[Len(sent) - 1] <= Handed(pos)

Placed(T, pos) ==
  Layout(T, pos, sent) /\ (rpc # "failed" => Reader(T, pos) /\ Writer(T, pos))

\* The inductive invariant.
IInv == TypeOK /\ Control /\ EndLosesNoFrame /\ \E T, pos : Placed(T, pos)
-----------------------------------------------------------------------------
LEMMA SequenceTypes ==
  ASSUME TypeOK
  PROVE  /\ Len(wire) \in Nat /\ Len(buffer) \in Nat /\ Len(payload) \in Nat
         /\ Len(sent) \in Nat /\ Len(received) \in Nat
         /\ wire \in Seq(Byte) /\ buffer \in Seq(Byte) /\ payload \in Seq(Byte)
         /\ sent \in Seq(Body) /\ received \in Seq(Body)
  BY DEF TypeOK

LEMMA EmptyBody ==
  ASSUME NEW body \in Body, Len(body) = 0
  PROVE  body = <<>>
  BY BodyType

\* The positions of a state in which no read has failed.
LEMMA Positions ==
  ASSUME TypeOK, Control, NEW T, NEW pos, Placed(T, pos)
  PROVE  /\ pos[Len(received)] \in Nat /\ BufferAt(pos) \in Nat
         /\ Taken(pos) \in Nat /\ Handed(pos) \in Nat
         /\ Len(received) \in 0 .. Len(sent)
         /\ Len(T) \in Nat /\ Layout(T, pos, sent)
<1>1. Layout(T, pos, sent)
  BY DEF Placed
<1>2. Len(received) \in 0 .. Len(sent)
  BY SequenceTypes DEF Control
<1>3. pos[Len(received)] \in Nat /\ Len(T) \in Nat
  BY <1>1, <1>2, LayoutType
<1>4. BufferAt(pos) \in Nat
  BY <1>3 DEF BufferAt, HeaderSize
<1>5. QED
  BY <1>1, <1>2, <1>3, <1>4, SequenceTypes DEF Taken, Handed

\* A header that has been received is that of the next body in the order written.
LEMMA HeaderIsNext ==
  ASSUME TypeOK, Control, NEW T, NEW pos, Placed(T, pos),
         rpc = "header", Len(buffer) = size
  PROVE  /\ Len(received) + 1 \in 1 .. Len(sent)
         /\ sent[Len(received) + 1] \in Body
         /\ HeaderSizeOf(buffer) = Len(sent[Len(received) + 1])
         /\ pos[Len(received)] \in Nat
         /\ pos[Len(received) + 1]
              = pos[Len(received)] + HeaderSize + Len(sent[Len(received) + 1])
<1> DEFINE k == Len(received)
<1>1. Reader(T, pos) /\ size = HeaderSize /\ BufferAt(pos) = pos[k]
  BY Positions DEF Placed, Control, BufferAt
<1>2. /\ pos[k] \in Nat /\ k \in 0 .. Len(sent) /\ Len(T) \in Nat /\ Layout(T, pos, sent)
      /\ Taken(pos) \in Nat /\ Handed(pos) \in Nat /\ Len(wire) \in Nat
  BY Positions, SequenceTypes
<1>3. Taken(pos) = pos[k] + 4 /\ Taken(pos) <= Len(T)
  BY <1>1, <1>2 DEF Reader, Taken, Handed, HeaderSize
<1>4. pos[k] < Taken(pos)
  BY <1>2, <1>3
<1>5. /\ k + 1 \in 1 .. Len(sent) /\ sent[k+1] \in Body
      /\ pos[k+1] = pos[k] + HeaderSize + Len(sent[k+1])
      /\ \A j \in 1 .. HeaderSize : T[pos[k] + j] = Header(Len(sent[k+1]))[j]
  BY <1>2, <1>3, <1>4, NextFrame
<1>6. \A j \in 1 .. HeaderSize : buffer[j] = Header(Len(sent[k+1]))[j]
  BY <1>1, <1>5 DEF Reader
<1>7. HeaderSizeOf(buffer) = Len(sent[k+1])
  BY <1>1, <1>5, <1>6, HeaderRead, SequenceTypes
<1>8. QED
  BY <1>2, <1>5, <1>7

\* A body that has been received is the next one in the order written.
LEMMA BodyIsNext ==
  ASSUME TypeOK, Control, NEW T, NEW pos, Placed(T, pos),
         rpc = "body", Len(buffer) = size
  PROVE  /\ Len(received) + 1 \in 1 .. Len(sent)
         /\ sent[Len(received) + 1] \in Body
         /\ buffer = sent[Len(received) + 1]
         /\ pos[Len(received)] \in Nat
         /\ pos[Len(received) + 1] = Taken(pos)
<1> DEFINE k == Len(received)
<1>1. /\ Reader(T, pos) /\ BufferAt(pos) = pos[k] + HeaderSize
      /\ k < Len(sent) /\ size = Len(sent[k+1])
  BY DEF Placed, Reader, BufferAt
<1>2. /\ pos[k] \in Nat /\ k \in 0 .. Len(sent) /\ Len(T) \in Nat /\ Layout(T, pos, sent)
      /\ Taken(pos) \in Nat /\ Handed(pos) \in Nat /\ Len(wire) \in Nat
      /\ Len(buffer) \in Nat
  BY Positions, SequenceTypes
<1>3. Taken(pos) = pos[k] + 4 + Len(buffer) /\ Taken(pos) <= Len(T)
  BY <1>1, <1>2 DEF Reader, Taken, Handed, HeaderSize
<1>4. pos[k] < Taken(pos)
  BY <1>2, <1>3
<1>5. /\ k + 1 \in 1 .. Len(sent) /\ sent[k+1] \in Body
      /\ pos[k+1] = pos[k] + HeaderSize + Len(sent[k+1])
      /\ \A j \in 1 .. Len(sent[k+1]) : T[pos[k] + HeaderSize + j] = sent[k+1][j]
  BY <1>2, <1>3, <1>4, NextFrame
<1>6. \A j \in 1 .. Len(buffer) : buffer[j] = sent[k+1][j]
  BY <1>1, <1>5 DEF Reader
<1>7. sent[k+1] \in Seq(Byte) /\ buffer \in Seq(Byte) /\ Len(buffer) = Len(sent[k+1])
  BY <1>1, <1>5, BodyType, SequenceTypes
<1>8. buffer = sent[k+1]
  BY <1>6, <1>7
<1>9. pos[k+1] = Taken(pos)
  BY <1>1, <1>3, <1>5 DEF HeaderSize
<1>10. QED
  BY <1>2, <1>5, <1>8, <1>9
-----------------------------------------------------------------------------
(* Type correctness.                                                       *)

LEMMA InitType == Init => TypeOK
  BY FramingAssumption DEF Init, TypeOK

LEMMA NextType ==
  ASSUME TypeOK, [Next]_vars, Control, \E T, pos : Placed(T, pos)
  PROVE  TypeOK'
<1> USE SequenceTypes
<1>1. ASSUME NEW body \in Body, Write(body) PROVE TypeOK'
  <2>1. Encode(body) \in Seq(Byte)
    BY Encoded
  <2>2. QED
    BY <1>1, <2>1 DEF Write, TypeOK, serverVars
<1>2. ASSUME NEW n \in 1 .. Len(payload), Flush(n) PROVE TypeOK'
  <2>1. n \in 0 .. Len(payload) /\ n \in 0 .. Len(payload)
    BY <1>2
  <2>2. /\ SubSeq(payload, 1, n) \in Seq(Byte)
        /\ SubSeq(payload, n + 1, Len(payload)) \in Seq(Byte)
    BY <2>1, Cut
  <2>3. wire \o SubSeq(payload, 1, n) \in Seq(Byte)
    BY <2>2, Concatenated
  <2>4. QED
    BY <1>2, <2>2, <2>3 DEF Flush, TypeOK, serverVars
<1>3. CASE Written
  BY <1>3 DEF Written, TypeOK, serverVars
<1>4. CASE Closes
  BY <1>4 DEF Closes, TypeOK, serverVars
<1>5. CASE Resets
  <2>1. wire' \in Seq(Byte) /\ payload' \in Seq(Byte)
    <3>1. \A S : <<>> \in Seq(S)
      OBVIOUS
    <3>2. wire \in Seq(Byte) /\ (wire' = wire \/ wire' = <<>>) /\ payload' = <<>>
      BY <1>5 DEF Resets, TypeOK
    <3>3. QED
      BY <3>1, <3>2
  <2>2. QED
    BY <1>5, <2>1 DEF Resets, TypeOK, serverVars
<1>6. CASE Read
  BY <1>6 DEF Read, Receive, HeaderSize, TypeOK, clientVars
<1>7. CASE RecvFails
  BY <1>7 DEF RecvFails, TypeOK, clientVars
<1>8. CASE HeaderReceived
  <2>1. PICK T, pos : Placed(T, pos)
    OBVIOUS
  <2>2. /\ HeaderSizeOf(buffer) = Len(sent[Len(received) + 1])
        /\ sent[Len(received) + 1] \in Body
    BY <1>8, <2>1, HeaderIsNext DEF HeaderReceived
  <2>3. HeaderSizeOf(buffer) \in Nat /\ (HeaderSizeOf(buffer) = 0 => <<>> \in Body)
    BY <2>2, BodyType, EmptyBody
  <2>4. CASE HeaderSizeOf(buffer) > 0
    BY <1>8, <2>3, <2>4 DEF HeaderReceived, Receive, TypeOK, clientVars
  <2>5. CASE HeaderSizeOf(buffer) = 0
    <3>1. Append(received, <<>>) \in Seq(Body)
      BY <2>3, <2>5
    <3>2. /\ rpc' = "idle" /\ size' = 0 /\ buffer' = <<>>
          /\ received' = Append(received, <<>>)
      BY <1>8, <2>3, <2>5 DEF HeaderReceived, Receive
    <3>3. buffer' \in Seq(Byte) /\ Len(buffer') = 0
      BY <3>2
    <3>4. QED
      BY <1>8, <3>1, <3>2, <3>3 DEF HeaderReceived, TypeOK, clientVars
  <2>6. QED
    BY <2>3, <2>4, <2>5
<1>9. CASE BodyReceived
  <2>1. PICK T, pos : Placed(T, pos)
    OBVIOUS
  <2>2. buffer \in Body
    BY <1>9, <2>1, BodyIsNext DEF BodyReceived
  <2>3. QED
    BY <1>9, <2>2 DEF BodyReceived, Receive, TypeOK, clientVars
<1>10. ASSUME NEW n \in 1 .. Len(wire), Recv(n) PROVE TypeOK'
  <2>1. n \in 0 .. Len(wire)
    BY <1>10
  <2>2. /\ SubSeq(wire, 1, n) \in Seq(Byte) /\ Len(SubSeq(wire, 1, n)) = n
        /\ SubSeq(wire, n + 1, Len(wire)) \in Seq(Byte)
    BY <2>1, Cut
  <2>3. /\ buffer \o SubSeq(wire, 1, n) \in Seq(Byte)
        /\ Len(buffer \o SubSeq(wire, 1, n)) = Len(buffer) + n
    BY <2>2, Concatenated
  <2>4. QED
    BY <1>10, <2>2, <2>3 DEF Recv, TypeOK, clientVars
<1>11. CASE UNCHANGED vars
  BY <1>11 DEF vars, clientVars, serverVars, TypeOK
<1>12. QED
  BY <1>1, <1>2, <1>3, <1>4, <1>5, <1>6, <1>7, <1>8, <1>9, <1>10, <1>11
     DEF Next, ClientFlushes, ServerStep, Finished
-----------------------------------------------------------------------------
(* The invariant.                                                          *)

LEMMA InitIInv == Init => IInv
<1> SUFFICES ASSUME Init PROVE IInv
  OBVIOUS
<1>1. TypeOK
  BY InitType
<1>2. Control /\ EndLosesNoFrame
  BY DEF Init, Control, EndLosesNoFrame
<1> DEFINE P == [i \in 0 .. 0 |-> 0]
<1>3. /\ P[0] = 0 /\ sent = <<>> /\ received = <<>> /\ wire = <<>> /\ buffer = <<>>
      /\ payload = <<>> /\ wpc = "idle" /\ rpc = "idle" /\ whole = 0
  BY DEF Init
<1> HIDE DEF P
<1>4. BufferAt(P) = 0 /\ Taken(P) = 0 /\ Handed(P) = 0
  BY <1>3 DEF BufferAt, Taken, Handed
<1>5. Reader(<<>>, P) /\ Writer(<<>>, P)
  BY <1>3, <1>4 DEF Reader, Writer, InFrame
<1>6. Placed(<<>>, P)
  BY <1>3, <1>5, LayoutEmpty DEF Placed, P
<1>7. QED
  BY <1>1, <1>2, <1>6 DEF IInv

\* Write: the stream grows by a frame, which is the client's to hand over.
LEMMA WriteIInv ==
  ASSUME IInv, NEW body \in Body, Write(body), TypeOK'
  PROVE  IInv'
<1>1. PICK T, pos : Placed(T, pos)
  BY DEF IInv
<1> DEFINE E == Encode(body)
           T2 == T \o E
<1>2. TypeOK /\ Control /\ Layout(T, pos, sent)
  BY <1>1 DEF IInv, Placed
<1>3. PICK pos2 : /\ Layout(T2, pos2, Append(sent, body))
                  /\ \A i \in 0 .. Len(sent) : pos2[i] = pos[i]
  BY <1>2, LayoutAppend
<1>4. /\ sent' = Append(sent, body) /\ wpc = "idle" /\ wpc' = "pending" /\ payload' = E
      /\ UNCHANGED <<whole, wire, peer, rpc, size, buffer, received>>
  BY DEF Write, serverVars
<1>5. /\ Len(sent) \in Nat /\ Len(sent') = Len(sent) + 1
      /\ \A k \in 1 .. Len(sent) : sent'[k] = sent[k]
      /\ Len(wire) \in Nat /\ Len(buffer) \in Nat /\ Len(received) \in 0 .. Len(sent)
  BY <1>2, <1>4, SequenceTypes DEF Control
<1>6. /\ peer = "open" /\ rpc # "failed" /\ payload = <<>>
      /\ Reader(T, pos) /\ Writer(T, pos)
  BY <1>1, <1>2, <1>4 DEF Control, Placed
<1>7. /\ T \in Seq(Byte) /\ E \in Seq(Byte) /\ Len(T) \in Nat /\ Len(E) \in Nat /\ Len(E) > 0
      /\ pos[Len(sent)] = Len(T)
  BY <1>2, LayoutType, Encoded, BodyType DEF HeaderSize
<1>8. /\ Len(T2) = Len(T) + Len(E) /\ \A i \in 1 .. Len(T) : T2[i] = T[i]
      /\ \A i \in 1 .. Len(E) : T2[Len(T) + i] = E[i]
  <2> HIDE DEF E
  <2>0. T \in Seq(Byte) /\ E \in Seq(Byte)
    BY <1>7
  <2>1. QED
    BY <2>0
<1>9. pos2[Len(sent) + 1] = Len(T2) /\ pos2[Len(sent)] = Len(T)
  BY <1>3, <1>4, <1>5, <1>7 DEF Layout
<1> HIDE DEF E, T2
<1>10. /\ BufferAt(pos2)' = BufferAt(pos) /\ Taken(pos2)' = Taken(pos)
       /\ Handed(pos2)' = Handed(pos)
  BY <1>3, <1>4, <1>5 DEF BufferAt, Taken, Handed
<1>11. /\ Handed(pos) = Len(T) /\ BufferAt(pos) \in Nat /\ Taken(pos) \in Nat
       /\ Taken(pos) = BufferAt(pos) + Len(buffer) /\ Handed(pos) = Taken(pos) + Len(wire)
  BY <1>1, <1>2, <1>4, <1>6, Positions DEF Writer, Taken, Handed
<1>12. Reader(T2, pos2)'
  <2>1. rpc' = "body" => Len(received') < Len(sent') /\ size' = Len(sent'[Len(received') + 1])
    BY <1>4, <1>5, <1>6 DEF Reader
  <2>2. \A j \in 1 .. Len(buffer) : BufferAt(pos) + j \in 1 .. Len(T)
    BY <1>5, <1>7, <1>11
  <2>3. \A i \in 1 .. Len(wire) : Taken(pos) + i \in 1 .. Len(T)
    BY <1>5, <1>7, <1>11
  <2>4. Handed(pos) <= Len(T2)
    BY <1>7, <1>8, <1>11
  <2>5. QED
    BY <1>4, <1>6, <1>8, <1>10, <2>1, <2>2, <2>3, <2>4 DEF Reader
<1>13. Writer(T2, pos2)'
  <2>1. InFrame(pos, sent, whole, Len(T))
    BY <1>6, <1>11 DEF Writer
  <2>2. InFrame(pos, sent, Len(sent), Len(T))
    BY <1>5, <1>7 DEF InFrame
  <2>3. whole = Len(sent)
    BY <1>2, <2>1, <2>2, FrameUnique
  <2>4. InFrame(pos2, sent', whole, Len(T))
    BY <1>5, <1>7, <1>8, <1>9, <2>3 DEF InFrame
  <2>5. Handed(pos2)' + Len(payload') = Len(T2)
    BY <1>4, <1>8, <1>10, <1>11
  <2>6. \A j \in 1 .. Len(payload') : payload'[j] = T2[Handed(pos2)' + j]
    BY <1>4, <1>8, <1>10, <1>11
  <2>7. Len(sent') > 0 /\ pos2[Len(sent') - 1] <= Handed(pos2)'
    BY <1>5, <1>7, <1>9, <1>10, <1>11
  <2>8. QED
    BY <1>4, <1>10, <1>11, <2>4, <2>5, <2>6, <2>7 DEF Writer
<1>14. Placed(T2, pos2)'
  BY <1>3, <1>4, <1>12, <1>13 DEF Placed
<1>15. Control' /\ EndLosesNoFrame'
  BY <1>2, <1>4, <1>5, <1>6 DEF Control, EndLosesNoFrame
<1>16. QED
  BY <1>14, <1>15 DEF IInv

\* The kernel takes bytes from the client: they were the client's and are under way.
LEMMA FlushIInv ==
  ASSUME IInv, NEW n \in 1 .. Len(payload), Flush(n), TypeOK'
  PROVE  IInv'
<1>1. PICK T, pos : Placed(T, pos)
  BY DEF IInv
<1>2. TypeOK /\ Control /\ Layout(T, pos, sent)
  BY <1>1 DEF IInv, Placed
<1>3. /\ wire' = wire \o SubSeq(payload, 1, n)
      /\ payload' = SubSeq(payload, n + 1, Len(payload))
      /\ whole' = IF payload' = <<>> THEN whole + 1 ELSE whole
      /\ UNCHANGED <<wpc, sent, peer, rpc, size, buffer, received>>
  BY DEF Flush, serverVars
<1>4. n \in 0 .. Len(payload) /\ n \in Nat /\ n > 0 /\ Len(payload) > 0
      /\ payload \in Seq(Byte) /\ wire \in Seq(Byte)
      /\ Len(payload) \in Nat /\ Len(wire) \in Nat
  BY <1>2, SequenceTypes
<1>5. wpc = "pending" /\ peer = "open" /\ rpc # "failed"
  <2>1. wpc = "pending"
    BY <1>2, <1>4 DEF Control
  <2>2. QED
    BY <1>2, <2>1 DEF Control
<1>6. Reader(T, pos) /\ Writer(T, pos)
  BY <1>1, <1>5 DEF Placed
<1> DEFINE P == SubSeq(payload, 1, n)
           Q == SubSeq(payload, n + 1, Len(payload))
<1>7. /\ P \in Seq(Byte) /\ Len(P) = n /\ \A i \in 1 .. n : P[i] = payload[i]
      /\ Q \in Seq(Byte) /\ Len(Q) = Len(payload) - n
      /\ \A i \in 1 .. Len(payload) - n : Q[i] = payload[n + i]
  BY <1>4, Cut
<1> HIDE DEF P, Q
<1>8. /\ Len(wire') = Len(wire) + n
      /\ \A i \in 1 .. Len(wire) : wire'[i] = wire[i]
      /\ \A i \in 1 .. n : wire'[Len(wire) + i] = payload[i]
  <2>1. /\ Len(wire \o P) = Len(wire) + Len(P)
        /\ \A i \in 1 .. Len(wire) : (wire \o P)[i] = wire[i]
        /\ \A i \in 1 .. Len(P) : (wire \o P)[Len(wire) + i] = P[i]
    <3>1. wire \in Seq(Byte) /\ P \in Seq(Byte)
      BY <1>4, <1>7
    <3>2. QED
      BY <3>1
  <2>2. QED
    BY <2>1, <1>3, <1>7 DEF P
<1>9. /\ BufferAt(pos)' = BufferAt(pos) /\ Taken(pos)' = Taken(pos)
      /\ Handed(pos)' = Handed(pos) + n
  <2>1. BufferAt(pos)' = BufferAt(pos)
    BY <1>3 DEF BufferAt
  <2>2. Taken(pos)' = Taken(pos)
    BY <2>1, <1>3 DEF Taken
  <2>3. Handed(pos)' = Taken(pos) + Len(wire')
    BY <2>2 DEF Handed
  <2>4. QED
    BY <2>1, <2>2, <2>3, <1>1, <1>2, <1>4, <1>8, Positions DEF Handed
<1>10. /\ BufferAt(pos) \in Nat /\ Taken(pos) \in Nat /\ Handed(pos) \in Nat
       /\ Handed(pos) = Taken(pos) + Len(wire) /\ Len(T) \in Nat
  BY <1>1, <1>2, Positions DEF Handed
<1>11. /\ Handed(pos) + Len(payload) = Len(T)
       /\ \A i \in 1 .. Len(payload) : payload[i] = T[Handed(pos) + i]
       /\ Len(sent) > 0 /\ pos[Len(sent) - 1] <= Handed(pos)
       /\ InFrame(pos, sent, whole, Handed(pos))
  BY <1>5, <1>6 DEF Writer
<1>11a. Len(sent) \in Nat /\ Len(sent) - 1 \in 0 .. Len(sent) /\ pos[Len(sent) - 1] \in Nat
        /\ pos[Len(sent)] = Len(T)
  BY <1>2, <1>11, LayoutType
<1> DEFINE h  == Handed(pos)
           h2 == Handed(pos)'
           l  == Len(payload)
           p  == pos[Len(sent) - 1]
           t  == Len(T)
<1>11b. /\ h \in Nat /\ h2 = h + n /\ n \in Nat /\ l \in Nat /\ p \in Nat /\ t \in Nat
        /\ n <= l /\ h + l = t /\ p <= h
  BY <1>4, <1>9, <1>10, <1>11, <1>11a
<1> HIDE DEF h, h2, l, p, t
<1>11c. h2 \in Nat /\ h2 <= t /\ h2 + (l - n) = t /\ p <= h2
  BY <1>11b
<1>11d. /\ Handed(pos)' \in Nat /\ Handed(pos)' <= Len(T) /\ pos[Len(sent) - 1] <= Handed(pos)'
        /\ Handed(pos)' + (Len(payload) - n) = Len(T)
  BY <1>11c DEF h2, l, p, t
<1>12. Reader(T, pos)'
  <2>1. rpc' = "body" => Len(received') < Len(sent') /\ size' = Len(sent'[Len(received') + 1])
    BY <1>3, <1>6 DEF Reader
  <2>2. \A j \in 1 .. Len(buffer') : buffer'[j] = T[BufferAt(pos)' + j]
    BY <1>3, <1>6, <1>9 DEF Reader
  <2>3. Handed(pos)' <= Len(T)
    BY <1>11d
  <2>4. ASSUME NEW i \in 1 .. Len(wire') PROVE wire'[i] = T[Taken(pos)' + i]
    <3>1. CASE i \in 1 .. Len(wire)
      BY <3>1, <1>6, <1>8, <1>9 DEF Reader
    <3>2. CASE i \notin 1 .. Len(wire)
      <4>1. i - Len(wire) \in 1 .. n /\ i = Len(wire) + (i - Len(wire))
        BY <3>2, <1>4, <1>8
      <4>2. wire'[i] = payload[i - Len(wire)] /\ i - Len(wire) \in 1 .. Len(payload)
        BY <4>1, <1>4, <1>8
      <4>3. Handed(pos) + (i - Len(wire)) = Taken(pos) + i
        BY <4>1, <1>4, <1>10
      <4>4. QED
        BY <4>2, <4>3, <1>9, <1>11
    <3>3. QED
      BY <3>1, <3>2
  <2>5. QED
    BY <2>1, <2>2, <2>3, <2>4 DEF Reader
<1>13. Writer(T, pos)'
  <2>1. Len(sent) \in Nat /\ Len(sent) - 1 \in 0 .. Len(sent) /\ pos[Len(sent) - 1] \in Nat
        /\ pos[Len(sent)] = Len(T)
    BY <1>11a
  <2>2. InFrame(pos, sent, Len(sent) - 1, Handed(pos))
    BY <2>1, <1>4, <1>10, <1>11 DEF InFrame
  <2>3. whole = Len(sent) - 1
    BY <2>2, <1>2, <1>11, FrameUnique
  <2>4. payload' = <<>> <=> Handed(pos)' = Len(T)
    <3>1. payload' \in Seq(Byte) /\ Len(payload') = Len(payload) - n
      BY <1>3, <1>7 DEF Q
    <3>2. payload' = <<>> <=> Len(payload') = 0
      BY <3>1
    <3>3. Len(payload) - n = 0 <=> Handed(pos)' = Len(T)
      BY <1>4, <1>10, <1>11d
    <3>4. QED
      BY <3>1, <3>2, <3>3
  <2>5. InFrame(pos, sent, whole', Handed(pos)')
    <3>1. CASE payload' = <<>>
      <4>1. whole' = Len(sent) /\ Handed(pos)' = Len(T)
        BY <3>1, <2>1, <2>3, <2>4, <1>3
      <4>2. QED
        BY <4>1, <2>1, <1>10 DEF InFrame
    <3>2. CASE payload' # <<>>
      <4>1. whole' = Len(sent) - 1 /\ Handed(pos)' < Len(T)
        <5>1. Handed(pos)' # Len(T)
          BY <3>2, <2>4
        <5>2. Handed(pos)' < Len(T)
          BY <5>1, <1>10, <1>11d
        <5>3. QED
          BY <3>2, <5>2, <2>3, <1>3
      <4>2. QED
        <5>1. /\ whole' \in 0 .. Len(sent) /\ whole' + 1 = Len(sent)
              /\ Handed(pos)' \in Nat /\ pos[whole'] <= Handed(pos)'
              /\ Handed(pos)' < pos[whole' + 1]
          <6>1. whole' \in 0 .. Len(sent) /\ whole' + 1 = Len(sent)
            BY <4>1, <2>1, <1>11
          <6>2. pos[whole' + 1] = Len(T)
            BY <6>1, <2>1
          <6>3. Handed(pos)' \in Nat /\ pos[Len(sent) - 1] <= Handed(pos)'
            BY <1>11d
          <6>4. QED
            BY <6>1, <6>2, <6>3, <4>1
        <5>2. QED
          BY <5>1 DEF InFrame
    <3>3. QED
      BY <3>1, <3>2
  <2> DEFINE m == Len(payload)
  <2>61. /\ Len(payload') = m - n
         /\ \A i \in 1 .. m - n : payload'[i] = payload[n + i]
    BY <1>3, <1>7 DEF Q
  <2> HIDE DEF m
  <2>62. m \in Nat /\ n \in 0 .. m /\ m = Len(payload)
    BY <1>4 DEF m
  <2>6. Handed(pos)' + Len(payload') = Len(T)
    BY <2>61, <1>11d DEF m
  <2>7. ASSUME NEW i \in 1 .. Len(payload') PROVE payload'[i] = T[Handed(pos)' + i]
    <3>1. payload'[i] = payload[n + i] /\ n + i \in 1 .. Len(payload)
      BY <2>61, <2>62
    <3>2. Handed(pos)' + i = Handed(pos) + (n + i)
      BY <2>61, <2>62, <1>9, <1>10
    <3>3. QED
      BY <3>1, <3>2, <1>11
  <2>8. pos[Len(sent) - 1] <= Handed(pos)'
    BY <1>11d
  <2>9. QED
    BY <2>5, <2>6, <2>7, <2>8, <1>3, <1>11 DEF Writer
<1>14. Placed(T, pos)'
  BY <1>2, <1>3, <1>12, <1>13 DEF Placed
<1>15. Control' /\ EndLosesNoFrame'
  BY <1>2, <1>3, <1>5 DEF Control, EndLosesNoFrame
<1>16. QED
  BY <1>14, <1>15 DEF IInv

\* Steps that move no byte: the write callback, and a read that begins.
LEMMA StillIInv ==
  ASSUME IInv, Written \/ Read \/ UNCHANGED vars, TypeOK'
  PROVE  IInv'
<1>1. PICK T, pos : Placed(T, pos)
  BY DEF IInv
<1>2. TypeOK /\ Control /\ EndLosesNoFrame
  BY DEF IInv
<1>3. UNCHANGED <<payload, wire, buffer, sent, whole, received, peer>>
  BY <1>2 DEF Written, Read, Receive, vars, clientVars, serverVars, Control
<1>4. /\ BufferAt(pos)' = BufferAt(pos) /\ Taken(pos)' = Taken(pos)
      /\ Handed(pos)' = Handed(pos)
  BY <1>3 DEF Written, Read, Receive, vars, clientVars, serverVars, BufferAt, Taken, Handed
<1>5. CASE Written
  BY <1>1, <1>2, <1>3, <1>4, <1>5
     DEF Written, serverVars, IInv, Placed, Reader, Writer, Control, EndLosesNoFrame
<1>6. CASE Read
  BY <1>1, <1>2, <1>3, <1>4, <1>6
     DEF Read, Receive, clientVars, IInv, Placed, Reader, Writer, Control, EndLosesNoFrame
<1>7. CASE UNCHANGED vars
  BY <1>1, <1>2, <1>3, <1>4, <1>7
     DEF vars, clientVars, serverVars, IInv, Placed, Reader, Writer, Control, EndLosesNoFrame
<1>8. QED
  BY <1>5, <1>6, <1>7

\* The client closes: what the kernel has taken stays under way.
LEMMA ClosesIInv ==
  ASSUME IInv, Closes, TypeOK'
  PROVE  IInv'
<1>1. PICK T, pos : Placed(T, pos)
  BY DEF IInv
<1>2. TypeOK /\ Control
  BY DEF IInv
<1>3. /\ wpc # "closed" /\ wpc' = "closed" /\ payload' = <<>> /\ peer = "open" /\ peer' = "fin"
      /\ rpc # "failed"
      /\ UNCHANGED <<sent, whole, wire, rpc, size, buffer, received>>
  BY <1>2 DEF Closes, serverVars, Control
<1>4. /\ BufferAt(pos)' = BufferAt(pos) /\ Taken(pos)' = Taken(pos)
      /\ Handed(pos)' = Handed(pos)
  BY <1>3 DEF BufferAt, Taken, Handed
<1>5. Placed(T, pos)'
  BY <1>1, <1>3, <1>4 DEF Placed, Reader, Writer
<1>6. Control' /\ EndLosesNoFrame'
  BY <1>2, <1>3 DEF Control, EndLosesNoFrame
<1>7. QED
  BY <1>5, <1>6 DEF IInv

\* A reset may take away what is under way, and nothing that has been received.
LEMMA ResetsIInv ==
  ASSUME IInv, Resets, TypeOK'
  PROVE  IInv'
<1>1. PICK T, pos : Placed(T, pos)
  BY DEF IInv
<1>2. TypeOK /\ Control
  BY DEF IInv
<1>3. /\ wpc' = "closed" /\ payload' = <<>> /\ peer' = "rst"
      /\ wire' = wire \/ wire' = <<>>
      /\ UNCHANGED <<sent, whole, rpc, size, buffer, received>>
  BY DEF Resets, serverVars
<1>4. BufferAt(pos)' = BufferAt(pos) /\ Taken(pos)' = Taken(pos)
  BY <1>3 DEF BufferAt, Taken
<1>5. /\ Taken(pos) \in Nat /\ Len(wire) \in Nat /\ Len(T) \in Nat
      /\ Handed(pos) = Taken(pos) + Len(wire) /\ Handed(pos)' = Taken(pos) + Len(wire')
  BY <1>1, <1>2, <1>4, Positions, SequenceTypes DEF Handed
<1>6. ASSUME rpc # "failed" PROVE Reader(T, pos)'
  <2>1. Reader(T, pos)
    BY <1>1, <1>6 DEF Placed
  <2>2. CASE wire' = wire
    BY <2>1, <2>2, <1>3, <1>4, <1>5 DEF Reader
  <2>3. CASE wire' = <<>>
    <3>1. Len(wire') = 0 /\ Handed(pos)' <= Len(T)
      BY <2>1, <2>3, <1>5 DEF Reader
    <3>2. QED
      BY <2>1, <3>1, <1>3, <1>4 DEF Reader
  <2>4. QED
    BY <2>2, <2>3, <1>3
<1>7. Writer(T, pos)'
  BY <1>3 DEF Writer
<1>8. Placed(T, pos)'
  BY <1>1, <1>3, <1>6, <1>7 DEF Placed
<1>9. Control' /\ EndLosesNoFrame'
  BY <1>2, <1>3 DEF Control, EndLosesNoFrame
<1>10. QED
  BY <1>8, <1>9 DEF IInv

\* recv: bytes under way are now in the buffer.
LEMMA RecvIInv ==
  ASSUME IInv, NEW n \in 1 .. Len(wire), Recv(n), TypeOK'
  PROVE  IInv'
<1>1. PICK T, pos : Placed(T, pos)
  BY DEF IInv
<1>2. TypeOK /\ Control /\ Layout(T, pos, sent)
  BY <1>1 DEF IInv, Placed
<1>3. /\ rpc \in {"header", "body"} /\ Len(buffer) < size
      /\ buffer' = buffer \o SubSeq(wire, 1, n)
      /\ wire' = SubSeq(wire, n + 1, Len(wire))
      /\ UNCHANGED <<wpc, payload, sent, whole, peer, rpc, size, received>>
  BY DEF Recv, Receiving, clientVars
<1>4. Reader(T, pos) /\ Writer(T, pos)
  BY <1>1, <1>3 DEF Placed
<1> DEFINE w == Len(wire)
           l == Len(buffer)
           P == SubSeq(wire, 1, n)
           Q == SubSeq(wire, n + 1, w)
<1>5. w \in Nat /\ l \in Nat /\ n \in 0 .. w /\ n \in Nat /\ wire \in Seq(Byte) /\ buffer \in Seq(Byte)
  BY <1>2, SequenceTypes
<1>6. /\ P \in Seq(Byte) /\ Len(P) = n /\ \A i \in 1 .. n : P[i] = wire[i]
      /\ Q \in Seq(Byte) /\ Len(Q) = w - n
      /\ \A i \in 1 .. w - n : Q[i] = wire[n + i]
  BY <1>5, Cut
<1> HIDE DEF P, Q
<1>7. /\ Len(buffer') = l + n
      /\ \A i \in 1 .. l : buffer'[i] = buffer[i]
      /\ \A i \in 1 .. n : buffer'[l + i] = wire[i]
  <2>1. /\ Len(buffer \o P) = Len(buffer) + Len(P)
        /\ \A i \in 1 .. Len(buffer) : (buffer \o P)[i] = buffer[i]
        /\ \A i \in 1 .. Len(P) : (buffer \o P)[Len(buffer) + i] = P[i]
    <3>1. buffer \in Seq(Byte) /\ P \in Seq(Byte)
      BY <1>5, <1>6
    <3>2. QED
      BY <3>1
  <2>2. QED
    BY <2>1, <1>3, <1>6 DEF P
<1>8. Len(wire') = w - n /\ \A i \in 1 .. w - n : wire'[i] = wire[n + i]
  BY <1>3, <1>6 DEF Q
<1>9. BufferAt(pos) \in Nat /\ Taken(pos) = BufferAt(pos) + l /\ Handed(pos) = Taken(pos) + w
  BY <1>1, <1>2, Positions DEF Taken, Handed
<1>10. BufferAt(pos)' = BufferAt(pos)
  BY <1>3 DEF BufferAt
<1>11. Taken(pos)' = BufferAt(pos) + Len(buffer') /\ Handed(pos)' = Taken(pos)' + Len(wire')
  BY <1>10 DEF Taken, Handed
<1> DEFINE at == BufferAt(pos)
<1>12. /\ \A j \in 1 .. l : buffer[j] = T[at + j]
       /\ \A i \in 1 .. w : wire[i] = T[(at + l) + i]
       /\ Handed(pos) <= Len(T)
  BY <1>4, <1>9 DEF Reader
<1>13. Taken(pos)' = at + (l + n) /\ Handed(pos)' = Handed(pos)
  <2> HIDE DEF w, l
  <2>1. Taken(pos)' = at + (l + n)
    BY <1>7, <1>11
  <2>2. QED
    BY <2>1, <1>5, <1>8, <1>9, <1>11
<1> HIDE DEF w, l, at
<1>14. at \in Nat
  BY <1>9 DEF at
<1>15. Reader(T, pos)'
  <2>1. rpc' = "body" => Len(received') < Len(sent') /\ size' = Len(sent'[Len(received') + 1])
    BY <1>3, <1>4 DEF Reader
  <2>2. ASSUME NEW j \in 1 .. l + n PROVE buffer'[j] = T[at + j]
    <3>1. CASE j \in 1 .. l
      BY <3>1, <1>7, <1>12
    <3>2. CASE j \notin 1 .. l
      <4>1. j - l \in 1 .. n /\ j = l + (j - l) /\ j - l \in 1 .. w
        BY <3>2, <1>5
      <4>2. buffer'[j] = wire[j - l]
        BY <4>1, <1>7
      <4>3. (at + l) + (j - l) = at + j
        BY <4>1, <1>5, <1>14
      <4>4. QED
        BY <4>1, <4>2, <4>3, <1>12
    <3>3. QED
      BY <3>1, <3>2
  <2>3. ASSUME NEW i \in 1 .. w - n PROVE wire'[i] = T[Taken(pos)' + i]
    <3>1. n + i \in 1 .. w /\ (at + l) + (n + i) = (at + (l + n)) + i
      BY <1>5, <1>14
    <3>2. QED
      BY <3>1, <1>8, <1>12, <1>13
  <2>4. Handed(pos)' <= Len(T)
    BY <1>12, <1>13
  <2>5. QED
    BY <2>1, <2>2, <2>3, <2>4, <1>7, <1>8, <1>10 DEF Reader, at
<1>16. Writer(T, pos)'
  BY <1>3, <1>4, <1>13 DEF Writer
<1>17. Placed(T, pos)'
  BY <1>2, <1>3, <1>15, <1>16 DEF Placed
<1>18. Control' /\ EndLosesNoFrame'
  BY <1>2, <1>3 DEF Control, EndLosesNoFrame
<1>19. QED
  BY <1>17, <1>18 DEF IInv

\* A receive that fails has all bytes the kernel was given: it stands in the first
\* frame that was not handed over whole.
LEMMA RecvFailsIInv ==
  ASSUME IInv, RecvFails, TypeOK'
  PROVE  IInv'
<1>1. PICK T, pos : Placed(T, pos)
  BY DEF IInv
<1>2. TypeOK /\ Control /\ Layout(T, pos, sent)
  BY <1>1 DEF IInv, Placed
<1>3. /\ rpc \in {"header", "body"} /\ Len(buffer) < size /\ wire = <<>> /\ peer # "open"
      /\ rpc' = "failed"
      /\ UNCHANGED <<wpc, payload, sent, whole, wire, peer, size, buffer, received>>
  BY DEF RecvFails, Receiving, clientVars
<1>4. Reader(T, pos) /\ Writer(T, pos)
  BY <1>1, <1>3 DEF Placed
<1> DEFINE k == Len(received)
<1>5. /\ pos[k] \in Nat /\ BufferAt(pos) \in Nat /\ k \in 0 .. Len(sent)
      /\ Len(buffer) \in Nat /\ Len(sent) \in Nat
      /\ Handed(pos) = BufferAt(pos) + Len(buffer) /\ Handed(pos) \in Nat
  <2>1. Len(wire) = 0
    BY <1>3
  <2>2. QED
    BY <2>1, <1>1, <1>2, Positions, SequenceTypes DEF Taken, Handed
<1>6. ASSUME k < Len(sent) PROVE /\ pos[k+1] = pos[k] + HeaderSize + Len(sent[k+1])
                                 /\ Len(sent[k+1]) \in Nat
  <2>1. k + 1 \in 1 .. Len(sent) /\ (k + 1) - 1 = k
    BY <1>5, <1>6
  <2>2. QED
    BY <2>1, <1>2, LayoutType DEF Layout
<1>7. InFrame(pos, sent, k, Handed(pos))
  <2>1. CASE rpc = "header"
    <3>1. Handed(pos) = pos[k] + Len(buffer) /\ Len(buffer) < 4
      BY <2>1, <1>2, <1>3, <1>5 DEF BufferAt, Control, HeaderSize
    <3>2. QED
      BY <3>1, <1>5, <1>6 DEF InFrame, HeaderSize
  <2>2. CASE rpc = "body"
    <3>1. /\ Handed(pos) = pos[k] + 4 + Len(buffer) /\ k < Len(sent)
          /\ Len(buffer) < Len(sent[k+1])
      BY <2>2, <1>3, <1>4, <1>5 DEF BufferAt, Reader, HeaderSize
    <3>2. QED
      BY <3>1, <1>5, <1>6 DEF InFrame, HeaderSize
  <2>3. QED
    BY <2>1, <2>2, <1>3
<1>8. peer # "rst" => k = whole
  BY <1>2, <1>4, <1>7, FrameUnique DEF Writer
<1>9. Control' /\ EndLosesNoFrame'
  BY <1>2, <1>3, <1>8 DEF Control, EndLosesNoFrame
<1>10. Placed(T, pos)'
  BY <1>2, <1>3 DEF Placed
<1>11. QED
  BY <1>9, <1>10 DEF IInv

\* A read that returns, with the bytes before pos[Len(received) + 1] taken.
LEMMA ReturnsIInv ==
  ASSUME IInv, NEW T, NEW pos, Placed(T, pos), TypeOK', rpc # "failed",
         UNCHANGED <<wire, peer, clientVars>>, Receive(0, "idle"),
         Len(received) + 1 \in 1 .. Len(sent),
         Len(received') = Len(received) + 1, pos[Len(received) + 1] = Taken(pos)
  PROVE  IInv'
<1>1. TypeOK /\ Control /\ Layout(T, pos, sent) /\ Reader(T, pos) /\ Writer(T, pos)
  BY DEF IInv, Placed
<1>2. /\ UNCHANGED <<wpc, payload, sent, whole, wire, peer>>
      /\ rpc' = "idle" /\ size' = 0 /\ buffer' = <<>>
  BY DEF clientVars, Receive
<1>3. /\ Taken(pos) \in Nat /\ Len(buffer') = 0 /\ Len(sent) \in Nat /\ Len(received) \in Nat
      /\ BufferAt(pos)' = pos[Len(received')] + 0
  BY <1>1, <1>2, Positions, SequenceTypes DEF BufferAt
<1>4. BufferAt(pos)' = Taken(pos)
  BY <1>3
<1>5. Taken(pos)' = Taken(pos)
  BY <1>3, <1>4 DEF Taken
<1>6. Handed(pos)' = Handed(pos)
  BY <1>2, <1>5 DEF Handed
<1>7. Reader(T, pos)'
  BY <1>1, <1>2, <1>3, <1>5, <1>6 DEF Reader
<1>8. Writer(T, pos)'
  BY <1>1, <1>2, <1>6 DEF Writer
<1>9. Placed(T, pos)'
  BY <1>1, <1>2, <1>7, <1>8 DEF Placed
<1>10. Control' /\ EndLosesNoFrame'
  BY <1>1, <1>2, <1>3 DEF Control, EndLosesNoFrame
<1>11. QED
  BY <1>9, <1>10 DEF IInv

LEMMA BodyReceivedIInv ==
  ASSUME IInv, BodyReceived, TypeOK'
  PROVE  IInv'
<1>1. PICK T, pos : Placed(T, pos)
  BY DEF IInv
<1>2. /\ rpc = "body" /\ Len(buffer) = size /\ Receive(0, "idle")
      /\ received' = Append(received, buffer) /\ UNCHANGED <<wire, peer, clientVars>>
  BY DEF BodyReceived
<1>3. TypeOK /\ Control
  BY DEF IInv
<1>4. Len(received) + 1 \in 1 .. Len(sent) /\ pos[Len(received) + 1] = Taken(pos)
  BY <1>1, <1>2, <1>3, BodyIsNext
<1>5. Len(received') = Len(received) + 1
  BY <1>2, <1>3, SequenceTypes
<1>6. QED
  BY <1>1, <1>2, <1>4, <1>5, ReturnsIInv

\* A header that has been received is that of the next body.
LEMMA HeaderReceivedIInv ==
  ASSUME IInv, HeaderReceived, TypeOK'
  PROVE  IInv'
<1>1. PICK T, pos : Placed(T, pos)
  BY DEF IInv
<1>2. TypeOK /\ Control /\ Layout(T, pos, sent) /\ rpc = "header" /\ Len(buffer) = size
      /\ UNCHANGED <<wire, peer, clientVars>>
  BY <1>1 DEF IInv, Placed, HeaderReceived
<1> DEFINE k == Len(received)
           n == HeaderSizeOf(buffer)
<1>3. /\ k + 1 \in 1 .. Len(sent) /\ sent[k+1] \in Body /\ n = Len(sent[k+1])
      /\ pos[k] \in Nat /\ pos[k+1] = pos[k] + HeaderSize + n
  BY <1>1, <1>2, HeaderIsNext
<1>4. n \in Nat /\ k \in Nat /\ Len(sent) \in Nat
  BY <1>2, <1>3, BodyType, SequenceTypes
<1>5. Taken(pos) = pos[k] + HeaderSize /\ Taken(pos) \in Nat
  BY <1>1, <1>2, <1>3, Positions DEF Taken, BufferAt, Control, HeaderSize
<1> HIDE DEF n
<1>6. CASE n > 0
  <2>1. /\ rpc' = "body" /\ size' = n /\ buffer' = <<>>
        /\ UNCHANGED <<wpc, payload, sent, whole, wire, peer, received>>
    BY <1>2, <1>6 DEF HeaderReceived, Receive, clientVars, n
  <2>2. Reader(T, pos) /\ Writer(T, pos)
    BY <1>1, <1>2 DEF Placed
  <2>3. BufferAt(pos)' = pos[k] + HeaderSize /\ Len(buffer') = 0
    BY <2>1 DEF BufferAt
  <2>4. Taken(pos)' = Taken(pos)
    BY <2>3, <1>5 DEF Taken
  <2>5. Handed(pos)' = Handed(pos)
    BY <2>1, <2>4 DEF Handed
  <2>6. Reader(T, pos)'
    BY <2>1, <2>2, <2>3, <2>4, <2>5, <1>3, <1>4 DEF Reader
  <2>7. Writer(T, pos)'
    BY <2>1, <2>2, <2>5 DEF Writer
  <2>8. Placed(T, pos)'
    BY <2>1, <2>6, <2>7, <1>2 DEF Placed
  <2>9. Control' /\ EndLosesNoFrame'
    BY <2>1, <1>2 DEF Control, EndLosesNoFrame
  <2>10. QED
    BY <2>8, <2>9 DEF IInv
<1>7. CASE n = 0
  <2>1. Receive(0, "idle") /\ received' = Append(received, <<>>)
    BY <1>7 DEF HeaderReceived, n
  <2>2. Len(received') = k + 1
    BY <2>1, <1>2, SequenceTypes
  <2>3. pos[k+1] = Taken(pos)
    BY <1>3, <1>5, <1>7 DEF HeaderSize
  <2>4. QED
    BY <2>1, <2>2, <2>3, <1>1, <1>2, <1>3, ReturnsIInv
<1>8. QED
  BY <1>4, <1>6, <1>7

LEMMA NextIInv ==
  ASSUME IInv, [Next]_vars
  PROVE  IInv'
<1>1. TypeOK'
  BY NextType DEF IInv
<1>2. QED
  BY <1>1, WriteIInv, FlushIInv, StillIInv, ClosesIInv, ResetsIInv, RecvIInv, RecvFailsIInv,
     HeaderReceivedIInv, BodyReceivedIInv
     DEF Next, ClientFlushes, ServerStep, Finished
-----------------------------------------------------------------------------
(* Theorems.                                                               *)

\* The inductive invariant: the stream in which every byte has its place.
THEOREM ReadInvariant == Spec => []IInv
<1>1. Init => IInv
  BY InitIInv
<1>2. IInv /\ [Next]_vars => IInv'
  BY NextIInv
<1>3. QED
  BY <1>1, <1>2, PTL DEF Spec

\* No read fails while a frame that the client handed over whole, before it closed,
\* has not been returned.
THEOREM ReadEndLosesNoFrame == Spec => []EndLosesNoFrame
<1>1. IInv => EndLosesNoFrame
  BY DEF IInv
<1>2. QED
  BY <1>1, ReadInvariant, PTL

\* read_framed and FramedSocket.write implement a queue of bodies: every step is a
\* write, a read of the next body, or a stutter.
THEOREM ReadRefines == Spec => RefinesFrameChannel
<1>1. Init => Channel!Init
  BY DEF Init, Channel!Init
<1>2. ASSUME IInv, [Next]_vars PROVE [Channel!Next]_<<sent, received>>
  <2> USE <1>2
  <2>1. TypeOK /\ Control
    BY DEF IInv
  <2>2. PICK T, pos : Placed(T, pos)
    BY DEF IInv
  <2>3. Len(received) \in Nat /\ Len(sent) \in Nat
    BY <2>1, SequenceTypes
  <2>4. ASSUME NEW body \in Body, Write(body) PROVE Channel!Next
    BY <2>4 DEF Write, serverVars, Channel!Next, Channel!Write
  <2>5. CASE HeaderReceived
    <3>1. /\ Len(received) + 1 \in 1 .. Len(sent) /\ sent[Len(received) + 1] \in Body
          /\ HeaderSizeOf(buffer) = Len(sent[Len(received) + 1])
      BY <2>1, <2>2, <2>5, HeaderIsNext DEF HeaderReceived
    <3>2. CASE HeaderSizeOf(buffer) > 0
      BY <2>5, <3>2 DEF HeaderReceived, clientVars
    <3>3. CASE ~(HeaderSizeOf(buffer) > 0)
      <4>1. sent[Len(received) + 1] = <<>>
        BY <3>1, <3>3, BodyType, EmptyBody
      <4>2. received' = Append(received, <<>>) /\ UNCHANGED sent
        BY <2>5, <3>3 DEF HeaderReceived, clientVars
      <4>3. Len(received) < Len(sent)
        BY <3>1, <2>3
      <4>4. QED
        BY <4>1, <4>2, <4>3 DEF Channel!Next, Channel!Read
    <3>4. QED
      BY <3>2, <3>3
  <2>6. CASE BodyReceived
    <3>1. Len(received) + 1 \in 1 .. Len(sent) /\ buffer = sent[Len(received) + 1]
      BY <2>1, <2>2, <2>6, BodyIsNext DEF BodyReceived
    <3>2. received' = Append(received, buffer) /\ UNCHANGED sent /\ Len(received) < Len(sent)
      BY <2>3, <2>6, <3>1 DEF BodyReceived, clientVars
    <3>3. QED
      BY <3>1, <3>2 DEF Channel!Next, Channel!Read
  <2>7. CASE \/ ClientFlushes \/ Written \/ Closes \/ Resets \/ Read \/ RecvFails
             \/ (\E n \in 1 .. Len(wire) : Recv(n)) \/ UNCHANGED vars
    BY <2>7 DEF ClientFlushes, Flush, Written, Closes, Resets, Read, RecvFails, Recv, vars,
                clientVars, serverVars
  <2>8. QED
    BY <2>4, <2>5, <2>6, <2>7 DEF Next, ServerStep, Finished
<1>3. QED
  BY <1>1, <1>2, ReadInvariant, PTL DEF Spec, RefinesFrameChannel, Channel!Spec
=============================================================================
