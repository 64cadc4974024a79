------------------------- MODULE FramedSocketProofs -------------------------
(***************************************************************************)
(* The reads of the client return what the server wrote, for every set of  *)
(* bodies, every number of frames and every way to cut the stream into     *)
(* pieces and chunks.  The invariant places what has been returned, what   *)
(* consume has copied, the chunks, what is under way and what the server   *)
(* still sends next to each other in the stream of all frames.             *)
(***************************************************************************)
EXTENDS FramedSocket, FramingProofs, WellFoundedInduction

\* The chunks c lie one after the other in T after its first `at` bytes, and chunk
\* i ends ends[i] bytes further on.
Laid(T, at, c, ends) ==
  /\ c \in Seq(Seq(Byte))
  /\ ends \in [0 .. Len(c) -> Nat] /\ ends[0] = 0
  /\ \A i \in 1 .. Len(c) :
       /\ ends[i] = ends[i-1] + Len(c[i])
       /\ \A j \in 1 .. Len(c[i]) : c[i][j] = T[at + ends[i-1] + j]
  /\ \A i, j \in 0 .. Len(c) : i <= j => ends[i] <= ends[j]

\* Where the part of the frame begins that is being read, and where those bytes end
\* that have been copied, are in chunks, and have been handed to the kernel.
PartAt(pos)   == pos[Len(received)] + IF part = "body" THEN HeaderSize ELSE 0
Copied(pos)   == PartAt(pos) + Len(out)
Buffered(pos) == Copied(pos) + bufferedLength
Handed(pos)   == Buffered(pos) + Len(wire)

Control ==
  /\ wpc = "closed" <=> peer # "open"
  /\ wpc \in {"idle", "closed"} => ptr = <<>>
  /\ wpc \in {"header", "body"} => Len(sent) > 0
  /\ ended => peer # "open" /\ wire = <<>>
  /\ rpc = "idle" => part = "header"
  /\ rpc # "consume" => out = <<>>
  /\ part = "header" => required <= HeaderSize
  /\ part = "header" /\ rpc \in {"await", "consume"} => required = HeaderSize
  /\ Len(out) <= required
  /\ rpc = "consume" => Remaining <= bufferedLength
  /\ rpc = "await" => bufferedLength < required
  /\ rpc = "failed" => peer # "open"
  /\ rpc = "failed" /\ peer # "rst" => wire = <<>> /\ bufferedLength < required
  /\ Len(received) <= Len(sent)

\* What the client has received and will receive.
Reader(T, pos) ==
  /\ part = "body" => Len(received) < Len(sent) /\ required = Len(sent[Len(received) + 1])
  /\ \A j \in 1 .. Len(out) : out[j] = T[PartAt(pos) + j]
  /\ \E ends : Laid(T, Copied(pos), chunks, ends) /\ ends[Len(chunks)] = bufferedLength
  /\ Handed(pos) <= Len(T)
  /\ \A i \in 1 .. Len(wire) : wire[i] = T[Buffered(pos) + i]

\* What the kernel has taken from the server and has still to take.
Writer(T, pos) ==
  /\ peer # "rst" => InFrame(pos, sent, whole, Handed(pos))
  /\ \A i \in 1 .. Len(ptr) : ptr[i] = T[Handed(pos) + i]
  /\ wpc = "idle" => Handed(pos) = Len(T)
  /\ wpc = "header" => Handed(pos) + Len(ptr) = pos[Len(sent) - 1] + HeaderSize
  /\ wpc = "body" => Handed(pos) + Len(ptr) = Len(T)
  /\ wpc \in {"header", "body"} => pos[Len(sent) - 1] <= Handed(pos)

Placed(T, pos) == Layout(T, pos, sent) /\ Reader(T, pos) /\ Writer(T, pos)

\* The inductive invariant.
IInv == TypeOK /\ Control /\ \E T, pos : Placed(T, pos)
-----------------------------------------------------------------------------
(* Chunks.                                                                 *)

LEMMA LaidType ==
  ASSUME NEW T, NEW at, NEW c, NEW ends, Laid(T, at, c, ends)
  PROVE  /\ Len(c) \in Nat /\ c \in Seq(Seq(Byte))
         /\ \A i \in 0 .. Len(c) : ends[i] \in Nat /\ ends[i] <= ends[Len(c)]
         /\ \A i \in 1 .. Len(c) : /\ i \in 0 .. Len(c) /\ i - 1 \in 0 .. Len(c)
                                   /\ c[i] \in Seq(Byte) /\ Len(c[i]) \in Nat
<1>1. c \in Seq(Seq(Byte)) /\ Len(c) \in Nat /\ Len(c) \in 0 .. Len(c)
  BY DEF Laid
<1>2. \A i \in 0 .. Len(c) : ends[i] \in Nat /\ ends[i] <= ends[Len(c)]
  BY <1>1 DEF Laid
<1>3. \A i \in 1 .. Len(c) : i \in 0 .. Len(c) /\ i - 1 \in 0 .. Len(c) /\ c[i] \in Seq(Byte)
  BY <1>1
<1>4. QED
  BY <1>1, <1>2, <1>3

LEMMA LaidEmpty ==
  ASSUME NEW T, NEW at
  PROVE  Laid(T, at, <<>>, [i \in 0 .. 0 |-> 0])
<1>1. \A S : <<>> \in Seq(S)
  OBVIOUS
<1>2. QED
  BY <1>1 DEF Laid

\* Where the chunks lie is a matter of the bytes they cover.
LEMMA LaidElsewhere ==
  ASSUME NEW T, NEW at \in Nat, NEW c, NEW ends, Laid(T, at, c, ends), NEW T2,
         \A i \in 1 .. ends[Len(c)] : T2[at + i] = T[at + i]
  PROVE  Laid(T2, at, c, ends)
<1>1. ASSUME NEW i \in 1 .. Len(c), NEW j \in 1 .. Len(c[i])
      PROVE  c[i][j] = T2[at + ends[i-1] + j]
  <2>1. /\ ends[i] = ends[i-1] + Len(c[i]) /\ c[i][j] = T[at + ends[i-1] + j]
    BY DEF Laid
  <2>2. /\ ends[i-1] \in Nat /\ ends[i] \in Nat /\ ends[i] <= ends[Len(c)]
        /\ Len(c[i]) \in Nat /\ ends[Len(c)] \in Nat
    <3>1. i \in 0 .. Len(c) /\ i - 1 \in 0 .. Len(c) /\ Len(c) \in 0 .. Len(c)
      BY LaidType
    <3>2. QED
      BY <3>1, LaidType
  <2> DEFINE p == ends[i-1]
             q == ends[i]
             l == Len(c[i])
             e == ends[Len(c)]
  <2>3. p \in Nat /\ q \in Nat /\ l \in Nat /\ e \in Nat /\ q = p + l /\ q <= e /\ j \in 1 .. l
    BY <2>1, <2>2
  <2>4. c[i][j] = T[at + p + j]
    BY <2>1
  <2> HIDE DEF p, q, l, e
  <2>5. p + j \in 1 .. e /\ at + p + j = at + (p + j)
    BY <2>3
  <2>6. T2[at + (p + j)] = T[at + (p + j)]
    BY <2>5 DEF e
  <2>7. QED
    BY <2>4, <2>5, <2>6 DEF p
<1>2. QED
  BY <1>1 DEF Laid

\* A chunk that arrives lies after the others.
ArrivedLies(T, at, c, ends, chunk) ==
  \E e2 : /\ Laid(T, at, Append(c, chunk), e2)
          /\ e2[Len(Append(c, chunk))] = ends[Len(c)] + Len(chunk)

LEMMA LaidAppend ==
  ASSUME NEW T, NEW at \in Nat, NEW c, NEW ends, Laid(T, at, c, ends), NEW chunk \in Seq(Byte),
         \A j \in 1 .. Len(chunk) : chunk[j] = T[at + ends[Len(c)] + j]
  PROVE  ArrivedLies(T, at, c, ends, chunk)
<1> DEFINE n  == Len(c)
           l  == Len(chunk)
           c2 == Append(c, chunk)
           e2 == [i \in 0 .. n + 1 |-> IF i = n + 1 THEN ends[n] + l ELSE ends[i]]
<1>1. /\ n \in Nat /\ c \in Seq(Seq(Byte)) /\ \A i \in 0 .. n : ends[i] \in Nat /\ ends[i] <= ends[n]
      /\ n \in 0 .. n /\ l \in Nat /\ ends[n] \in Nat
  BY LaidType
<1>2. /\ c2 \in Seq(Seq(Byte)) /\ Len(c2) = n + 1 /\ c2[n+1] = chunk
      /\ \A i \in 1 .. n : c2[i] = c[i]
  BY <1>1
<1>3. /\ e2 \in [0 .. n + 1 -> Nat] /\ e2[n+1] = ends[n] + l
      /\ \A i \in 0 .. n : e2[i] = ends[i]
  <2>1. ends[n] + l \in Nat /\ n + 1 \in 0 .. n + 1
    BY <1>1
  <2>2. \A i \in 0 .. n : i \in 0 .. n + 1 /\ i # n + 1
    BY <1>1
  <2>3. QED
    BY <2>1, <2>2, <1>1
<1> HIDE DEF c2, e2
<1>4. ASSUME NEW i \in 1 .. n + 1
      PROVE  /\ e2[i] = e2[i-1] + Len(c2[i])
             /\ \A j \in 1 .. Len(c2[i]) : c2[i][j] = T[at + e2[i-1] + j]
  <2>1. CASE i = n + 1
    <3>1. e2[i-1] = ends[n] /\ c2[i] = chunk /\ e2[i] = ends[n] + l
      <4>1. i - 1 = n
        BY <2>1, <1>1
      <4>2. QED
        BY <2>1, <4>1, <1>1, <1>2, <1>3
    <3>2. QED
      BY <3>1
  <2>2. CASE i \in 1 .. n
    <3>1. i \in 0 .. n /\ i - 1 \in 0 .. n
      BY <2>2, <1>1
    <3>2. e2[i] = ends[i] /\ e2[i-1] = ends[i-1] /\ c2[i] = c[i]
      BY <2>2, <3>1, <1>2, <1>3
    <3>3. QED
      BY <2>2, <3>2 DEF Laid
  <2>3. i = n + 1 \/ i \in 1 .. n
    <3>1. n \in Nat
      BY <1>1
    <3> HIDE DEF n
    <3>2. QED
      BY <3>1
  <2> HIDE DEF n, l
  <2>4. QED
    BY <2>1, <2>2, <2>3
<1>5. ASSUME NEW i \in 0 .. n + 1, NEW j \in 0 .. n + 1, i <= j PROVE e2[i] <= e2[j]
  <2>1. (i = n + 1 /\ j = n + 1) \/ (i \in 0 .. n /\ j = n + 1) \/ (i \in 0 .. n /\ j \in 0 .. n)
    BY <1>1, <1>5
  <2>2. CASE i = n + 1 /\ j = n + 1
    BY <2>2, <1>1, <1>3
  <2>3. CASE i \in 0 .. n /\ j = n + 1
    <3>1. e2[i] = ends[i] /\ ends[i] \in Nat /\ ends[i] <= ends[n] /\ e2[j] = ends[n] + l
      BY <2>3, <1>1, <1>3
    <3>2. QED
      BY <3>1, <1>1
  <2>4. CASE i \in 0 .. n /\ j \in 0 .. n
    BY <2>4, <1>3, <1>5 DEF Laid
  <2> HIDE DEF n, l
  <2>5. QED
    BY <2>1, <2>2, <2>3, <2>4
<1>6. e2[0] = 0
  <2>1. 0 \in 0 .. n
    BY <1>1
  <2>2. QED
    BY <2>1, <1>3 DEF Laid
<1>7. Laid(T, at, c2, e2)
  BY <1>2, <1>3, <1>4, <1>5, <1>6 DEF Laid
<1>8. QED
  BY <1>2, <1>3, <1>7 DEF c2, ArrivedLies

\* What is left of the chunks when take bytes of the first one have been copied.
Left(c, take) ==
  IF take = Len(c[1]) THEN Tail(c)
  ELSE [c EXCEPT ![1] = SubSeq(c[1], take + 1, Len(c[1]))]

\* The bytes copied are those at `at`, and what is left lies that much further on.
LeftLies(T, at, c, ends, take) ==
  /\ \E e2 : /\ Laid(T, at + take, Left(c, take), e2)
             /\ e2[Len(Left(c, take))] = ends[Len(c)] - take
  /\ take <= ends[Len(c)]
  /\ \A j \in 1 .. take : c[1][j] = T[at + j]

LEMMA LaidTaken ==
  ASSUME NEW T, NEW at \in Nat, NEW c, NEW ends, Laid(T, at, c, ends), c # <<>>,
         NEW take \in 0 .. Len(c[1])
  PROVE  LeftLies(T, at, c, ends, take)
<1> DEFINE n  == Len(c)
           l  == Len(c[1])
           c2 == Left(c, take)
<1>1. /\ c \in Seq(Seq(Byte)) /\ n \in Nat /\ n > 0 /\ 1 \in 1 .. n
      /\ c[1] \in Seq(Byte) /\ l \in Nat /\ take \in Nat
  <2>1. c \in Seq(Seq(Byte)) /\ n \in Nat
    BY LaidType
  <2>2. n > 0
    BY <2>1
  <2>3. QED
    BY <2>1, <2>2
<1>2. /\ ends[0] = 0 /\ ends[1] = l /\ \A j \in 1 .. l : c[1][j] = T[at + j]
      /\ \A i \in 1 .. n : ends[i] \in Nat /\ l <= ends[i] /\ i \in 0 .. n
      /\ \A i \in 1 .. n, k \in 1 .. n : i <= k => ends[i] <= ends[k]
  <2>1. ends[0] = 0 /\ 1 - 1 = 0 /\ \A j \in 1 .. l : at + 0 + j = at + j
    BY <1>1 DEF Laid
  <2>2. /\ ends[1] = ends[1-1] + l
        /\ \A j \in 1 .. l : c[1][j] = T[at + ends[1-1] + j]
    BY <1>1 DEF Laid
  <2>3. ends[1] = l
    BY <2>1, <2>2, <1>1
  <2>4. \A i \in 1 .. n : i \in 0 .. n /\ 1 <= i /\ 1 \in 0 .. n
    BY <1>1
  <2>5. \A i, k \in 0 .. n : i <= k => ends[i] <= ends[k]
    BY DEF Laid
  <2>6. \A i \in 0 .. n : ends[i] \in Nat
    BY LaidType
  <2>7. \A i \in 1 .. n : ends[i] \in Nat /\ ends[1] <= ends[i]
    BY <2>4, <2>5, <2>6
  <2>8. \A j \in 1 .. l : c[1][j] = T[at + j]
    <3> SUFFICES ASSUME NEW j \in 1 .. l PROVE c[1][j] = T[at + j]
      OBVIOUS
    <3>1. at + ends[1-1] + j = at + j
      BY <2>1
    <3>2. QED
      BY <3>1, <2>2
  <2>9. QED
    BY <2>1, <2>3, <2>4, <2>5, <2>7, <2>8
<1>3. \A i \in 2 .. n : /\ i - 1 \in 1 .. n /\ i \in 1 .. n /\ ends[i] = ends[i-1] + Len(c[i])
                        /\ Len(c[i]) \in Nat
                        /\ \A j \in 1 .. Len(c[i]) : c[i][j] = T[at + ends[i-1] + j]
  <2> TAKE i \in 2 .. n
  <2>1. i \in 1 .. n /\ i - 1 \in 1 .. n
    BY <1>1
  <2>2. QED
    BY <2>1, LaidType DEF Laid
<1>4. take <= ends[n] /\ \A j \in 1 .. take : c[1][j] = T[at + j]
  <2>1. n \in 1 .. n /\ take <= l /\ \A j \in 1 .. take : j \in 1 .. l
    BY <1>1
  <2>2. l <= ends[n] /\ ends[n] \in Nat
    BY <2>1, <1>2
  <2>3. QED
    BY <2>1, <2>2, <1>1, <1>2
<1> HIDE DEF n, l, c2
<1>5. CASE take = l
  <2>1. c2 = Tail(c)
    BY <1>5 DEF l, c2, Left
  <2>2. /\ c2 \in Seq(Seq(Byte)) /\ Len(c2) = n - 1 /\ \A i \in 1 .. n - 1 : c2[i] = c[i+1]
    BY <2>1, <1>1 DEF n
  <2> DEFINE e2 == [i \in 0 .. n - 1 |-> ends[i+1] - take]
  <2>3. \A i \in 0 .. n - 1 : i + 1 \in 1 .. n /\ e2[i] = ends[i+1] - take /\ e2[i] \in Nat
    <3> TAKE i \in 0 .. n - 1
    <3>1. i + 1 \in 1 .. n
      BY <1>1
    <3>2. ends[i+1] \in Nat /\ l <= ends[i+1]
      BY <3>1, <1>2
    <3>3. QED
      BY <3>1, <3>2, <1>1, <1>5
  <2>4. e2 \in [0 .. n - 1 -> Nat]
    BY <2>3
  <2> HIDE DEF e2
  <2>5. e2[0] = 0
    <3>1. 0 \in 0 .. n - 1 /\ 0 + 1 = 1
      BY <1>1
    <3>2. QED
      BY <3>1, <2>3, <1>1, <1>2, <1>5
  <2>6. ASSUME NEW i \in 1 .. n - 1
        PROVE  /\ e2[i] = e2[i-1] + Len(c2[i])
               /\ \A j \in 1 .. Len(c2[i]) : c2[i][j] = T[at + take + e2[i-1] + j]
    <3>1. /\ i + 1 \in 2 .. n /\ i \in 0 .. n - 1 /\ i - 1 \in 0 .. n - 1 /\ i \in 1 .. n
          /\ (i + 1) - 1 = i /\ (i - 1) + 1 = i
      BY <1>1
    <3>2. /\ e2[i] = ends[i+1] - take /\ e2[i-1] = ends[i] - take /\ c2[i] = c[i+1]
          /\ ends[i] \in Nat
      BY <3>1, <2>2, <2>3, <1>2
    <3>3. /\ ends[i+1] = ends[i] + Len(c[i+1]) /\ Len(c[i+1]) \in Nat
          /\ \A j \in 1 .. Len(c[i+1]) : c[i+1][j] = T[at + ends[i] + j]
      BY <3>1, <1>3
    <3>4. \A j \in 1 .. Len(c[i+1]) : at + take + e2[i-1] + j = at + ends[i] + j
      BY <3>2, <1>1
    <3>5. e2[i] = e2[i-1] + Len(c2[i])
      <4>1. \A p, m \in Nat : (p + m) - take = (p - take) + m
        BY <1>1
      <4>2. QED
        BY <3>2, <3>3, <4>1
    <3>6. QED
      BY <3>2, <3>3, <3>4, <3>5
  <2>7. ASSUME NEW i \in 0 .. n - 1, NEW j \in 0 .. n - 1, i <= j PROVE e2[i] <= e2[j]
    <3>1. i + 1 \in 1 .. n /\ j + 1 \in 1 .. n /\ i + 1 <= j + 1
      BY <2>7, <1>1
    <3>2. ends[i+1] <= ends[j+1] /\ ends[i+1] \in Nat /\ ends[j+1] \in Nat
      BY <3>1, <1>2
    <3>3. e2[i] = ends[i+1] - take /\ e2[j] = ends[j+1] - take
      BY <2>3
    <3>4. QED
      BY <3>2, <3>3, <1>1
  <2>8. Laid(T, at + take, c2, e2)
    BY <2>2, <2>4, <2>5, <2>6, <2>7 DEF Laid
  <2>9. e2[Len(c2)] = ends[n] - take
    <3>1. n - 1 \in 0 .. n - 1 /\ (n - 1) + 1 = n
      BY <1>1
    <3>2. QED
      BY <3>1, <2>2, <2>3
  <2>10. QED
    BY <2>8, <2>9, <1>4 DEF n, c2, LeftLies
<1>6. CASE take # l
  <2> DEFINE rest == SubSeq(c[1], take + 1, l)
  <2>1. /\ rest \in Seq(Byte) /\ Len(rest) = l - take
        /\ \A j \in 1 .. l - take : rest[j] = c[1][take + j]
    BY <1>1, Cut DEF l
  <2>2. c2 = [c EXCEPT ![1] = rest]
    BY <1>6 DEF l, c2, Left
  <2> HIDE DEF rest
  <2>3. /\ c2 \in Seq(Seq(Byte)) /\ Len(c2) = n /\ c2[1] = rest
        /\ \A i \in 2 .. n : c2[i] = c[i]
    <3>1. c \in Seq(Seq(Byte)) /\ 1 \in 1 .. Len(c) /\ rest \in Seq(Byte)
      BY <1>1, <2>1 DEF n
    <3>2. \A i \in 2 .. n : i \in 1 .. Len(c) /\ i # 1
      BY <1>1 DEF n
    <3>3. QED
      BY <2>2, <3>1, <3>2 DEF n
  <2> DEFINE e2 == [i \in 0 .. n |-> IF i = 0 THEN 0 ELSE ends[i] - take]
  <2>4. /\ e2[0] = 0
        /\ \A i \in 1 .. n : e2[i] = ends[i] - take /\ e2[i] \in Nat
    <3>1. 0 \in 0 .. n /\ \A i \in 1 .. n : i \in 0 .. n /\ i # 0
      BY <1>1
    <3>2. \A i \in 1 .. n : ends[i] - take \in Nat
      <4> TAKE i \in 1 .. n
      <4>1. ends[i] \in Nat /\ l <= ends[i]
        BY <1>2
      <4>2. take <= l
        BY <1>1 DEF l
      <4>3. QED
        BY <4>1, <4>2, <1>1
    <3>3. QED
      BY <3>1, <3>2
  <2>5. e2 \in [0 .. n -> Nat]
    <3>1. \A i \in 0 .. n : i = 0 \/ i \in 1 .. n
      BY <1>1
    <3>2. QED
      BY <3>1, <2>4
  <2> HIDE DEF e2
  <2>6. ASSUME NEW i \in 1 .. n
        PROVE  /\ e2[i] = e2[i-1] + Len(c2[i])
               /\ \A j \in 1 .. Len(c2[i]) : c2[i][j] = T[at + take + e2[i-1] + j]
    <3>1. CASE i = 1
      <4>1. i - 1 = 0 /\ e2[i-1] = 0 /\ c2[i] = rest /\ e2[i] = l - take
        BY <3>1, <2>3, <2>4, <1>1, <1>2
      <4>2. \A j \in 1 .. Len(rest) : /\ take + j \in 1 .. l /\ j \in 1 .. l - take
                                      /\ at + take + 0 + j = at + (take + j)
        BY <1>1, <2>1
      <4>3. \A j \in 1 .. Len(rest) : rest[j] = T[at + take + 0 + j]
        BY <4>2, <2>1, <1>2
      <4>4. e2[i] = 0 + Len(rest)
        BY <4>1, <2>1, <1>1
      <4>5. QED
        BY <4>1, <4>3, <4>4
    <3>2. CASE i \in 2 .. n
      <4>1. /\ i - 1 \in 1 .. n /\ i \in 1 .. n
            /\ ends[i] = ends[i-1] + Len(c[i]) /\ Len(c[i]) \in Nat
            /\ \A j \in 1 .. Len(c[i]) : c[i][j] = T[at + ends[i-1] + j]
        BY <3>2, <1>3
      <4>2. /\ e2[i] = ends[i] - take /\ e2[i-1] = ends[i-1] - take /\ c2[i] = c[i]
            /\ ends[i-1] \in Nat
        BY <3>2, <4>1, <2>3, <2>4, <1>2
      <4>3. \A j \in 1 .. Len(c[i]) : at + take + e2[i-1] + j = at + ends[i-1] + j
        BY <4>2, <1>1
      <4>4. e2[i] = e2[i-1] + Len(c2[i])
        <5>1. \A p, m \in Nat : (p + m) - take = (p - take) + m
          BY <1>1
        <5>2. QED
          BY <4>1, <4>2, <5>1
      <4>5. QED
        BY <4>1, <4>2, <4>3, <4>4
    <3>3. i = 1 \/ i \in 2 .. n
      BY <1>1
    <3>4. QED
      BY <3>1, <3>2, <3>3
  <2>7. ASSUME NEW i \in 0 .. n, NEW j \in 0 .. n, i <= j PROVE e2[i] <= e2[j]
    <3>1. i = 0 \/ (i \in 1 .. n /\ j \in 1 .. n)
      BY <2>7, <1>1
    <3>2. CASE i = 0
      <4>1. e2[j] \in Nat
        BY <2>5
      <4>2. QED
        BY <3>2, <4>1, <2>4
    <3>3. CASE i \in 1 .. n /\ j \in 1 .. n
      <4>1. /\ ends[i] <= ends[j] /\ ends[i] \in Nat /\ ends[j] \in Nat
            /\ e2[i] = ends[i] - take /\ e2[j] = ends[j] - take
        BY <3>3, <2>4, <2>7, <1>2
      <4>2. QED
        BY <4>1, <1>1
    <3>4. QED
      BY <3>1, <3>2, <3>3
  <2>8. Laid(T, at + take, c2, e2)
    BY <2>3, <2>4, <2>5, <2>6, <2>7 DEF Laid
  <2>9. e2[Len(c2)] = ends[n] - take
    <3>1. n \in 1 .. n
      BY <1>1
    <3>2. QED
      BY <3>1, <2>3, <2>4
  <2>10. QED
    BY <2>8, <2>9, <1>4 DEF n, c2, LeftLies
<1>7. QED
  BY <1>5, <1>6
-----------------------------------------------------------------------------
(* The places of the parts of a state.                                     *)

LEMMA SequenceTypes ==
  ASSUME TypeOK
  PROVE  /\ Len(wire) \in Nat /\ Len(out) \in Nat /\ Len(ptr) \in Nat
         /\ Len(sent) \in Nat /\ Len(received) \in Nat /\ Len(chunks) \in Nat
         /\ wire \in Seq(Byte) /\ out \in Seq(Byte) /\ ptr \in Seq(Byte)
         /\ sent \in Seq(Body) /\ received \in Seq(Body) /\ chunks \in Seq(Seq(Byte))
         /\ required \in Nat /\ bufferedLength \in Nat /\ whole \in Nat
  BY DEF TypeOK

LEMMA Within ==
  \A p, l, n \in Nat : p + l <= n => \A j \in 1 .. l : p + j \in 1 .. n
  OBVIOUS

LEMMA EmptySequence == \A S : <<>> \in Seq(S)
  OBVIOUS

LEMMA EmptyBody ==
  ASSUME NEW body \in Body
  PROVE  body = <<>> <=> Len(body) = 0
  BY BodyType

LEMMA Positions ==
  ASSUME TypeOK, Control, NEW T, NEW pos, Placed(T, pos)
  PROVE  /\ pos[Len(received)] \in Nat /\ PartAt(pos) \in Nat
         /\ Copied(pos) \in Nat /\ Buffered(pos) \in Nat /\ Handed(pos) \in Nat
         /\ Copied(pos) = PartAt(pos) + Len(out)
         /\ Buffered(pos) = Copied(pos) + bufferedLength
         /\ Handed(pos) = Buffered(pos) + Len(wire)
         /\ Handed(pos) <= Len(T)
         /\ Len(received) \in 0 .. Len(sent)
         /\ T \in Seq(Byte) /\ Len(T) \in Nat /\ Layout(T, pos, sent)
<1>1. Layout(T, pos, sent) /\ Handed(pos) <= Len(T)
  BY DEF Placed, Reader
<1>2. Len(received) \in 0 .. Len(sent)
  BY SequenceTypes DEF Control
<1>3. pos[Len(received)] \in Nat /\ Len(T) \in Nat /\ T \in Seq(Byte)
  BY <1>1, <1>2, LayoutType
<1>4. PartAt(pos) \in Nat
  BY <1>3 DEF PartAt, HeaderSize
<1>5. Copied(pos) \in Nat
  BY <1>4, SequenceTypes DEF Copied
<1>6. Buffered(pos) \in Nat
  BY <1>5, SequenceTypes DEF Buffered
<1>7. Handed(pos) \in Nat
  BY <1>6, SequenceTypes DEF Handed
<1>8. QED
  BY <1>1, <1>2, <1>3, <1>4, <1>5, <1>6, <1>7 DEF Copied, Buffered, Handed

\* The frame the server is sending is the last one.
LEMMA LastFrame ==
  ASSUME TypeOK, Control, NEW T, NEW pos, Placed(T, pos), wpc \in {"header", "body"}
  PROVE  /\ Len(sent) \in 1 .. Len(sent) /\ Len(sent) - 1 \in 0 .. Len(sent)
         /\ pos[Len(sent) - 1] \in Nat /\ Last(sent) = sent[Len(sent)] /\ Last(sent) \in Body
         /\ Len(Last(sent)) \in Nat /\ Last(sent) \in Seq(Byte)
         /\ Last(sent) = <<>> <=> Len(Last(sent)) = 0
         /\ pos[Len(sent)] = Len(T)
         /\ Len(T) = pos[Len(sent) - 1] + HeaderSize + Len(Last(sent))
         /\ \A j \in 1 .. Len(Last(sent)) :
              T[pos[Len(sent) - 1] + HeaderSize + j] = Last(sent)[j]
<1> DEFINE m == Len(sent)
<1>1. Layout(T, pos, sent) /\ m \in Nat /\ m > 0
  BY SequenceTypes DEF Placed, Control
<1>2. m \in 1 .. m
  BY <1>1
<1>3. Last(sent) = sent[m]
  BY DEF Last
<1>4. /\ pos[m] = pos[m-1] + HeaderSize + Len(sent[m]) /\ pos[m] = Len(T)
      /\ \A j \in 1 .. Len(sent[m]) : T[pos[m-1] + HeaderSize + j] = sent[m][j]
  BY <1>1, <1>2 DEF Layout
<1>5. sent[m] \in Body /\ m \in 0 .. m /\ m - 1 \in 0 .. m
  BY <1>1, <1>2, LayoutType
<1>6. pos[m-1] \in Nat
  BY <1>1, <1>5, LayoutType
<1> HIDE DEF m
<1>7. QED
  BY <1>2, <1>3, <1>4, <1>5, <1>6, BodyType, EmptyBody DEF m

\* A header that has been copied is that of the next body in the order written.
LEMMA HeaderIsNext ==
  ASSUME TypeOK, Control, NEW T, NEW pos, Placed(T, pos),
         rpc = "consume", part = "header", Remaining = 0
  PROVE  /\ Len(received) + 1 \in 1 .. Len(sent)
         /\ sent[Len(received) + 1] \in Body
         /\ HeaderSizeOf(out) = Len(sent[Len(received) + 1])
         /\ Copied(pos) = pos[Len(received)] + HeaderSize
         /\ pos[Len(received)] \in Nat
<1> DEFINE k == Len(received)
<1>1. /\ required = HeaderSize /\ Len(out) = HeaderSize /\ PartAt(pos) = pos[k] + 0
      /\ \A j \in 1 .. Len(out) : out[j] = T[PartAt(pos) + j]
      /\ out \in Seq(Byte)
  BY SequenceTypes DEF Control, PartAt, Placed, Reader, Remaining
<1>2. /\ pos[k] \in Nat /\ k \in 0 .. Len(sent) /\ Len(T) \in Nat /\ Layout(T, pos, sent)
      /\ Copied(pos) \in Nat /\ Len(wire) \in Nat /\ bufferedLength \in Nat
  BY Positions, SequenceTypes
<1>3. PartAt(pos) = pos[k]
  BY <1>1, <1>2
<1>4. Copied(pos) = pos[k] + 4 /\ Copied(pos) <= Len(T)
  BY <1>1, <1>2, <1>3, Positions DEF HeaderSize
<1>5. pos[k] < Copied(pos)
  BY <1>2, <1>4
<1>6. /\ k + 1 \in 1 .. Len(sent) /\ sent[k+1] \in Body
      /\ \A j \in 1 .. HeaderSize : T[pos[k] + j] = Header(Len(sent[k+1]))[j]
  BY <1>2, <1>4, <1>5, NextFrame
<1>7. \A j \in 1 .. HeaderSize : out[j] = Header(Len(sent[k+1]))[j]
  BY <1>1, <1>3, <1>6
<1>8. HeaderSizeOf(out) = Len(sent[k+1])
  BY <1>1, <1>6, <1>7, HeaderRead
<1>9. QED
  BY <1>2, <1>4, <1>6, <1>8 DEF HeaderSize

\* A body that has been copied is the next one in the order written.
LEMMA BodyIsNext ==
  ASSUME TypeOK, Control, NEW T, NEW pos, Placed(T, pos),
         rpc = "consume", part = "body", Remaining = 0
  PROVE  /\ Len(received) + 1 \in 1 .. Len(sent)
         /\ sent[Len(received) + 1] \in Body
         /\ out = sent[Len(received) + 1]
         /\ pos[Len(received) + 1] = Copied(pos)
<1> DEFINE k == Len(received)
<1>1. /\ k < Len(sent) /\ required = Len(sent[k+1]) /\ PartAt(pos) = pos[k] + HeaderSize
      /\ \A j \in 1 .. Len(out) : out[j] = T[PartAt(pos) + j]
      /\ out \in Seq(Byte) /\ Len(out) = required /\ Len(out) \in Nat
  BY SequenceTypes DEF Control, PartAt, Placed, Reader, Remaining
<1>2. /\ pos[k] \in Nat /\ k \in 0 .. Len(sent) /\ Len(T) \in Nat /\ Layout(T, pos, sent)
      /\ Copied(pos) \in Nat /\ Len(wire) \in Nat /\ bufferedLength \in Nat
  BY Positions, SequenceTypes
<1>3. Copied(pos) = pos[k] + 4 + Len(out) /\ Copied(pos) <= Len(T)
  <2>1. /\ Copied(pos) = PartAt(pos) + Len(out) /\ Handed(pos) <= Len(T)
        /\ Handed(pos) = (Copied(pos) + bufferedLength) + Len(wire)
    BY Positions
  <2>2. PartAt(pos) = pos[k] + 4 /\ Len(out) \in Nat
    BY <1>1 DEF HeaderSize
  <2>3. Copied(pos) <= Handed(pos) /\ Handed(pos) \in Nat
    BY <2>1, <1>2
  <2>4. QED
    BY <2>1, <2>2, <2>3, <1>2
<1>4. pos[k] < Copied(pos)
  BY <1>1, <1>2, <1>3
<1>5. /\ k + 1 \in 1 .. Len(sent) /\ sent[k+1] \in Body
      /\ pos[k+1] = pos[k] + HeaderSize + Len(sent[k+1])
      /\ \A j \in 1 .. Len(sent[k+1]) : T[pos[k] + HeaderSize + j] = sent[k+1][j]
  BY <1>2, <1>3, <1>4, NextFrame
<1>6. \A j \in 1 .. Len(out) : out[j] = sent[k+1][j]
  BY <1>1, <1>5
<1>7. sent[k+1] \in Seq(Byte) /\ Len(out) = Len(sent[k+1])
  BY <1>1, <1>5, BodyType
<1>8. out = sent[k+1]
  BY <1>1, <1>6, <1>7
<1>9. pos[k+1] = Copied(pos)
  BY <1>1, <1>3, <1>5 DEF HeaderSize
<1>10. QED
  BY <1>5, <1>8, <1>9

\* What an iteration of consume's loop copies, and what it leaves.
LEMMA ChunkTaken ==
  ASSUME TypeOK, Control, NEW T, NEW pos, Placed(T, pos), ConsumeChunk
  PROVE  \E take \in Nat :
           /\ out' \in Seq(Byte) /\ Len(out') = Len(out) + take
           /\ \A j \in 1 .. Len(out') : out'[j] = T[PartAt(pos) + j]
           /\ take <= Remaining /\ take <= bufferedLength
           /\ bufferedLength' = bufferedLength - take
           /\ \E ends : /\ Laid(T, Copied(pos) + take, chunks', ends)
                        /\ ends[Len(chunks')] = bufferedLength'
<1> DEFINE chunk == chunks[1]
           take  == IF Remaining < Len(chunk) THEN Remaining ELSE Len(chunk)
           P     == SubSeq(chunk, 1, take)
<1>1. /\ chunks \in Seq(Seq(Byte)) /\ chunks # <<>> /\ Head(chunks) = chunk
      /\ chunk \in Seq(Byte) /\ Len(chunk) \in Nat /\ Remaining \in Nat
  <2>1. chunks \in Seq(Seq(Byte)) /\ chunks # <<>>
    BY SequenceTypes DEF ConsumeChunk
  <2>2. 1 \in 1 .. Len(chunks) /\ Head(chunks) = chunk
    BY <2>1
  <2>3. chunk \in Seq(Byte)
    BY <2>1, <2>2
  <2>4. Remaining \in Nat
    BY SequenceTypes DEF ConsumeChunk, Remaining
  <2>5. QED
    BY <2>1, <2>2, <2>3, <2>4
<1>2. take \in 0 .. Len(chunk) /\ take \in Nat /\ take <= Remaining
  BY <1>1
<1>3. /\ out' = out \o P /\ bufferedLength' = bufferedLength - take
      /\ chunks' = IF take = Len(chunk) THEN Tail(chunks)
                   ELSE [chunks EXCEPT ![1] = SubSeq(chunk, take + 1, Len(chunk))]
  BY <1>1 DEF ConsumeChunk
<1> HIDE DEF take
<1>4. P \in Seq(Byte) /\ Len(P) = take /\ \A j \in 1 .. take : P[j] = chunk[j]
  BY <1>1, <1>2, Cut
<1>5. PICK ends : Laid(T, Copied(pos), chunks, ends) /\ ends[Len(chunks)] = bufferedLength
  BY DEF Placed, Reader
<1>6. Copied(pos) \in Nat /\ PartAt(pos) \in Nat /\ Copied(pos) = PartAt(pos) + Len(out)
  BY Positions
<1>7. /\ \E e2 : Laid(T, Copied(pos) + take, chunks', e2) /\ e2[Len(chunks')] = bufferedLength - take
      /\ take <= bufferedLength
      /\ \A j \in 1 .. take : chunk[j] = T[Copied(pos) + j]
  <2>1. chunks' = Left(chunks, take)
    BY <1>3 DEF Left
  <2>2. /\ \E e2 : /\ Laid(T, Copied(pos) + take, Left(chunks, take), e2)
                   /\ e2[Len(Left(chunks, take))] = ends[Len(chunks)] - take
        /\ take <= ends[Len(chunks)]
        /\ \A j \in 1 .. take : chunks[1][j] = T[Copied(pos) + j]
    <3>1. /\ Copied(pos) \in Nat /\ Laid(T, Copied(pos), chunks, ends) /\ chunks # <<>>
          /\ take \in 0 .. Len(chunks[1])
      BY <1>1, <1>2, <1>5, <1>6
    <3>2. LeftLies(T, Copied(pos), chunks, ends, take)
      BY <3>1, LaidTaken
    <3>3. QED
      BY <3>2 DEF LeftLies
  <2>3. QED
    BY <2>1, <2>2, <1>5
<1> HIDE DEF P
<1>8. /\ out' \in Seq(Byte) /\ Len(out') = Len(out) + take
      /\ \A j \in 1 .. Len(out) : out'[j] = out[j]
      /\ \A j \in 1 .. take : out'[Len(out) + j] = chunk[j]
  <2>1. out \in Seq(Byte)
    BY SequenceTypes
  <2>2. /\ out \o P \in Seq(Byte) /\ Len(out \o P) = Len(out) + Len(P)
        /\ \A j \in 1 .. Len(out) : (out \o P)[j] = out[j]
        /\ \A j \in 1 .. Len(P) : (out \o P)[Len(out) + j] = P[j]
    <3>1. out \in Seq(Byte) /\ P \in Seq(Byte)
      BY <2>1, <1>4
    <3>2. QED
      BY <3>1
  <2>3. QED
    BY <2>2, <1>3, <1>4
<1> HIDE DEF chunk
<1>9. ASSUME NEW j \in 1 .. Len(out') PROVE out'[j] = T[PartAt(pos) + j]
  <2> DEFINE l == Len(out)
  <2>1. l \in Nat /\ j \in 1 .. l + take
    BY <1>8, SequenceTypes
  <2>2. CASE j \in 1 .. l
    BY <2>2, <1>8 DEF Placed, Reader
  <2>3. CASE j \notin 1 .. l
    <3> HIDE DEF l
    <3>1. j - l \in 1 .. take /\ j = l + (j - l)
      BY <2>1, <2>3, <1>2
    <3>2. out'[j] = chunk[j - l]
      BY <3>1, <1>8 DEF l
    <3>3. Copied(pos) + (j - l) = PartAt(pos) + j
      BY <3>1, <2>1, <1>6 DEF l
    <3>4. QED
      BY <3>1, <3>2, <3>3, <1>7
  <2>4. QED
    BY <2>2, <2>3
<1>10. QED
  BY <1>2, <1>3, <1>7, <1>8, <1>9
-----------------------------------------------------------------------------
(* Type correctness.                                                       *)

LEMMA NextType ==
  ASSUME TypeOK, Control, NEW T, NEW pos, Placed(T, pos), [Next]_vars
  PROVE  TypeOK'
<1> USE SequenceTypes, EmptySequence
<1>1. ASSUME NEW body \in Body, WriteFramed(body) PROVE TypeOK'
  <2>1. Header(Len(body)) \in Seq(Byte) /\ Append(sent, body) \in Seq(Body)
    BY BodyType, HeaderType
  <2>2. QED
    BY <1>1, <2>1 DEF WriteFramed, TypeOK, readerVars
<1>2. ASSUME NEW n \in 1 .. Len(ptr), Send(n) PROVE TypeOK'
  <2>1. n \in 0 .. Len(ptr)
    OBVIOUS
  <2>2. SubSeq(ptr, 1, n) \in Seq(Byte) /\ SubSeq(ptr, n + 1, Len(ptr)) \in Seq(Byte)
    BY <2>1, Cut
  <2>3. wire \o SubSeq(ptr, 1, n) \in Seq(Byte)
    BY <2>2, Concatenated
  <2>4. QED
    BY <1>2, <2>2, <2>3 DEF Send, TypeOK, readerVars
<1>3. CASE SendReturns
  <2>1. ptr' \in Seq(Byte) /\ wpc' \in {"idle", "body"}
    <3>1. CASE BodyFollows
      <4>1. ptr' = Last(sent) /\ wpc' = "body"
        BY <1>3, <3>1 DEF SendReturns
      <4>2. Last(sent) \in Seq(Byte)
        BY <1>3, LastFrame DEF SendReturns
      <4>3. QED
        BY <4>1, <4>2
    <3>2. CASE ~BodyFollows
      BY <1>3, <3>2 DEF SendReturns
    <3>3. QED
      BY <3>1, <3>2
  <2>2. QED
    BY <1>3, <2>1 DEF SendReturns, TypeOK, readerVars
<1>4. CASE Closes
  BY <1>4 DEF Closes, TypeOK, readerVars
<1>5. CASE Resets
  <2>1. wire' \in Seq(Byte)
    BY <1>5 DEF Resets
  <2>2. QED
    BY <1>5, <2>1 DEF Resets, TypeOK, readerVars
<1>6. CASE Read
  BY <1>6 DEF Read, WaitForBytes, HeaderSize, TypeOK, writerVars
<1>7. ASSUME NEW n \in 1 .. Len(wire), DataArrives(n) PROVE TypeOK'
  <2>1. n \in 0 .. Len(wire) /\ n \in Nat
    OBVIOUS
  <2>2. SubSeq(wire, 1, n) \in Seq(Byte) /\ SubSeq(wire, n + 1, Len(wire)) \in Seq(Byte)
    BY <2>1, Cut
  <2>3. Append(chunks, SubSeq(wire, 1, n)) \in Seq(Seq(Byte))
    BY <2>2
  <2>4. bufferedLength' \in Nat
    BY <1>7, <2>1 DEF DataArrives
  <2>5. QED
    BY <1>7, <2>2, <2>3, <2>4 DEF DataArrives, TypeOK, writerVars
<1>8. CASE EndArrives \/ ErrorArrives
  BY <1>8 DEF EndArrives, ErrorArrives, TypeOK, writerVars
<1>9. CASE ConsumeChunk
  <2>1. PICK take \in Nat :
          /\ out' \in Seq(Byte) /\ take <= bufferedLength
          /\ bufferedLength' = bufferedLength - take
          /\ \E ends : Laid(T, Copied(pos) + take, chunks', ends)
    BY <1>9, ChunkTaken
  <2>2. chunks' \in Seq(Seq(Byte)) /\ bufferedLength' \in Nat
    BY <2>1 DEF Laid
  <2>3. QED
    BY <1>9, <2>1, <2>2 DEF ConsumeChunk, TypeOK, writerVars
<1>10. CASE HeaderConsumed
  <2>1. HeaderSizeOf(out) \in Nat
    BY <1>10, HeaderIsNext, BodyType DEF HeaderConsumed
  <2>2. QED
    BY <1>10, <2>1 DEF HeaderConsumed, WaitForBytes, TypeOK, writerVars
<1>11. CASE BodyConsumed
  <2>1. out \in Body
    BY <1>11, BodyIsNext DEF BodyConsumed
  <2>2. QED
    BY <1>11, <2>1 DEF BodyConsumed, TypeOK, writerVars
<1>12. CASE UNCHANGED vars
  BY <1>12 DEF vars, writerVars, readerVars, TypeOK
<1>13. QED
  BY <1>1, <1>2, <1>3, <1>4, <1>5, <1>6, <1>7, <1>8, <1>9, <1>10, <1>11, <1>12
     DEF Next, ServerWrites, ClientTurn, Arrival, Finished
-----------------------------------------------------------------------------
(* The invariant.                                                          *)

LEMMA InitIInv == Init => IInv
<1> SUFFICES ASSUME Init PROVE IInv
  OBVIOUS
<1>1. TypeOK
  BY EmptySequence DEF Init, TypeOK
<1>2. Control
  BY DEF Init, Control, HeaderSize
<1> DEFINE P == [i \in 0 .. 0 |-> 0]
<1>3. /\ P[0] = 0 /\ sent = <<>> /\ received = <<>> /\ wire = <<>> /\ out = <<>>
      /\ ptr = <<>> /\ chunks = <<>> /\ bufferedLength = 0 /\ part = "header"
      /\ wpc = "idle" /\ whole = 0
  BY DEF Init
<1>4. Laid(<<>>, 0, <<>>, P)
  BY LaidEmpty
<1>5. Layout(<<>>, P, sent)
  BY <1>3, LayoutEmpty
<1> HIDE DEF P
<1>6. PartAt(P) = 0 /\ Copied(P) = 0 /\ Buffered(P) = 0 /\ Handed(P) = 0
  BY <1>3 DEF PartAt, Copied, Buffered, Handed
<1>7. Reader(<<>>, P)
  BY <1>3, <1>4, <1>6 DEF Reader
<1>8. Writer(<<>>, P)
  BY <1>3, <1>6 DEF Writer, InFrame
<1>9. QED
  BY <1>1, <1>2, <1>5, <1>7, <1>8 DEF IInv, Placed

\* write_framed: the stream grows by a frame, whose header is sent first.
LEMMA WriteIInv ==
  ASSUME TypeOK, Control, NEW T, NEW pos, Placed(T, pos), NEW body \in Body, WriteFramed(body)
  PROVE  Control' /\ \E T2, pos2 : Placed(T2, pos2)'
<1> DEFINE E  == Encode(body)
           H  == Header(Len(body))
           T2 == T \o E
           m  == Len(sent)
<1>1. /\ wpc = "idle" /\ wpc' = "header" /\ sent' = Append(sent, body) /\ ptr' = H
      /\ UNCHANGED <<whole, wire, peer, chunks, bufferedLength, ended, rpc, part, required,
                     out, received>>
  BY DEF WriteFramed, readerVars
<1>2. Layout(T, pos, sent) /\ Reader(T, pos) /\ Writer(T, pos) /\ peer = "open"
  BY <1>1 DEF Placed, Control
<1>3. PICK pos2 : /\ Layout(T2, pos2, Append(sent, body))
                  /\ \A i \in 0 .. m : pos2[i] = pos[i]
  BY <1>2, LayoutAppend
<1>4. /\ m \in Nat /\ Len(sent') = m + 1 /\ \A k \in 1 .. m : sent'[k] = sent[k]
  BY <1>1, SequenceTypes
<1>5. /\ Len(wire) \in Nat /\ Len(out) \in Nat /\ bufferedLength \in Nat
      /\ Len(received) \in 0 .. m
  BY SequenceTypes DEF Control
<1>6. /\ T \in Seq(Byte) /\ E \in Seq(Byte) /\ Len(T) \in Nat /\ Len(E) \in Nat
      /\ Len(E) >= HeaderSize /\ Len(H) = HeaderSize /\ pos[m] = Len(T)
      /\ \A j \in 1 .. HeaderSize : E[j] = H[j]
  <2>1. Len(body) \in Nat /\ Len(E) = HeaderSize + Len(body)
    BY BodyType, Encoded
  <2>2. QED
    BY <2>1, <1>2, LayoutType, Encoded, HeaderType DEF HeaderSize
<1> HIDE DEF E, H
<1>7. /\ Len(T2) = Len(T) + Len(E) /\ \A i \in 1 .. Len(T) : T2[i] = T[i]
      /\ \A i \in 1 .. Len(E) : T2[Len(T) + i] = E[i]
  <2>1. T \in Seq(Byte) /\ E \in Seq(Byte)
    BY <1>6
  <2>2. QED
    BY <2>1
<1>8. pos2[m + 1] = Len(T2) /\ pos2[m] = Len(T)
  <2>1. m \in 0 .. m
    BY <1>4
  <2>2. pos2[Len(Append(sent, body))] = Len(T2)
    BY <1>3 DEF Layout
  <2>3. QED
    BY <2>1, <2>2, <1>1, <1>3, <1>4, <1>6
<1> HIDE DEF T2, m
<1>9. /\ PartAt(pos2)' = PartAt(pos) /\ Copied(pos2)' = Copied(pos)
      /\ Buffered(pos2)' = Buffered(pos) /\ Handed(pos2)' = Handed(pos)
  <2>1. PartAt(pos2)' = PartAt(pos)
    BY <1>1, <1>3, <1>5 DEF PartAt
  <2>2. Copied(pos2)' = Copied(pos)
    BY <2>1, <1>1 DEF Copied
  <2>3. Buffered(pos2)' = Buffered(pos)
    BY <2>2, <1>1 DEF Buffered
  <2>4. QED
    BY <2>1, <2>2, <2>3, <1>1 DEF Handed
<1>10. /\ Handed(pos) = Len(T) /\ PartAt(pos) \in Nat /\ Copied(pos) \in Nat
       /\ Buffered(pos) \in Nat /\ Copied(pos) = PartAt(pos) + Len(out)
       /\ Buffered(pos) = Copied(pos) + bufferedLength
       /\ Handed(pos) = Buffered(pos) + Len(wire)
  BY <1>1, <1>2, Positions DEF Writer
<1>11. Reader(T2, pos2)'
  <2>1. part' = "body" =>
          Len(received') < Len(sent') /\ required' = Len(sent'[Len(received') + 1])
    BY <1>1, <1>2, <1>4, <1>5 DEF Reader, m
  <2> DEFINE L == Len(T)
  <2>0. /\ L \in Nat /\ PartAt(pos) + Len(out) <= L
        /\ Buffered(pos) + Len(wire) <= L /\ Copied(pos) + bufferedLength <= L
    BY <1>5, <1>6, <1>10
  <2> HIDE DEF L
  <2>2. \A j \in 1 .. Len(out) : PartAt(pos) + j \in 1 .. L
    BY <2>0, <1>5, <1>10, Within
  <2>3. \A j \in 1 .. Len(wire) : Buffered(pos) + j \in 1 .. L
    BY <2>0, <1>5, <1>10, Within
  <2>4. \A j \in 1 .. bufferedLength : Copied(pos) + j \in 1 .. L
    BY <2>0, <1>5, <1>10, Within
  <2> USE DEF L
  <2>5. PICK ends : Laid(T, Copied(pos), chunks, ends) /\ ends[Len(chunks)] = bufferedLength
    BY <1>2 DEF Reader
  <2>6. \A j \in 1 .. ends[Len(chunks)] : T2[Copied(pos) + j] = T[Copied(pos) + j]
    BY <2>4, <2>5, <1>7
  <2>7. Laid(T2, Copied(pos), chunks, ends)
    BY <2>5, <2>6, <1>10, LaidElsewhere
  <2>8. Laid(T2, Copied(pos2)', chunks', ends) /\ ends[Len(chunks')] = bufferedLength'
    BY <2>5, <2>7, <1>1, <1>9
  <2>9. Handed(pos2)' <= Len(T2)
    BY <1>6, <1>7, <1>9, <1>10
  <2>10. \A j \in 1 .. Len(out') : out'[j] = T2[PartAt(pos2)' + j]
    BY <2>2, <1>1, <1>2, <1>7, <1>9 DEF Reader
  <2>11. \A j \in 1 .. Len(wire') : wire'[j] = T2[Buffered(pos2)' + j]
    BY <2>3, <1>1, <1>2, <1>7, <1>9 DEF Reader
  <2>12. QED
    BY <2>1, <2>8, <2>9, <2>10, <2>11 DEF Reader
<1>12. Writer(T2, pos2)'
  <2>1. InFrame(pos, sent, whole, Len(T))
    BY <1>2, <1>10 DEF Writer
  <2>2. InFrame(pos, sent, m, Len(T))
    BY <1>4, <1>6 DEF InFrame, m
  <2>3. whole = m
    BY <1>2, <2>1, <2>2, FrameUnique
  <2>4. InFrame(pos2, sent', whole', Handed(pos2)')
    <3>1. /\ m \in 0 .. Len(sent') /\ Len(T) \in Nat /\ pos2[m] <= Len(T)
          /\ Len(T) < pos2[m + 1]
      BY <1>4, <1>6, <1>7, <1>8 DEF HeaderSize
    <3>2. QED
      BY <3>1, <2>3, <1>1, <1>9, <1>10 DEF InFrame
  <2>5. \A j \in 1 .. Len(ptr') : ptr'[j] = T2[Handed(pos2)' + j]
    <3>1. \A j \in 1 .. HeaderSize : j \in 1 .. Len(E)
      BY <1>6 DEF HeaderSize
    <3>2. QED
      BY <3>1, <1>1, <1>6, <1>7, <1>9, <1>10
  <2>6. Len(sent') - 1 = m
    BY <1>4
  <2>7. Handed(pos2)' + Len(ptr') = pos2[Len(sent') - 1] + HeaderSize
    BY <2>6, <1>1, <1>6, <1>8, <1>9, <1>10
  <2>8. pos2[Len(sent') - 1] <= Handed(pos2)'
    BY <2>6, <1>6, <1>8, <1>9, <1>10
  <2>9. QED
    BY <2>4, <2>5, <2>7, <2>8, <1>1 DEF Writer
<1>13. Placed(T2, pos2)'
  BY <1>1, <1>3, <1>11, <1>12 DEF Placed
<1>14. Control'
  BY <1>1, <1>2, <1>4, <1>5 DEF Control, Remaining, m
<1>15. QED
  BY <1>13, <1>14

\* The kernel takes bytes from the server: they were the server's and are under way.
LEMMA SendIInv ==
  ASSUME TypeOK, Control, NEW T, NEW pos, Placed(T, pos), NEW n \in 1 .. Len(ptr), Send(n)
  PROVE  Control' /\ Placed(T, pos)'
<1> DEFINE m == Len(sent)
           w == Len(wire)
           l == Len(ptr)
           P == SubSeq(ptr, 1, n)
           Q == SubSeq(ptr, n + 1, l)
<1>1. /\ wpc \in {"header", "body"} /\ wire' = wire \o P /\ ptr' = Q
      /\ whole' = IF n = l /\ ~BodyFollows THEN whole + 1 ELSE whole
      /\ UNCHANGED <<wpc, sent, peer, chunks, bufferedLength, ended, rpc, part, required,
                     out, received>>
  BY DEF Send, readerVars
<1>2. Layout(T, pos, sent) /\ Reader(T, pos) /\ Writer(T, pos) /\ peer = "open"
  BY <1>1 DEF Placed, Control
<1>3. /\ w \in Nat /\ l \in Nat /\ n \in 0 .. l /\ n \in Nat /\ n > 0 /\ n <= l
      /\ wire \in Seq(Byte) /\ ptr \in Seq(Byte)
  BY SequenceTypes
<1>4. /\ P \in Seq(Byte) /\ Len(P) = n /\ \A i \in 1 .. n : P[i] = ptr[i]
      /\ Len(Q) = l - n /\ \A i \in 1 .. l - n : Q[i] = ptr[n + i]
  BY <1>3, Cut
<1> HIDE DEF P, Q
<1>5. /\ Len(wire') = w + n
      /\ \A i \in 1 .. w : wire'[i] = wire[i]
      /\ \A i \in 1 .. n : wire'[w + i] = ptr[i]
  <2>1. /\ Len(wire \o P) = Len(wire) + Len(P)
        /\ \A i \in 1 .. Len(wire) : (wire \o P)[i] = wire[i]
        /\ \A i \in 1 .. Len(P) : (wire \o P)[Len(wire) + i] = P[i]
    <3>1. wire \in Seq(Byte) /\ P \in Seq(Byte)
      BY <1>3, <1>4
    <3>2. QED
      BY <3>1
  <2>2. QED
    BY <2>1, <1>1, <1>4
<1>6. Len(ptr') = l - n /\ \A i \in 1 .. l - n : ptr'[i] = ptr[n + i]
  BY <1>1, <1>4
<1>7. /\ Buffered(pos) \in Nat /\ Handed(pos) \in Nat /\ Handed(pos) = Buffered(pos) + w
      /\ Len(T) \in Nat
  BY Positions
<1>8. /\ PartAt(pos)' = PartAt(pos) /\ Copied(pos)' = Copied(pos)
      /\ Buffered(pos)' = Buffered(pos) /\ Handed(pos)' = Handed(pos) + n
  <2>1. PartAt(pos)' = PartAt(pos)
    BY <1>1 DEF PartAt
  <2>2. Copied(pos)' = Copied(pos)
    BY <2>1, <1>1 DEF Copied
  <2>3. Buffered(pos)' = Buffered(pos)
    BY <2>2, <1>1 DEF Buffered
  <2>4. Handed(pos)' = Buffered(pos) + Len(wire')
    BY <2>3 DEF Handed
  <2> HIDE DEF w
  <2>5. Handed(pos)' = Handed(pos) + n
    BY <2>4, <1>3, <1>5, <1>7
  <2>6. QED
    BY <2>1, <2>2, <2>3, <2>5
<1>9. /\ m \in 1 .. m /\ m - 1 \in 0 .. m /\ m \in Nat /\ pos[m-1] \in Nat /\ pos[m] = Len(T)
      /\ pos[m] = pos[m-1] + HeaderSize + Len(Last(sent)) /\ Len(Last(sent)) \in Nat
      /\ Last(sent) = <<>> <=> Len(Last(sent)) = 0
  BY <1>1, LastFrame, SequenceTypes
<1>10. /\ InFrame(pos, sent, whole, Handed(pos)) /\ pos[m-1] <= Handed(pos)
       /\ \A i \in 1 .. l : ptr[i] = T[Handed(pos) + i]
       /\ wpc = "header" => Handed(pos) + l = pos[m-1] + HeaderSize
       /\ wpc = "body" => Handed(pos) + l = Len(T)
  BY <1>1, <1>2 DEF Writer
<1> HIDE DEF m, w, l
<1> DEFINE h  == Handed(pos)
           h2 == Handed(pos)'
           p  == pos[m-1]
           t  == Len(T)
           z  == Len(Last(sent))
<1>10a. /\ h \in Nat /\ h2 = h + n /\ p \in Nat /\ z \in Nat /\ t \in Nat /\ t = p + 4 + z
        /\ l \in Nat /\ n \in Nat /\ n > 0 /\ n <= l /\ p <= h
        /\ (wpc = "header" /\ h + l = p + 4) \/ (wpc = "body" /\ h + l = t)
  BY <1>1, <1>3, <1>7, <1>8, <1>9, <1>10 DEF HeaderSize
<1> HIDE DEF h, h2, p, t, z
<1>10b. /\ h2 <= t /\ h < t /\ (n # l => h2 < t) /\ h2 + (l - n) = h + l /\ p <= h2
        /\ n = l /\ wpc = "header" /\ z > 0 => h2 < t
  BY <1>10a
<1>11. Handed(pos)' <= Len(T) /\ Handed(pos) < Len(T)
  BY <1>10b DEF h, h2, t
<1>12. Reader(T, pos)'
  <2>1. \A i \in 1 .. Len(wire') : wire'[i] = T[Buffered(pos) + i]
    <3> SUFFICES ASSUME NEW i \in 1 .. w + n PROVE wire'[i] = T[Buffered(pos) + i]
      BY <1>5
    <3>1. CASE i \in 1 .. w
      BY <3>1, <1>2, <1>5 DEF Reader, w
    <3>2. CASE i \notin 1 .. w
      <4>1. i - w \in 1 .. n /\ i = w + (i - w) /\ i - w \in 1 .. l
        BY <3>2, <1>3
      <4>2. wire'[i] = ptr[i - w]
        BY <4>1, <1>5
      <4>3. Handed(pos) + (i - w) = Buffered(pos) + i
        BY <4>1, <1>3, <1>7
      <4>4. QED
        BY <4>1, <4>2, <4>3, <1>10
    <3>3. QED
      BY <3>1, <3>2
  <2>2. QED
    BY <2>1, <1>1, <1>2, <1>8, <1>11 DEF Reader
<1>13. Writer(T, pos)'
  <2>1. InFrame(pos, sent, m - 1, Handed(pos))
    <3>1. (m - 1) + 1 = m
      BY <1>9
    <3>2. QED
      BY <3>1, <1>7, <1>9, <1>10, <1>11 DEF InFrame, m
  <2>2. whole = m - 1
    BY <2>1, <1>2, <1>10, FrameUnique
  <2>3. CASE n = l /\ ~BodyFollows
    <3>1. Handed(pos)' = Len(T)
      <4>1. CASE wpc = "body"
        BY <4>1, <2>3, <1>8, <1>10
      <4>2. CASE wpc = "header"
        <5>1. Len(Last(sent)) = 0
          BY <4>2, <2>3, <1>9 DEF BodyFollows
        <5>2. QED
          BY <4>2, <5>1, <2>3, <1>8, <1>9, <1>10 DEF HeaderSize
      <4>3. QED
        BY <4>1, <4>2, <1>1
    <3>2. whole' = m
      BY <2>2, <2>3, <1>1, <1>9
    <3>3. QED
      <4>1. InFrame(pos, sent, m, Len(T))
        BY <1>7, <1>9 DEF InFrame, m
      <4>2. m \in 0 .. m /\ m = Len(sent)
        BY <1>9 DEF m
      <4>3. Len(ptr') = 0
        BY <2>3, <1>3, <1>6
      <4>4. InFrame(pos, sent', whole', Handed(pos)')
        BY <3>1, <3>2, <4>1, <1>1
      <4>5. Len(T) + 0 = Len(T) /\ pos[m-1] <= Len(T)
        BY <1>7, <1>9 DEF HeaderSize
      <4>6. wpc = "header" => Handed(pos)' + Len(ptr') = pos[m-1] + HeaderSize
        BY <4>3, <4>5, <3>1, <2>3, <1>8, <1>10
      <4>7. QED
        BY <4>2, <4>3, <4>4, <4>5, <4>6, <3>1, <1>1 DEF Writer
  <2>4. CASE ~(n = l /\ ~BodyFollows)
    <3>1. Handed(pos)' < Len(T)
      <4>1. CASE n # l
        BY <4>1, <1>10b DEF h2, t
      <4>2. CASE n = l
        <5>1. wpc = "header" /\ Len(Last(sent)) > 0
          BY <4>2, <2>4, <1>9 DEF BodyFollows
        <5>2. QED
          BY <4>2, <5>1, <1>10b DEF h2, t, z
      <4>3. QED
        BY <4>1, <4>2
    <3>2. whole' = whole
      BY <2>4, <1>1
    <3>3. InFrame(pos, sent, whole, Handed(pos)')
      <4>1. pos[m-1] <= Handed(pos)'
        BY <1>10b DEF h2, p
      <4>2. Handed(pos)' \in Nat
        BY <1>3, <1>7, <1>8
      <4>3. (m - 1) + 1 = m
        BY <1>9
      <4>4. QED
        BY <4>1, <4>2, <4>3, <3>1, <2>2, <1>9 DEF InFrame, m
    <3>4. \A i \in 1 .. Len(ptr') : ptr'[i] = T[Handed(pos)' + i]
      <4> SUFFICES ASSUME NEW i \in 1 .. l - n PROVE ptr'[i] = T[Handed(pos)' + i]
        BY <1>6
      <4>1. n + i \in 1 .. l /\ Handed(pos)' + i = Handed(pos) + (n + i)
        BY <1>3, <1>7, <1>8
      <4>2. QED
        BY <4>1, <1>6, <1>10
    <3>5. Handed(pos)' + Len(ptr') = Handed(pos) + l /\ pos[m-1] <= Handed(pos)'
      BY <1>6, <1>10b DEF h, h2, p
    <3>6. QED
      BY <3>2, <3>3, <3>4, <3>5, <1>1, <1>10 DEF Writer, m
  <2>5. QED
    BY <2>3, <2>4
<1>14. Control'
  BY <1>1, <1>2 DEF Control, Remaining
<1>15. QED
  BY <1>1, <1>2, <1>12, <1>13, <1>14 DEF Placed

\* Socket::send returns: what write_framed sends next is what comes next.
LEMMA SendReturnsIInv ==
  ASSUME TypeOK, Control, NEW T, NEW pos, Placed(T, pos), SendReturns
  PROVE  Control' /\ Placed(T, pos)'
<1> DEFINE m == Len(sent)
<1>1. /\ wpc \in {"header", "body"} /\ ptr = <<>> /\ Len(ptr) = 0
      /\ IF BodyFollows THEN wpc' = "body" /\ ptr' = Last(sent)
                        ELSE wpc' = "idle" /\ ptr' = <<>>
      /\ UNCHANGED <<whole, wire, sent, peer, chunks, bufferedLength, ended, rpc, part,
                     required, out, received>>
  BY DEF SendReturns, readerVars
<1>2. Layout(T, pos, sent) /\ Reader(T, pos) /\ Writer(T, pos) /\ peer = "open"
  BY <1>1 DEF Placed, Control
<1>3. /\ PartAt(pos)' = PartAt(pos) /\ Copied(pos)' = Copied(pos)
      /\ Buffered(pos)' = Buffered(pos) /\ Handed(pos)' = Handed(pos)
  BY <1>1 DEF PartAt, Copied, Buffered, Handed
<1>4. Reader(T, pos)'
  BY <1>1, <1>2, <1>3 DEF Reader
<1>5. /\ pos[m-1] \in Nat /\ Len(Last(sent)) \in Nat
      /\ Last(sent) = <<>> <=> Len(Last(sent)) = 0
      /\ Len(T) = pos[m-1] + HeaderSize + Len(Last(sent))
      /\ \A j \in 1 .. Len(Last(sent)) : T[pos[m-1] + HeaderSize + j] = Last(sent)[j]
      /\ Handed(pos) \in Nat
  BY <1>1, LastFrame, Positions
<1>6. /\ InFrame(pos, sent, whole, Handed(pos)) /\ pos[m-1] <= Handed(pos)
      /\ wpc = "header" => Handed(pos) + 0 = pos[m-1] + HeaderSize
      /\ wpc = "body" => Handed(pos) + 0 = Len(T)
  BY <1>1, <1>2 DEF Writer
<1>7. CASE BodyFollows
  <2>1. wpc' = "body" /\ ptr' = Last(sent) /\ Handed(pos) = pos[m-1] + HeaderSize
    BY <1>1, <1>5, <1>6, <1>7 DEF BodyFollows
  <2>2. Handed(pos)' + Len(ptr') = Len(T)
    BY <2>1, <1>3, <1>5
  <2>3. Writer(T, pos)'
    BY <2>1, <2>2, <1>1, <1>3, <1>5, <1>6 DEF Writer
  <2>4. Control'
    BY <2>1, <1>1, <1>2 DEF Control, Remaining
  <2>5. QED
    BY <2>3, <2>4, <1>1, <1>2, <1>4 DEF Placed
<1>8. CASE ~BodyFollows
  <2>1. wpc' = "idle" /\ ptr' = <<>> /\ Len(ptr') = 0
    BY <1>1, <1>8
  <2>2. Handed(pos) = Len(T)
    <3>1. CASE wpc = "body"
      BY <3>1, <1>5, <1>6
    <3>2. CASE wpc = "header"
      <4>1. Len(Last(sent)) = 0
        BY <3>2, <1>5, <1>8 DEF BodyFollows
      <4>2. QED
        BY <3>2, <4>1, <1>5, <1>6 DEF HeaderSize
    <3>3. QED
      BY <3>1, <3>2, <1>1
  <2>3. Writer(T, pos)'
    BY <2>1, <2>2, <1>1, <1>3, <1>6 DEF Writer
  <2>4. Control'
    BY <2>1, <1>1, <1>2 DEF Control, Remaining
  <2>5. QED
    BY <2>3, <2>4, <1>1, <1>2, <1>4 DEF Placed
<1>9. QED
  BY <1>7, <1>8

\* The server closes: what the kernel has taken stays under way.  A reset may take
\* that away, and nothing the client has in its chunks.
LEMMA StopsIInv ==
  ASSUME TypeOK, Control, NEW T, NEW pos, Placed(T, pos), Closes \/ Resets
  PROVE  Control' /\ Placed(T, pos)'
<1>1. /\ wpc' = "closed" /\ ptr' = <<>> /\ Len(ptr') = 0
      /\ wire' = wire \/ (wire' = <<>> /\ peer' = "rst")
      /\ (peer = "open" /\ peer' = "fin" /\ wire' = wire) \/ peer' = "rst"
      /\ UNCHANGED <<sent, whole, chunks, bufferedLength, ended, rpc, part, required,
                     out, received>>
  BY DEF Closes, Resets, readerVars, Control
<1>2. Layout(T, pos, sent) /\ Reader(T, pos) /\ Writer(T, pos)
  BY DEF Placed
<1>3. /\ PartAt(pos)' = PartAt(pos) /\ Copied(pos)' = Copied(pos)
      /\ Buffered(pos)' = Buffered(pos)
  BY <1>1 DEF PartAt, Copied, Buffered
<1>4. /\ Buffered(pos) \in Nat /\ Len(wire) \in Nat /\ Len(T) \in Nat
      /\ Handed(pos) = Buffered(pos) + Len(wire) /\ Handed(pos) <= Len(T)
  BY Positions, SequenceTypes
<1>5. Handed(pos)' <= Len(T) /\ (wire' = wire => Handed(pos)' = Handed(pos))
  <2>1. Handed(pos)' = Buffered(pos) + Len(wire')
    BY <1>3 DEF Handed
  <2>2. CASE wire' = wire
    BY <2>1, <2>2, <1>4
  <2>3. CASE wire' = <<>>
    <3>1. Len(wire') = 0 /\ (wire' = wire => Len(wire) = 0)
      BY <2>3
    <3>2. QED
      BY <2>1, <3>1, <1>4
  <2>4. QED
    BY <2>2, <2>3, <1>1
<1>6. \A i \in 1 .. Len(wire') : wire'[i] = T[Buffered(pos)' + i]
  <2>1. CASE wire' = wire
    BY <2>1, <1>2, <1>3 DEF Reader
  <2>2. CASE wire' = <<>>
    <3>1. Len(wire') = 0
      BY <2>2
    <3>2. QED
      BY <3>1
  <2>3. QED
    BY <2>1, <2>2, <1>1
<1>7. Reader(T, pos)'
  BY <1>1, <1>2, <1>3, <1>5, <1>6 DEF Reader
<1>8. Writer(T, pos)'
  BY <1>1, <1>2, <1>5 DEF Writer
<1>9. Control'
  BY <1>1 DEF Control, Remaining
<1>10. QED
  BY <1>1, <1>2, <1>7, <1>8, <1>9 DEF Placed

\* Steps of the client that move no byte: a read begins, 'end' and 'error' arrive.
LEMMA StillIInv ==
  ASSUME TypeOK, Control, NEW T, NEW pos, Placed(T, pos),
         Read \/ EndArrives \/ ErrorArrives \/ UNCHANGED vars
  PROVE  Control' /\ Placed(T, pos)'
<1>1. /\ UNCHANGED <<wpc, ptr, sent, whole, wire, peer, chunks, bufferedLength, received>>
      /\ out' = out /\ part' = part /\ (part = "body" => required' = required)
  BY DEF Read, WaitForBytes, EndArrives, ErrorArrives, vars, writerVars, readerVars, Control
<1>2. Layout(T, pos, sent) /\ Reader(T, pos) /\ Writer(T, pos)
  BY DEF Placed
<1>3. /\ PartAt(pos)' = PartAt(pos) /\ Copied(pos)' = Copied(pos)
      /\ Buffered(pos)' = Buffered(pos) /\ Handed(pos)' = Handed(pos)
  BY <1>1 DEF PartAt, Copied, Buffered, Handed
<1>4. Placed(T, pos)'
  BY <1>1, <1>2, <1>3 DEF Placed, Reader, Writer
<1>5. Control'
  <2>1. CASE Read
    <3>1. /\ required' = HeaderSize /\ out' = <<>> /\ part' = "header" /\ ended' = ended
          /\ rpc' = IF bufferedLength >= HeaderSize THEN "consume" ELSE "await"
      BY <2>1 DEF Read, WaitForBytes
    <3>2. Len(out') = 0 /\ bufferedLength \in Nat
      BY <3>1, SequenceTypes
    <3>3. QED
      BY <3>1, <3>2, <1>1 DEF Control, Remaining, HeaderSize
  <2>2. CASE EndArrives
    BY <2>2, <1>1 DEF EndArrives, Control, Remaining
  <2>3. CASE ErrorArrives
    BY <2>3, <1>1 DEF ErrorArrives, Control, Remaining
  <2>4. CASE UNCHANGED vars
    BY <2>4 DEF vars, writerVars, readerVars, Control, Remaining
  <2>5. QED
    BY <2>1, <2>2, <2>3, <2>4
<1>6. QED
  BY <1>4, <1>5

\* 'data': bytes under way are now the last chunk.
LEMMA DataIInv ==
  ASSUME TypeOK, Control, NEW T, NEW pos, Placed(T, pos), NEW n \in 1 .. Len(wire),
         DataArrives(n)
  PROVE  Control' /\ Placed(T, pos)'
<1> DEFINE w == Len(wire)
           P == SubSeq(wire, 1, n)
           Q == SubSeq(wire, n + 1, w)
           at == Copied(pos)
<1>1. /\ rpc # "consume" /\ rpc # "failed" /\ ~ended
      /\ chunks' = Append(chunks, P) /\ wire' = Q /\ bufferedLength' = bufferedLength + n
      /\ rpc' = IF rpc = "await" /\ bufferedLength' >= required THEN "consume" ELSE rpc
      /\ UNCHANGED <<wpc, ptr, sent, whole, peer, ended, part, required, out, received>>
  BY DEF DataArrives, writerVars
<1>2. Layout(T, pos, sent) /\ Reader(T, pos) /\ Writer(T, pos)
  BY DEF Placed
<1>3. /\ w \in Nat /\ n \in 0 .. w /\ n \in Nat /\ n > 0 /\ n <= w
      /\ wire \in Seq(Byte) /\ bufferedLength \in Nat /\ required \in Nat
  BY SequenceTypes
<1>4. /\ P \in Seq(Byte) /\ Len(P) = n /\ \A i \in 1 .. n : P[i] = wire[i]
      /\ Len(Q) = w - n /\ \A i \in 1 .. w - n : Q[i] = wire[n + i]
  BY <1>3, Cut
<1> HIDE DEF P, Q, w
<1>5. /\ at \in Nat /\ Buffered(pos) \in Nat /\ Buffered(pos) = at + bufferedLength
      /\ Handed(pos) = Buffered(pos) + w /\ Handed(pos) \in Nat
  BY Positions DEF w
<1>6. /\ PartAt(pos)' = PartAt(pos) /\ Copied(pos)' = Copied(pos)
      /\ Buffered(pos)' = Buffered(pos) + n /\ Handed(pos)' = Handed(pos)
  <2>1. PartAt(pos)' = PartAt(pos)
    BY <1>1 DEF PartAt
  <2>2. Copied(pos)' = Copied(pos)
    BY <2>1, <1>1 DEF Copied
  <2>3. Buffered(pos)' = Copied(pos) + (bufferedLength + n)
    BY <2>2, <1>1 DEF Buffered
  <2>4. Buffered(pos)' = Buffered(pos) + n
    BY <2>3, <1>3, <1>5
  <2>5. Handed(pos)' = Buffered(pos)' + (w - n)
    BY <1>1, <1>4 DEF Handed
  <2>6. QED
    BY <2>1, <2>2, <2>4, <2>5, <1>3, <1>5
<1>7. \A i \in 1 .. w : wire[i] = T[Buffered(pos) + i]
  BY <1>2 DEF Reader, w
<1>8. \E e2 : Laid(T, at, chunks', e2) /\ e2[Len(chunks')] = bufferedLength'
  <2>1. PICK ends : Laid(T, at, chunks, ends) /\ ends[Len(chunks)] = bufferedLength
    BY <1>2 DEF Reader
  <2>2. \A i \in 1 .. Len(P) : P[i] = T[at + ends[Len(chunks)] + i]
    <3>1. \A i \in 1 .. n : i \in 1 .. w
      BY <1>3
    <3>2. QED
      BY <3>1, <2>1, <1>4, <1>5, <1>7
  <2> HIDE DEF at
  <2>3. ArrivedLies(T, at, chunks, ends, P)
    BY <2>1, <2>2, <1>4, <1>5, LaidAppend
  <2>4. QED
    BY <2>1, <2>3, <1>1, <1>4 DEF ArrivedLies
<1>9. \A i \in 1 .. Len(wire') : wire'[i] = T[Buffered(pos)' + i]
  <2> SUFFICES ASSUME NEW i \in 1 .. w - n PROVE wire'[i] = T[Buffered(pos)' + i]
    BY <1>1, <1>4
  <2>1. n + i \in 1 .. w /\ Buffered(pos)' + i = Buffered(pos) + (n + i)
    BY <1>3, <1>5, <1>6
  <2>2. QED
    BY <2>1, <1>1, <1>4, <1>7
<1>10. Reader(T, pos)'
  BY <1>1, <1>2, <1>6, <1>8, <1>9 DEF Reader
<1>11. Writer(T, pos)'
  BY <1>1, <1>2, <1>6 DEF Writer
<1>12. Control'
  <2>1. out = <<>> /\ Len(out) = 0
    BY <1>1 DEF Control
  <2>2. CASE rpc = "await"
    BY <2>1, <2>2, <1>1, <1>3 DEF Control, Remaining
  <2>3. CASE rpc # "await"
    <3>1. rpc = "idle" /\ rpc' = "idle"
      BY <2>3, <1>1 DEF TypeOK
    <3>2. QED
      BY <2>1, <3>1, <1>1 DEF Control, Remaining
  <2>4. QED
    BY <2>2, <2>3
<1>13. QED
  BY <1>1, <1>2, <1>10, <1>11, <1>12 DEF Placed

\* An iteration of consume's loop: bytes of the first chunk are copied.
LEMMA ConsumeIInv ==
  ASSUME TypeOK, Control, NEW T, NEW pos, Placed(T, pos), ConsumeChunk
  PROVE  Control' /\ Placed(T, pos)'
<1>1. PICK take \in Nat :
        /\ out' \in Seq(Byte) /\ Len(out') = Len(out) + take
        /\ \A j \in 1 .. Len(out') : out'[j] = T[PartAt(pos) + j]
        /\ take <= Remaining /\ take <= bufferedLength
        /\ bufferedLength' = bufferedLength - take
        /\ \E ends : /\ Laid(T, Copied(pos) + take, chunks', ends)
                     /\ ends[Len(chunks')] = bufferedLength'
  BY ChunkTaken
<1>2. /\ rpc = "consume"
      /\ UNCHANGED <<wpc, ptr, sent, whole, wire, peer, ended, rpc, part, required, received>>
  BY DEF ConsumeChunk, writerVars
<1>3. Layout(T, pos, sent) /\ Reader(T, pos) /\ Writer(T, pos)
  BY DEF Placed
<1>4. /\ PartAt(pos) \in Nat /\ Copied(pos) \in Nat /\ Buffered(pos) \in Nat
      /\ Copied(pos) = PartAt(pos) + Len(out) /\ Buffered(pos) = Copied(pos) + bufferedLength
      /\ Len(out) \in Nat /\ bufferedLength \in Nat /\ required \in Nat
  BY Positions, SequenceTypes
<1>5. PartAt(pos)' = PartAt(pos)
  BY <1>2 DEF PartAt
<1>6. Copied(pos)' = Copied(pos) + take
  <2>1. Copied(pos)' = PartAt(pos) + Len(out')
    BY <1>5 DEF Copied
  <2>2. QED
    BY <2>1, <1>1, <1>4
<1>7. Buffered(pos)' = Buffered(pos)
  <2>1. Buffered(pos)' = (Copied(pos) + take) + (bufferedLength - take)
    BY <1>1, <1>6 DEF Buffered
  <2>2. QED
    BY <2>1, <1>4
<1>8. Handed(pos)' = Handed(pos)
  BY <1>2, <1>7 DEF Handed
<1>9. Reader(T, pos)'
  BY <1>1, <1>2, <1>3, <1>5, <1>6, <1>7, <1>8 DEF Reader
<1>10. Writer(T, pos)'
  BY <1>2, <1>3, <1>8 DEF Writer
<1>11. Control'
  <2>1. /\ Len(out') <= required' /\ Remaining' <= bufferedLength'
    <3>1. /\ Remaining = required - Len(out) /\ Remaining <= bufferedLength
          /\ Remaining' = required - Len(out')
      BY <1>2 DEF Remaining, Control
    <3>2. QED
      BY <3>1, <1>1, <1>2, <1>4
  <2>2. QED
    BY <2>1, <1>2 DEF Control
<1>12. QED
  BY <1>2, <1>3, <1>9, <1>10, <1>11 DEF Placed

\* The header is parsed: the body that follows it is waited for.
LEMMA HeaderIInv ==
  ASSUME TypeOK, Control, NEW T, NEW pos, Placed(T, pos), HeaderConsumed
  PROVE  Control' /\ Placed(T, pos)'
<1> DEFINE k == Len(received)
<1>1. /\ rpc = "consume" /\ part = "header" /\ Remaining = 0
      /\ part' = "body" /\ required' = HeaderSizeOf(out) /\ out' = <<>>
      /\ rpc' = IF bufferedLength >= required' THEN "consume" ELSE "await"
      /\ UNCHANGED <<wpc, ptr, sent, whole, wire, peer, chunks, bufferedLength, ended,
                     received>>
  BY DEF HeaderConsumed, WaitForBytes, writerVars
<1>2. Layout(T, pos, sent) /\ Reader(T, pos) /\ Writer(T, pos)
  BY DEF Placed
<1>3. /\ k + 1 \in 1 .. Len(sent) /\ sent[k+1] \in Body /\ required' = Len(sent[k+1])
      /\ Copied(pos) = pos[k] + HeaderSize /\ pos[k] \in Nat
  BY <1>1, HeaderIsNext
<1>4. /\ Len(sent) \in Nat /\ k \in Nat /\ bufferedLength \in Nat /\ required' \in Nat
      /\ Len(out') = 0
  BY <1>1, <1>3, BodyType, SequenceTypes
<1>5. PartAt(pos)' = Copied(pos) /\ Copied(pos) \in Nat
  BY <1>1, <1>3, Positions DEF PartAt
<1>6. Copied(pos)' = Copied(pos)
  BY <1>4, <1>5 DEF Copied
<1>7. Buffered(pos)' = Buffered(pos) /\ Handed(pos)' = Handed(pos)
  BY <1>1, <1>6 DEF Buffered, Handed
<1>8. Reader(T, pos)'
  <2>1. k < Len(sent)
    BY <1>3, <1>4
  <2>2. QED
    BY <2>1, <1>1, <1>2, <1>3, <1>4, <1>6, <1>7 DEF Reader
<1>9. Writer(T, pos)'
  BY <1>1, <1>2, <1>7 DEF Writer
<1>10. Control'
  BY <1>1, <1>4 DEF Control, Remaining
<1>11. QED
  BY <1>1, <1>2, <1>8, <1>9, <1>10 DEF Placed

\* The read returns the body.
LEMMA BodyIInv ==
  ASSUME TypeOK, Control, NEW T, NEW pos, Placed(T, pos), BodyConsumed
  PROVE  Control' /\ Placed(T, pos)'
<1> DEFINE k == Len(received)
<1>1. /\ rpc = "consume" /\ part = "body" /\ Remaining = 0
      /\ received' = Append(received, out)
      /\ rpc' = "idle" /\ part' = "header" /\ out' = <<>> /\ required' = 0
      /\ UNCHANGED <<wpc, ptr, sent, whole, wire, peer, chunks, bufferedLength, ended>>
  BY DEF BodyConsumed, writerVars
<1>2. Layout(T, pos, sent) /\ Reader(T, pos) /\ Writer(T, pos)
  BY DEF Placed
<1>3. k + 1 \in 1 .. Len(sent) /\ pos[k+1] = Copied(pos) /\ Copied(pos) \in Nat
  BY <1>1, BodyIsNext, Positions
<1>4. Len(received') = k + 1 /\ Len(out') = 0 /\ Len(sent) \in Nat /\ k \in Nat
  BY <1>1, SequenceTypes
<1>5. PartAt(pos)' = Copied(pos) + 0
  BY <1>1, <1>3, <1>4 DEF PartAt
<1>6. Copied(pos)' = Copied(pos)
  BY <1>3, <1>4, <1>5 DEF Copied
<1>7. Buffered(pos)' = Buffered(pos) /\ Handed(pos)' = Handed(pos)
  BY <1>1, <1>6 DEF Buffered, Handed
<1>8. Reader(T, pos)'
  BY <1>1, <1>2, <1>4, <1>6, <1>7 DEF Reader
<1>9. Writer(T, pos)'
  BY <1>1, <1>2, <1>7 DEF Writer
<1>10. Control'
  BY <1>1, <1>3, <1>4 DEF Control, Remaining, HeaderSize
<1>11. QED
  BY <1>1, <1>2, <1>8, <1>9, <1>10 DEF Placed

LEMMA NextIInv ==
  ASSUME IInv, [Next]_vars
  PROVE  IInv'
<1>1. PICK T, pos : Placed(T, pos)
  BY DEF IInv
<1>2. TypeOK /\ Control
  BY DEF IInv
<1>3. TypeOK'
  BY <1>1, <1>2, NextType
<1>4. Control' /\ \E T2, pos2 : Placed(T2, pos2)'
  <2>1. CASE \E body \in Body : WriteFramed(body)
    BY <2>1, <1>1, <1>2, WriteIInv
  <2>2. CASE ServerWrites \/ Closes \/ Resets
    <3>1. Control' /\ Placed(T, pos)'
      BY <2>2, <1>1, <1>2, SendIInv, SendReturnsIInv, StopsIInv DEF ServerWrites
    <3>2. QED
      BY <3>1
  <2>3. CASE Read \/ ClientTurn \/ Arrival \/ UNCHANGED vars
    <3>1. Control' /\ Placed(T, pos)'
      BY <2>3, <1>1, <1>2, StillIInv, DataIInv, ConsumeIInv, HeaderIInv, BodyIInv
         DEF ClientTurn, Arrival
    <3>2. QED
      BY <3>1
  <2>4. QED
    BY <2>1, <2>2, <2>3 DEF Next, Finished
<1>5. QED
  BY <1>3, <1>4 DEF IInv
-----------------------------------------------------------------------------
(* What follows from the invariant.                                        *)

\* A read that waits in vain, or that the end of the connection has made fail, stands
\* in the first frame that was not sent whole.
LEMMA EndInFrame == IInv => EndLosesNoFrame
<1> SUFFICES ASSUME IInv, peer # "rst", rpc = "failed" \/ AwaitsInVain
             PROVE  Len(received) = whole
  BY DEF EndLosesNoFrame
<1> DEFINE k == Len(received)
<1>1. TypeOK /\ Control
  BY DEF IInv
<1>2. PICK T, pos : Placed(T, pos)
  BY DEF IInv
<1>3. Layout(T, pos, sent) /\ Reader(T, pos) /\ InFrame(pos, sent, whole, Handed(pos))
  BY <1>2 DEF Placed, Writer
<1>4. /\ wire = <<>> /\ out = <<>> /\ Len(wire) = 0 /\ Len(out) = 0
      /\ bufferedLength < required
  BY <1>1 DEF Control, AwaitsInVain
<1>5. /\ PartAt(pos) \in Nat /\ Handed(pos) \in Nat /\ pos[k] \in Nat /\ k \in 0 .. Len(sent)
      /\ Handed(pos) = PartAt(pos) + bufferedLength
      /\ bufferedLength \in Nat /\ required \in Nat /\ Len(sent) \in Nat
  BY <1>1, <1>2, <1>4, Positions, SequenceTypes
<1>6. ASSUME k < Len(sent) PROVE /\ pos[k+1] = pos[k] + HeaderSize + Len(sent[k+1])
                                 /\ Len(sent[k+1]) \in Nat
  <2>1. k + 1 \in 1 .. Len(sent) /\ (k + 1) - 1 = k
    BY <1>5, <1>6
  <2>2. QED
    BY <2>1, <1>3, LayoutType DEF Layout
<1>7. InFrame(pos, sent, k, Handed(pos))
  <2>1. CASE part = "header"
    <3>1. PartAt(pos) = pos[k] + 0 /\ required <= 4
      BY <2>1, <1>1 DEF PartAt, Control, HeaderSize
    <3>2. Handed(pos) = pos[k] + bufferedLength /\ bufferedLength < 4
      BY <3>1, <1>4, <1>5
    <3>3. QED
      BY <3>2, <1>5, <1>6 DEF InFrame, HeaderSize
  <2>2. CASE part = "body"
    <3>1. /\ PartAt(pos) = pos[k] + 4 /\ k < Len(sent) /\ required = Len(sent[k+1])
      BY <2>2, <1>3 DEF PartAt, Reader, HeaderSize
    <3>2. Handed(pos) = pos[k] + 4 + bufferedLength /\ bufferedLength < Len(sent[k+1])
      BY <3>1, <1>4, <1>5
    <3>3. QED
      BY <3>1, <3>2, <1>5, <1>6 DEF InFrame, HeaderSize
  <2>3. QED
    BY <2>1, <2>2, <1>1 DEF TypeOK
<1>8. QED
  BY <1>3, <1>7, FrameUnique

\* The concatenation that FlattenSeq computes is as long as its parts end.
IsFlattening(g, m, c) ==
  g = [i \in 1 .. m |-> IF i = 1 THEN c[i] ELSE g[i-1] \o c[i]]

\* A set of naturals with 0 that is closed under successor holds them all.
LEMMA SetInduction ==
  ASSUME NEW S \in SUBSET Nat, 0 \in S, \A n \in S : n + 1 \in S
  PROVE  S = Nat
<1> DEFINE R == {p \in Nat \X Nat : p[1] < p[2]}
<1>0. IsWellFoundedOn(R, Nat)
  <2>1. R = OpToRel(<, Nat)
    BY DEF OpToRel
  <2>2. QED
    BY <2>1, NatLessThanWellFounded
<1>1. SUFFICES ASSUME Nat \ S # {} PROVE FALSE
  OBVIOUS
<1>2. PICK m \in Nat \ S : \A k \in Nat \ S : ~ (<<k, m>> \in R)
  <2>1. Nat \ S \subseteq Nat
    OBVIOUS
  <2> HIDE DEF R
  <2>2. QED
    BY <1>0, <1>1, <2>1, WFMin
<1>3. m # 0 /\ m - 1 \in Nat
  <2>1. m \in Nat /\ m \notin S
    OBVIOUS
  <2>2. QED
    BY <2>1
<1>4. <<m-1, m>> \in R
  BY <1>3
<1>5. m - 1 \in S
  BY <1>2, <1>3, <1>4
<1>6. QED
  BY <1>5, <1>2, <1>3

\* There is a flattening of the first m chunks, and any has its parts where the
\* chunks end.
LEMMA FlatteningExists ==
  ASSUME NEW T, NEW at, NEW c, NEW ends, Laid(T, at, c, ends)
  PROVE  \A m \in Nat : m <= Len(c) => \E g : IsFlattening(g, m, c)
<1> DEFINE n == Len(c)
           S == {m \in Nat : m <= n => \E g : IsFlattening(g, m, c)}
<1>1. 0 \in S
  <2>1. IsFlattening([i \in 1 .. 0 |-> c], 0, c)
    BY DEF IsFlattening
  <2>2. QED
    BY <2>1
<1>2. ASSUME NEW m \in S PROVE m + 1 \in S
  <2>1. SUFFICES ASSUME m + 1 <= n PROVE \E g : IsFlattening(g, m + 1, c)
    OBVIOUS
  <2>2. m \in Nat /\ n \in Nat /\ m <= n
    BY <2>1, LaidType
  <2>3. PICK g : IsFlattening(g, m, c)
    BY <2>2
  <2> DEFINE h == [i \in 1 .. m + 1 |-> IF i = m + 1
                                        THEN (IF i = 1 THEN c[i] ELSE g[i-1] \o c[i])
                                        ELSE g[i]]
  <2>4. \A i \in 1 .. m : i \in 1 .. m + 1 /\ h[i] = g[i]
    BY <2>2
  <2>5. h[m+1] = IF m + 1 = 1 THEN c[m+1] ELSE g[(m+1)-1] \o c[m+1]
    BY <2>2
  <2>6. ASSUME NEW i \in 1 .. m + 1
        PROVE  h[i] = IF i = 1 THEN c[i] ELSE h[i-1] \o c[i]
    <3>1. CASE i = m + 1
      <4>1. CASE i = 1
        BY <3>1, <4>1, <2>5
      <4>2. CASE i # 1
        <5>1. i - 1 \in 1 .. m /\ (m + 1) - 1 = i - 1
          BY <3>1, <4>2, <2>2
        <5>2. h[i-1] = g[i-1]
          BY <5>1, <2>4
        <5>3. h[i] = g[i-1] \o c[i]
          BY <3>1, <4>2, <5>1, <2>5
        <5>4. QED
          BY <4>2, <5>2, <5>3
      <4>3. QED
        BY <4>1, <4>2
    <3>2. CASE i \in 1 .. m
      <4>1. h[i] = g[i] /\ g[i] = IF i = 1 THEN c[i] ELSE g[i-1] \o c[i]
        BY <3>2, <2>3, <2>4 DEF IsFlattening
      <4>2. i # 1 => i - 1 \in 1 .. m
        BY <3>2, <2>2
      <4>3. i # 1 => h[i-1] = g[i-1]
        BY <4>2, <2>4
      <4> HIDE DEF h
      <4>4. QED
        BY <4>1, <4>3
    <3>3. i = m + 1 \/ i \in 1 .. m
      BY <2>2
    <3> HIDE DEF h
    <3>4. QED
      BY <3>1, <3>2, <3>3
  <2>7. h = [i \in 1 .. m + 1 |-> h[i]]
    OBVIOUS
  <2> HIDE DEF h
  <2>8. IsFlattening(h, m + 1, c)
    BY <2>6, <2>7 DEF IsFlattening
  <2>9. QED
    BY <2>8
<1>3. S \in SUBSET Nat
  OBVIOUS
<1> HIDE DEF S
<1>4. S = Nat
  BY <1>1, <1>2, <1>3, SetInduction
<1>5. QED
  BY <1>4 DEF S

LEMMA FlatteningLength ==
  ASSUME NEW T, NEW at, NEW c, NEW ends, Laid(T, at, c, ends), NEW g, IsFlattening(g, Len(c), c)
  PROVE  \A m \in Nat : 1 <= m /\ m <= Len(c) => g[m] \in Seq(Byte) /\ Len(g[m]) = ends[m]
<1> DEFINE n == Len(c)
           Fits(m) == g[m] \in Seq(Byte) /\ Len(g[m]) = ends[m]
           S == {m \in Nat : 1 <= m /\ m <= n => Fits(m)}
<1>1. 0 \in S
  OBVIOUS
<1>2. ASSUME NEW m \in S PROVE m + 1 \in S
  <2>1. SUFFICES ASSUME m + 1 <= n PROVE Fits(m + 1)
    OBVIOUS
  <2>2. m \in Nat /\ n \in Nat /\ m + 1 \in 1 .. n /\ (m + 1) - 1 = m
    BY <2>1, LaidType
  <2>3. /\ ends[m+1] = ends[m] + Len(c[m+1]) /\ c[m+1] \in Seq(Byte) /\ Len(c[m+1]) \in Nat
        /\ ends[0] = 0
    BY <2>2, LaidType DEF Laid
  <2>4. g[m+1] = IF m + 1 = 1 THEN c[m+1] ELSE g[m] \o c[m+1]
    BY <2>2 DEF IsFlattening
  <2>5. CASE m = 0
    BY <2>3, <2>4, <2>5
  <2>6. CASE m # 0
    <3>0. 1 <= m /\ m <= n /\ m + 1 # 1
      BY <2>2, <2>6
    <3>1. g[m] \in Seq(Byte) /\ Len(g[m]) = ends[m] /\ g[m+1] = g[m] \o c[m+1]
      <4>1. Fits(m)
        BY <3>0
      <4>2. QED
        BY <3>0, <4>1, <2>4
    <3>2. g[m] \in Seq(Byte) /\ c[m+1] \in Seq(Byte)
      BY <3>1, <2>3
    <3> HIDE DEF S, Fits
    <3>3. g[m] \o c[m+1] \in Seq(Byte) /\ Len(g[m] \o c[m+1]) = Len(g[m]) + Len(c[m+1])
      BY <3>2, Concatenated
    <3>4. QED
      BY <3>1, <3>3, <2>3 DEF Fits
  <2>7. QED
    BY <2>5, <2>6
<1>3. S \in SUBSET Nat
  OBVIOUS
<1> HIDE DEF S
<1>4. S = Nat
  BY <1>1, <1>2, <1>3, SetInduction
<1>5. QED
  BY <1>4 DEF S

LEMMA FlattenedLength ==
  ASSUME NEW T, NEW at, NEW c, NEW ends, Laid(T, at, c, ends)
  PROVE  Len(FlattenSeq(c)) = ends[Len(c)]
<1> DEFINE n == Len(c)
           g == CHOOSE f : IsFlattening(f, n, c)
<1>1. n \in Nat /\ ends[0] = 0 /\ c \in Seq(Seq(Byte))
  BY LaidType DEF Laid
<1>2. CASE n = 0
  BY <1>1, <1>2 DEF FlattenSeq
<1>3. CASE n # 0
  <2>1. IsFlattening(g, n, c)
    <3>1. \E f : IsFlattening(f, n, c)
      BY <1>1, FlatteningExists
    <3>2. QED
      BY <3>1
  <2>2. FlattenSeq(c) = g[n]
    BY <1>3 DEF FlattenSeq, IsFlattening
  <2> HIDE DEF g
  <2>3. Len(g[n]) = ends[n]
    BY <2>1, <1>1, <1>3, FlatteningLength
  <2>4. QED
    BY <2>2, <2>3
<1>4. QED
  BY <1>2, <1>3
-----------------------------------------------------------------------------
(* Theorems.                                                               *)

\* The inductive invariant: the stream in which every byte has its place.
THEOREM SocketInvariant == Spec => []IInv
<1>1. Init => IInv
  BY InitIInv
<1>2. IInv /\ [Next]_vars => IInv'
  BY NextIInv
<1>3. QED
  BY <1>1, <1>2, PTL DEF Spec

\* bufferedLength is the number of bytes in chunks, and consume is called only when
\* they suffice.
THEOREM SocketBufferAccounted == Spec => []BufferAccounted
<1>1. IInv => BufferAccounted
  <2> SUFFICES ASSUME IInv PROVE BufferAccounted
    OBVIOUS
  <2>1. PICK T, pos : Reader(T, pos)
    BY DEF IInv, Placed
  <2>2. PICK ends : Laid(T, Copied(pos), chunks, ends) /\ ends[Len(chunks)] = bufferedLength
    BY <2>1 DEF Reader
  <2>3. Len(FlattenSeq(chunks)) = bufferedLength
    BY <2>2, FlattenedLength
  <2>4. QED
    BY <2>3 DEF BufferAccounted, IInv, Control
<1>2. QED
  BY <1>1, SocketInvariant, PTL

\* Only the frames that were not sent whole before the server closed are lost to the
\* end of the connection.
THEOREM SocketEndLosesNoFrame == Spec => []EndLosesNoFrame
BY EndInFrame, SocketInvariant, PTL

\* write_framed and FramedSocket.read implement a queue of bodies: every step is a
\* write, a read of the next body, or a stutter.
THEOREM SocketRefines == Spec => RefinesFrameChannel
<1>1. Init => Channel!Init
  BY DEF Init, Channel!Init
<1>2. ASSUME IInv, [Next]_vars PROVE [Channel!Next]_<<sent, received>>
  <2> USE <1>2
  <2>1. PICK T, pos : TypeOK /\ Control /\ Placed(T, pos)
    BY DEF IInv
  <2>2. Len(received) \in Nat /\ Len(sent) \in Nat
    BY <2>1, SequenceTypes
  <2>3. ASSUME NEW body \in Body, WriteFramed(body) PROVE Channel!Next
    BY <2>3 DEF WriteFramed, readerVars, Channel!Next, Channel!Write
  <2>4. CASE BodyConsumed
    <3>1. Len(received) + 1 \in 1 .. Len(sent) /\ out = sent[Len(received) + 1]
      BY <2>1, <2>4, BodyIsNext DEF BodyConsumed
    <3>2. received' = Append(received, out) /\ UNCHANGED sent /\ Len(received) < Len(sent)
      BY <2>2, <2>4, <3>1 DEF BodyConsumed, writerVars
    <3>3. QED
      BY <3>1, <3>2 DEF Channel!Next, Channel!Read
  <2>5. CASE \/ ServerWrites \/ Closes \/ Resets \/ Read \/ Arrival
             \/ ConsumeChunk \/ HeaderConsumed \/ UNCHANGED vars
    BY <2>5 DEF ServerWrites, SendReturns, Send, Closes, Resets, Read, Arrival, EndArrives,
                ErrorArrives, DataArrives, ConsumeChunk, HeaderConsumed, vars, writerVars,
                readerVars
  <2>6. QED
    BY <2>3, <2>4, <2>5 DEF Next, ClientTurn, Finished
<1>3. QED
  BY <1>1, <1>2, SocketInvariant, PTL DEF Spec, RefinesFrameChannel, Channel!Spec
=============================================================================
