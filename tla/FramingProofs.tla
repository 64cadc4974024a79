--------------------------- MODULE FramingProofs ----------------------------
(***************************************************************************)
(* Facts about frames and their bytes for every base and every set of      *)
(* bodies, on which the proofs about both directions of the stream rest.   *)
(* The bytes of all bodies written so far are described by their positions *)
(* (Layout) and not by a recursive definition.                             *)
(***************************************************************************)
EXTENDS Framing, TLAPS

\* Concatenation by elements.
LEMMA Concatenated ==
  ASSUME NEW S, NEW s \in Seq(S), NEW t \in Seq(S)
  PROVE  /\ s \o t \in Seq(S) /\ Len(s \o t) = Len(s) + Len(t)
         /\ \A i \in 1 .. Len(s) : (s \o t)[i] = s[i]
         /\ \A i \in 1 .. Len(t) : (s \o t)[Len(s) + i] = t[i]
  OBVIOUS

\* The first n elements and the others.
LEMMA Cut ==
  ASSUME NEW S, NEW s \in Seq(S), NEW n \in 0 .. Len(s)
  PROVE  /\ SubSeq(s, 1, n) \in Seq(S) /\ Len(SubSeq(s, 1, n)) = n
         /\ \A i \in 1 .. n : SubSeq(s, 1, n)[i] = s[i]
         /\ SubSeq(s, n + 1, Len(s)) \in Seq(S)
         /\ Len(SubSeq(s, n + 1, Len(s))) = Len(s) - n
         /\ \A i \in 1 .. Len(s) - n : SubSeq(s, n + 1, Len(s))[i] = s[n + i]
  OBVIOUS

\* Division with remainder by a positive number, and its uniqueness.
LEMMA DivMod ==
  ASSUME NEW n \in Nat, n > 0, NEW p \in Nat
  PROVE  /\ p % n \in 0 .. (n-1)
         /\ p \div n \in Nat
         /\ p = n * (p \div n) + (p % n)
<1>1. /\ p % n \in 0 .. (n-1) /\ p \div n \in Int /\ p = n * (p \div n) + (p % n)
  OBVIOUS
<1>2. p \div n >= 0
  <2>1. SUFFICES ASSUME p \div n <= -1 PROVE FALSE
    BY <1>1
  <2>2. n * (p \div n) <= -n
    BY <2>1, <1>1
  <2>3. QED
    BY <2>2, <1>1
<1>3. QED
  BY <1>1, <1>2

LEMMA DivModUnique ==
  ASSUME NEW n \in Nat, n > 0, NEW q \in Nat, NEW r \in 0 .. (n-1)
  PROVE  (n * q + r) % n = r /\ (n * q + r) \div n = q
<1> DEFINE s == (n * q + r) % n
           t == (n * q + r) \div n
<1>1. s \in 0 .. (n-1) /\ t \in Nat /\ n * q + r = n * t + s
  <2>1. n * q + r \in Nat
    OBVIOUS
  <2>2. QED
    BY <2>1, DivMod
<1>2. n * (q - t) = s - r
  BY <1>1
<1>3. s - r > -n /\ s - r < n
  BY <1>1
<1>4. q - t = 0
  <2>1. CASE q - t >= 1
    <3>1. n * (q - t) >= n
      BY <2>1, <1>1
    <3>2. QED
      BY <3>1, <1>2, <1>3, <1>1
  <2>2. CASE q - t <= -1
    <3>1. n * (q - t) <= -n
      BY <2>2, <1>1
    <3>2. QED
      BY <3>1, <1>2, <1>3, <1>1
  <2>3. QED
    BY <2>1, <2>2, <1>1
<1>5. QED
  BY <1>1, <1>2, <1>4

\* A header is four bytes.
LEMMA HeaderType ==
  ASSUME NEW n \in Nat
  PROVE  /\ Header(n) \in Seq(Byte) /\ Len(Header(n)) = HeaderSize
         /\ \A j \in 1 .. HeaderSize : Header(n)[j] \in Byte
<1> DEFINE b == Base
<1>1. b \in Nat /\ b > 0 /\ b * b \in Nat /\ b * b > 0 /\ b * b * b \in Nat /\ b * b * b > 0
  BY FramingAssumption
<1>2. /\ n \div (b * b * b) \in Nat /\ n \div (b * b) \in Nat /\ n \div b \in Nat
  BY <1>1, DivMod
<1>3. \A p \in Nat : p % b \in Byte
  BY <1>1, DivMod DEF Byte
<1>4. QED
  BY <1>2, <1>3 DEF Header, HeaderSize

\* What the reader computes from a header is the length the writer put there: the
\* shifts and masks of one language and the other invert each other.
LEMMA HeaderRoundTrip ==
  ASSUME NEW n \in Nat, n < Base * Base * Base * Base
  PROVE  HeaderSizeOf(Header(n)) = n
<1> DEFINE b  == Base
           q1 == n \div b
           q2 == q1 \div b
           q3 == q2 \div b
           r0 == n % b
           r1 == q1 % b
           r2 == q2 % b
<1>1. b \in Nat /\ b > 1
  BY FramingAssumption
<1>2. q1 \in Nat /\ r0 \in 0 .. (b-1) /\ n = b * q1 + r0
  BY <1>1, DivMod
<1>3. q2 \in Nat /\ r1 \in 0 .. (b-1) /\ q1 = b * q2 + r1
  BY <1>1, <1>2, DivMod
<1>4. q3 \in Nat /\ r2 \in 0 .. (b-1) /\ q2 = b * q3 + r2
  BY <1>1, <1>3, DivMod
<1> HIDE DEF b, q1, q2, q3, r0, r1, r2
<1>5. n \div (b * b) = q2
  <2>1. n = (b * b) * q2 + (b * r1 + r0)
    BY <1>1, <1>2, <1>3
  <2>2. b * r1 <= b * (b - 1) /\ b * r1 \in Nat
    BY <1>1, <1>3
  <2>3. b * r1 + r0 \in 0 .. (b * b - 1) /\ b * b \in Nat /\ b * b > 0
    BY <1>1, <1>2, <2>2
  <2>4. QED
    BY <2>1, <2>3, <1>3, DivModUnique
<1>6. n \div (b * b * b) = q3
  <2>1. n = (b * b * b) * q3 + (b * b * r2 + b * r1 + r0)
    BY <1>1, <1>2, <1>3, <1>4
  <2>2. b * r1 <= b * (b - 1) /\ b * r1 \in Nat
    BY <1>1, <1>3
  <2>3. b * b \in Nat /\ b * b > 0
    BY <1>1
  <2>4. b * b * r2 <= b * b * (b - 1) /\ b * b * r2 \in Nat
    BY <1>4, <1>1, <2>3
  <2>5. b * b * (b - 1) = b * b * b - b * b /\ b * (b - 1) = b * b - b
    BY <1>1
  <2>6. b * b * b \in Nat /\ b * b * b > 0
    BY <1>1
  <2>7. b * b * r2 + b * r1 + r0 \in 0 .. (b * b * b - 1)
    BY <1>1, <1>2, <2>2, <2>3, <2>4, <2>5, <2>6
  <2>8. QED
    BY <2>1, <2>6, <2>7, <1>4, DivModUnique
<1>7. q3 % b = q3
  <2>1. q3 < b
    <3>1. SUFFICES ASSUME q3 >= b PROVE FALSE
      BY <1>1, <1>4
    <3>2. b * b * b \in Nat
      BY <1>1
    <3>3. (b * b * b) * q3 >= (b * b * b) * b
      BY <3>1, <3>2, <1>1, <1>4
    <3>4. n >= (b * b * b) * q3
      <4>1. b * b * r2 \in Nat /\ b * r1 \in Nat
        BY <1>1, <1>3, <1>4
      <4>2. n = (b * b * b) * q3 + (b * b * r2 + b * r1 + r0)
        BY <1>1, <1>2, <1>3, <1>4
      <4>3. (b * b * b) * q3 \in Nat
        BY <3>2, <1>4
      <4>4. QED
        BY <4>1, <4>2, <4>3, <1>2
    <3>5. n < b * b * b * b
      BY DEF b
    <3>6. QED
      BY <3>2, <3>3, <3>4, <3>5, <1>1, <1>4
  <2>2. b * 0 + q3 = q3 /\ q3 \in 0 .. (b-1)
    BY <2>1, <1>1, <1>4
  <2>3. QED
    BY <2>2, <1>1, DivModUnique
<1>8. Header(n) = << q3, r2, r1, r0 >>
  BY <1>5, <1>6, <1>7 DEF Header, b, q1, q2, q3, r0, r1, r2
<1>9. n = q3 * b * b * b + r2 * b * b + r1 * b + r0
  BY <1>1, <1>2, <1>3, <1>4
<1>10. QED
  BY <1>8, <1>9 DEF HeaderSizeOf, b
-----------------------------------------------------------------------------
\* T holds the frames of the bodies s one after the other, and the frame of s[k]
\* ends at pos[k].
Layout(T, pos, s) ==
  /\ T \in Seq(Byte) /\ s \in Seq(Body)
  /\ pos \in [0 .. Len(s) -> Nat]
  /\ pos[0] = 0 /\ pos[Len(s)] = Len(T)
  /\ \A k \in 1 .. Len(s) :
       /\ pos[k] = pos[k-1] + HeaderSize + Len(s[k])
       /\ \A j \in 1 .. HeaderSize : T[pos[k-1] + j] = Header(Len(s[k]))[j]
       /\ \A j \in 1 .. Len(s[k]) : T[pos[k-1] + HeaderSize + j] = s[k][j]
  /\ \A i, j \in 0 .. Len(s) : i < j => pos[i] < pos[j]

\* h lies in the frame after the first k, or at its beginning.
InFrame(pos, s, k, h) ==
  /\ k \in 0 .. Len(s) /\ h \in Nat
  /\ pos[k] <= h
  /\ k < Len(s) => h < pos[k+1]

LEMMA BodyType ==
  ASSUME NEW body \in Body
  PROVE  body \in Seq(Byte) /\ Len(body) \in Nat /\ Len(body) < Base * Base * Base * Base
  BY FramingAssumption

\* A frame by elements.
LEMMA Encoded ==
  ASSUME NEW body \in Body
  PROVE  /\ Encode(body) \in Seq(Byte) /\ Len(Encode(body)) = HeaderSize + Len(body)
         /\ \A j \in 1 .. HeaderSize : Encode(body)[j] = Header(Len(body))[j]
         /\ \A j \in 1 .. Len(body) : Encode(body)[HeaderSize + j] = body[j]
<1> DEFINE H == Header(Len(body))
<1>1. /\ body \in Seq(Byte) /\ Len(body) \in Nat
      /\ H \in Seq(Byte) /\ Len(H) = HeaderSize
  BY BodyType, HeaderType
<1>2. Encode(body) = H \o body
  BY DEF Encode
<1> HIDE DEF H
<1>3. /\ H \o body \in Seq(Byte) /\ Len(H \o body) = Len(H) + Len(body)
      /\ \A i \in 1 .. Len(H) : (H \o body)[i] = H[i]
      /\ \A i \in 1 .. Len(body) : (H \o body)[Len(H) + i] = body[i]
  BY <1>1
<1>4. QED
  BY <1>1, <1>2, <1>3 DEF H

LEMMA LayoutType ==
  ASSUME NEW T, NEW pos, NEW s, Layout(T, pos, s)
  PROVE  /\ T \in Seq(Byte) /\ s \in Seq(Body) /\ Len(s) \in Nat /\ Len(T) \in Nat
         /\ pos \in [0 .. Len(s) -> Nat] /\ \A i \in 0 .. Len(s) : pos[i] \in Nat
         /\ pos[0] = 0 /\ pos[Len(s)] = Len(T)
         /\ \A k \in 1 .. Len(s) :
              /\ s[k] \in Body /\ s[k] \in Seq(Byte) /\ Len(s[k]) \in Nat
              /\ k \in 0 .. Len(s) /\ k - 1 \in 0 .. Len(s)
<1>1. /\ T \in Seq(Byte) /\ s \in Seq(Body) /\ Len(s) \in Nat /\ Len(T) \in Nat
      /\ pos \in [0 .. Len(s) -> Nat]
      /\ pos[0] = 0 /\ pos[Len(s)] = Len(T)
  BY DEF Layout
<1>2. \A k \in 1 .. Len(s) : s[k] \in Body /\ k \in 0 .. Len(s) /\ k - 1 \in 0 .. Len(s)
  BY <1>1
<1>3. QED
  BY <1>1, <1>2, BodyType

LEMMA LayoutEmpty == Layout(<<>>, [i \in 0 .. 0 |-> 0], <<>>)
  BY DEF Layout

\* A body that is written extends the stream.
LEMMA LayoutAppend ==
  ASSUME NEW T, NEW pos, NEW s, Layout(T, pos, s), NEW body \in Body
  PROVE  \E pos2 : /\ Layout(T \o Encode(body), pos2, Append(s, body))
                   /\ \A i \in 0 .. Len(s) : pos2[i] = pos[i]
<1> DEFINE n    == Len(s)
           E    == Encode(body)
           T2   == T \o E
           s2   == Append(s, body)
           size == HeaderSize + Len(body)
           pos2 == [i \in 0 .. n + 1 |-> IF i = n + 1 THEN Len(T) + size ELSE pos[i]]
<1>1. /\ T \in Seq(Byte) /\ s \in Seq(Body) /\ n \in Nat /\ Len(T) \in Nat
      /\ pos \in [0 .. n -> Nat] /\ pos[0] = 0 /\ pos[n] = Len(T)
  BY DEF Layout
<1>2. /\ E \in Seq(Byte) /\ Len(E) = size /\ body \in Seq(Byte) /\ Len(body) \in Nat
      /\ size \in Nat /\ size > 0
  BY Encoded, BodyType DEF HeaderSize
<1> HIDE DEF E, size
<1>3. /\ T2 \in Seq(Byte) /\ Len(T2) = Len(T) + size
      /\ \A i \in 1 .. Len(T) : T2[i] = T[i]
      /\ \A i \in 1 .. size : T2[Len(T) + i] = E[i]
  <2>0. T \in Seq(Byte) /\ E \in Seq(Byte)
    BY <1>1, <1>2
  <2>1. /\ T \o E \in Seq(Byte) /\ Len(T \o E) = Len(T) + Len(E)
        /\ \A i \in 1 .. Len(T) : (T \o E)[i] = T[i]
        /\ \A i \in 1 .. Len(E) : (T \o E)[Len(T) + i] = E[i]
    BY <2>0
  <2>2. QED
    BY <2>1, <1>2
<1> USE DEF E, size
<1>4. /\ s2 \in Seq(Body) /\ Len(s2) = n + 1 /\ s2[n+1] = body
      /\ \A k \in 1 .. n : s2[k] = s[k]
  BY <1>1
<1>5. /\ pos2 \in [0 .. n + 1 -> Nat] /\ pos2[n+1] = Len(T) + size
      /\ \A i \in 0 .. n : pos2[i] = pos[i]
  <2>1. Len(T) + size \in Nat /\ n + 1 \in 0 .. n + 1
    BY <1>1, <1>2
  <2>2. \A i \in 0 .. n : i \in 0 .. n + 1 /\ i # n + 1
    BY <1>1
  <2>3. QED
    BY <2>1, <2>2, <1>1
<1>6. \A i, j \in 0 .. n + 1 : i < j => pos2[i] < pos2[j]
  <2>1. \A i, j \in 0 .. n : i < j => pos[i] < pos[j]
    BY DEF Layout
  <2>2. \A i \in 0 .. n : pos[i] <= Len(T)
    <3>1. \A i \in 0 .. n : i = n \/ (i < n /\ n \in 0 .. n)
      BY <1>1
    <3>2. QED
      BY <3>1, <2>1, <1>1
  <2>3. \A i \in 0 .. n + 1 : i = n + 1 \/ i \in 0 .. n
    BY <1>1
  <2> HIDE DEF pos2, n, size
  <2>4. Len(T) \in Nat /\ size \in Nat /\ size > 0 /\ \A i \in 0 .. n : pos[i] \in Nat
    BY <1>1, <1>2
  <2>5. SUFFICES ASSUME NEW i \in 0 .. n + 1, NEW j \in 0 .. n + 1, i < j
                 PROVE  pos2[i] < pos2[j]
    OBVIOUS
  <2>6. i \in 0 .. n
    BY <2>3, <2>5, <1>1
  <2>7. CASE j = n + 1
    BY <2>2, <2>4, <2>6, <2>7, <1>5
  <2>8. CASE j \in 0 .. n
    BY <2>1, <2>5, <2>6, <2>8, <1>5
  <2>9. QED
    BY <2>3, <2>7, <2>8
<1>7. ASSUME NEW k \in 1 .. n + 1
      PROVE  /\ pos2[k] = pos2[k-1] + HeaderSize + Len(s2[k])
             /\ \A j \in 1 .. HeaderSize : T2[pos2[k-1] + j] = Header(Len(s2[k]))[j]
             /\ \A j \in 1 .. Len(s2[k]) : T2[pos2[k-1] + HeaderSize + j] = s2[k][j]
  <2>1. CASE k = n + 1
    <3>1. pos2[k-1] = Len(T) /\ s2[k] = body
      BY <2>1, <1>1, <1>4, <1>5
    <3>2. \A j \in 1 .. HeaderSize : T2[Len(T) + j] = Header(Len(body))[j]
      <4>1. \A j \in 1 .. HeaderSize : j \in 1 .. size
        BY <1>2 DEF HeaderSize
      <4>2. QED
        BY <4>1, <1>3, Encoded
    <3>3. \A j \in 1 .. Len(body) : T2[Len(T) + HeaderSize + j] = body[j]
      <4>1. \A j \in 1 .. Len(body) :
              HeaderSize + j \in 1 .. size /\ Len(T) + HeaderSize + j = Len(T) + (HeaderSize + j)
        BY <1>1, <1>2 DEF HeaderSize
      <4>2. QED
        BY <4>1, <1>3, Encoded
    <3>4. pos2[k] = Len(T) + HeaderSize + Len(body)
      BY <2>1, <1>1, <1>2, <1>5 DEF HeaderSize
    <3>5. QED
      BY <3>1, <3>2, <3>3, <3>4
  <2>2. CASE k \in 1 .. n
    <3>1. /\ k - 1 \in 0 .. n /\ k \in 0 .. n
          /\ pos2[k] = pos[k] /\ pos2[k-1] = pos[k-1] /\ s2[k] = s[k]
      BY <2>2, <1>1, <1>4, <1>5
    <3>2. /\ pos[k] = pos[k-1] + HeaderSize + Len(s[k])
          /\ \A j \in 1 .. HeaderSize : T[pos[k-1] + j] = Header(Len(s[k]))[j]
          /\ \A j \in 1 .. Len(s[k]) : T[pos[k-1] + HeaderSize + j] = s[k][j]
      BY <2>2 DEF Layout
    <3>3. pos[k] <= Len(T) /\ pos[k-1] \in Nat /\ pos[k] \in Nat /\ Len(s[k]) \in Nat
      <4>1. k = n \/ pos[k] < pos[n]
        BY <2>2, <1>1 DEF Layout
      <4>2. pos[k] \in Nat /\ pos[k-1] \in Nat /\ Len(s[k]) \in Nat
        BY <2>2, LayoutType
      <4>3. QED
        BY <4>1, <4>2, <1>1
    <3>4. /\ \A j \in 1 .. HeaderSize : pos[k-1] + j \in 1 .. Len(T)
          /\ \A j \in 1 .. Len(s[k]) : pos[k-1] + HeaderSize + j \in 1 .. Len(T)
      <4>1. \A p, l, e, L \in Nat : e = p + 4 + l /\ e <= L =>
              /\ \A j \in 1 .. 4 : p + j \in 1 .. L
              /\ \A j \in 1 .. l : p + 4 + j \in 1 .. L
        OBVIOUS
      <4>2. QED
        BY <4>1, <3>2, <3>3, <1>1 DEF HeaderSize
    <3>5. /\ \A j \in 1 .. HeaderSize : T2[pos[k-1] + j] = T[pos[k-1] + j]
          /\ \A j \in 1 .. Len(s[k]) : T2[pos[k-1] + HeaderSize + j] = T[pos[k-1] + HeaderSize + j]
      BY <3>4, <1>3
    <3> HIDE DEF T2, pos2, s2
    <3>6. pos2[k] = pos2[k-1] + HeaderSize + Len(s2[k])
      BY <3>1, <3>2
    <3>7. \A j \in 1 .. HeaderSize : T2[pos2[k-1] + j] = Header(Len(s2[k]))[j]
      BY <3>1, <3>2, <3>5
    <3>8. \A j \in 1 .. Len(s2[k]) : T2[pos2[k-1] + HeaderSize + j] = s2[k][j]
      BY <3>1, <3>2, <3>5
    <3>9. QED
      BY <3>6, <3>7, <3>8
  <2>3. k = n + 1 \/ k \in 1 .. n
    BY <1>1
  <2> HIDE DEF T2, pos2, s2, n
  <2>4. QED
    BY <2>1, <2>2, <2>3
<1>8. Layout(T2, pos2, s2)
  <2>1. pos2[0] = 0 /\ pos2[Len(s2)] = Len(T2)
    BY <1>1, <1>3, <1>4, <1>5
  <2>2. QED
    BY <2>1, <1>3, <1>4, <1>5, <1>6, <1>7 DEF Layout
<1>9. QED
  BY <1>5, <1>8

\* A position lies in one frame only.
LEMMA FrameUnique ==
  ASSUME NEW T, NEW pos, NEW s, Layout(T, pos, s), NEW h, NEW a, NEW b,
         InFrame(pos, s, a, h), InFrame(pos, s, b, h)
  PROVE  a = b
<1>1. /\ a \in 0 .. Len(s) /\ b \in 0 .. Len(s) /\ Len(s) \in Nat /\ h \in Nat
      /\ \A i \in 0 .. Len(s) : pos[i] \in Nat
  BY LayoutType DEF InFrame
<1>2. ASSUME NEW c \in 0 .. Len(s), NEW d \in 0 .. Len(s), c < d,
             InFrame(pos, s, c, h), InFrame(pos, s, d, h)
      PROVE  FALSE
  <2>1. c < Len(s) /\ c + 1 \in 0 .. Len(s) /\ (c + 1 = d \/ c + 1 < d)
    BY <1>1, <1>2
  <2>2. pos[c+1] <= pos[d]
    BY <2>1, <1>1 DEF Layout
  <2>3. QED
    BY <2>1, <2>2, <1>1, <1>2 DEF InFrame
<1>3. QED
  BY <1>1, <1>2

\* Where there is a byte of a frame after the first k, there is a (k+1)st, and it is
\* as long as its header says.
LEMMA NextFrame ==
  ASSUME NEW T, NEW pos, NEW s, Layout(T, pos, s),
         NEW k \in 0 .. Len(s), NEW h \in Nat, pos[k] < h, h <= Len(T)
  PROVE  /\ k + 1 \in 1 .. Len(s) /\ s[k+1] \in Body /\ Len(s[k+1]) \in Nat
         /\ pos[k] \in Nat /\ pos[k+1] \in Nat
         /\ pos[k+1] = pos[k] + HeaderSize + Len(s[k+1]) /\ pos[k+1] <= Len(T)
         /\ \A j \in 1 .. HeaderSize : T[pos[k] + j] = Header(Len(s[k+1]))[j]
         /\ \A j \in 1 .. Len(s[k+1]) : T[pos[k] + HeaderSize + j] = s[k+1][j]
<1>1. /\ Len(s) \in Nat /\ Len(T) \in Nat /\ pos[Len(s)] = Len(T)
      /\ \A i \in 0 .. Len(s) : pos[i] \in Nat
  BY DEF Layout
<1>2. k + 1 \in 1 .. Len(s) /\ k + 1 \in 0 .. Len(s) /\ (k + 1) - 1 = k
  BY <1>1
<1>3. s[k+1] \in Body
  BY <1>2 DEF Layout
<1>4. k + 1 = Len(s) \/ pos[k+1] < pos[Len(s)]
  BY <1>1, <1>2 DEF Layout
<1>5. /\ pos[k+1] = pos[k] + HeaderSize + Len(s[k+1])
      /\ \A j \in 1 .. HeaderSize : T[pos[k] + j] = Header(Len(s[k+1]))[j]
      /\ \A j \in 1 .. Len(s[k+1]) : T[pos[k] + HeaderSize + j] = s[k+1][j]
  BY <1>2 DEF Layout
<1>6. QED
  BY <1>1, <1>2, <1>3, <1>4, <1>5, BodyType

\* Four bytes taken at the beginning of a frame are its header.
LEMMA HeaderRead ==
  ASSUME NEW body \in Body, NEW h \in Seq(Byte), Len(h) = HeaderSize,
         \A j \in 1 .. HeaderSize : h[j] = Header(Len(body))[j]
  PROVE  h = Header(Len(body)) /\ HeaderSizeOf(h) = Len(body)
<1>1. /\ Len(body) \in Nat /\ Len(body) < Base * Base * Base * Base
      /\ Header(Len(body)) \in Seq(Byte) /\ Len(Header(Len(body))) = HeaderSize
  BY BodyType, HeaderType
<1>2. h = Header(Len(body))
  BY <1>1
<1>3. QED
  BY <1>1, <1>2, HeaderRoundTrip
=============================================================================
