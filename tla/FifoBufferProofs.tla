--------------------------- MODULE FifoBufferProofs ---------------------------
(***************************************************************************)
(* The circular buffer is a queue, whatever its capacity, its indices and  *)
(* the bytes in it: writing appends, reading takes from the front, and     *)
(* bytes written ahead of their turn are read in their place.              *)
(***************************************************************************)
EXTENDS FifoBuffer, SequenceTheorems, TLAPS

\* What the constructor sets up and every method keeps: the read position lies
\* in the array and no more is readable than the array holds.
IsFifo(b) ==
  /\ b = [cap |-> b.cap, buf |-> b.buf, pos |-> b.pos, len |-> b.len]
  /\ b.cap \in Nat \ {0}
  /\ b.pos \in 0 .. b.cap - 1
  /\ b.len \in 0 .. b.cap
  /\ b.buf = [x \in 0 .. b.cap - 1 |-> b.buf[x]]

\* The bytes that are readable, in order.
Content(b) == ReadOffset(b, b.len, 0)

\* The indices are natural numbers within the array.
LEMMA Fields ==
  ASSUME NEW b, IsFifo(b)
  PROVE  /\ b.cap \in Nat /\ b.pos \in Nat /\ b.len \in Nat
         /\ b.cap > 0 /\ b.pos < b.cap /\ b.len <= b.cap
  BY DEF IsFifo

\* The places of different bytes are different places of the array.
LEMMA Places ==
  ASSUME NEW b, IsFifo(b)
  PROVE  /\ \A i \in 0 .. b.cap : Place(b, i) \in 0 .. b.cap - 1
         /\ \A i, j \in 0 .. b.cap - 1 : Place(b, i) = Place(b, j) => i = j
  BY Fields DEF Place

\* Of the n bytes from position from on, the one at k is the one after k - from.
LEMMA OnePlace ==
  ASSUME NEW b, IsFifo(b), NEW from \in Nat, NEW n \in Int, from + n <= b.cap,
         NEW k \in 0 .. b.cap - 1, NEW i \in 1 .. n
  PROVE  Place(b, from + i - 1) = Place(b, k) <=> i = k - from + 1
<1>1. /\ from + i - 1 \in 0 .. b.cap - 1
      /\ from + i - 1 = k <=> i = k - from + 1
  BY Fields
<1>2. Place(b, from + i - 1) = Place(b, k) => from + i - 1 = k
  BY <1>1, Places
<1> QED
  BY <1>1, <1>2

\* How many of the bytes given fit.
LEMMA Fits ==
  ASSUME NEW b, IsFifo(b), NEW S, NEW data \in Seq(S), NEW offset \in Nat
  PROVE  LET n == Smaller(Len(data), b.cap - b.len - offset)
         IN  /\ n \in Int /\ n <= Len(data) /\ b.len + offset + n <= b.cap
             /\ b.len + offset \in Nat
             /\ b.len + offset <= b.cap => n \in Nat
<1>1. Len(data) \in Nat
  OBVIOUS
<1> QED
  BY <1>1, Fields, SMTT(60) DEF Smaller

\* WriteOffset puts the bytes that fit behind the readable ones, offset further
\* on, and changes no other byte.
LEMMA WrittenAt ==
  ASSUME NEW b, IsFifo(b), NEW S, NEW data \in Seq(S), NEW offset \in Nat,
         NEW k \in 0 .. b.cap - 1
  PROVE  LET from == b.len + offset
             n == Smaller(Len(data), b.cap - b.len - offset)
         IN  WriteOffset(b, data, offset).buf[Place(b, k)]
               = IF k \in from .. from + n - 1 THEN data[k - from + 1] ELSE b.buf[Place(b, k)]
<1> DEFINE from == b.len + offset
           n == Smaller(Len(data), b.cap - b.len - offset)
           Here(i, x) == Place(b, from + i - 1) = x
           w == WriteOffset(b, data, offset)
<1>1. n \in Int /\ from \in Nat /\ from + n <= b.cap /\ b.cap \in Nat
  BY Fits, Fields
<1>2. w.buf = [x \in 0 .. b.cap - 1 |-> IF \E i \in 1 .. n : Here(i, x)
                                        THEN data[CHOOSE i \in 1 .. n : Here(i, x)]
                                        ELSE b.buf[x]]
  BY DEF WriteOffset, IsFifo
<1>3. Place(b, k) \in 0 .. b.cap - 1
  BY Places, Fields
<1> HIDE DEF n, from, w
<1>4. w.buf[Place(b, k)] = IF \E i \in 1 .. n : Here(i, Place(b, k))
                           THEN data[CHOOSE i \in 1 .. n : Here(i, Place(b, k))]
                           ELSE b.buf[Place(b, k)]
  BY <1>2, <1>3
<1>5. \A i \in 1 .. n : Here(i, Place(b, k)) <=> i = k - from + 1
  BY <1>1, OnePlace, ZenonT(60)
<1>6. k \in from .. from + n - 1 <=> k - from + 1 \in 1 .. n
  BY <1>1
<1> HIDE DEF Here
<1>7. CASE k \in from .. from + n - 1
  <2> DEFINE i == k - from + 1
  <2>1. i \in 1 .. n /\ \A j \in 1 .. n : Here(j, Place(b, k)) <=> j = i
    BY <1>5, <1>6, <1>7
  <2> HIDE DEF i
  <2>2. (CHOOSE j \in 1 .. n : Here(j, Place(b, k))) = i
    BY <2>1
  <2>3. w.buf[Place(b, k)] = data[i]
    BY <1>4, <2>1, <2>2
  <2> QED
    BY <1>7, <2>3 DEF i, from, n, w
<1>8. CASE k \notin from .. from + n - 1
  <2>1. w.buf[Place(b, k)] = b.buf[Place(b, k)]
    BY <1>4, <1>5, <1>6, <1>8
  <2> QED
    BY <1>8, <2>1 DEF from, n, w
<1> QED
  BY <1>7, <1>8

\* A sequence made of s and then t.
LEMMA Concat ==
  ASSUME NEW S, NEW s \in Seq(S), NEW t \in Seq(S), NEW u \in Seq(S),
         Len(u) = Len(s) + Len(t),
         \A i \in 1 .. Len(s) : u[i] = s[i],
         \A i \in 1 .. Len(t) : u[Len(s) + i] = t[i]
  PROVE  u = s \o t
<1>1. /\ s \o t \in Seq(S) /\ Len(s \o t) = Len(u)
      /\ \A i \in 1 .. Len(s) + Len(t) :
           (s \o t)[i] = IF i <= Len(s) THEN s[i] ELSE t[i - Len(s)]
  BY ConcatProperties
<1>2. \A i \in 1 .. Len(u) : u[i] = (s \o t)[i]
  <2> SUFFICES ASSUME NEW i \in 1 .. Len(u) PROVE u[i] = (s \o t)[i]
    BY SMTT(60)
  <2>0. Len(s) \in Nat /\ Len(t) \in Nat
    OBVIOUS
  <2>1. CASE i <= Len(s)
    BY <1>1, <2>0, <2>1
  <2>2. CASE i > Len(s)
    <3>1. i - Len(s) \in 1 .. Len(t) /\ Len(s) + (i - Len(s)) = i
      BY <2>0, <2>2
    <3> QED
      BY <1>1, <2>0, <2>2, <3>1
  <2> QED
    BY <2>0, <2>1, <2>2
<1> QED
  BY <1>1, <1>2, SeqEqual

\* WriteOffset moves no index.
LEMMA WriteOffsetIndices ==
  ASSUME NEW b, IsFifo(b), NEW data, NEW offset
  PROVE  LET w == WriteOffset(b, data, offset)
         IN  /\ IsFifo(w) /\ w.cap = b.cap /\ w.pos = b.pos /\ w.len = b.len
             /\ \A i : Place(w, i) = Place(b, i)
<1> DEFINE w == WriteOffset(b, data, offset)
           after == w.buf
<1>0. w = [b EXCEPT !.buf = after] /\ after = [x \in 0 .. b.cap - 1 |-> after[x]]
  BY DEF WriteOffset, IsFifo
<1> HIDE DEF w, after
<1>1. /\ w = [cap |-> b.cap, buf |-> w.buf, pos |-> b.pos, len |-> b.len]
      /\ w.buf = [x \in 0 .. b.cap - 1 |-> w.buf[x]]
  BY <1>0, Zenon DEF IsFifo
<1>2. w.cap = b.cap /\ w.pos = b.pos /\ w.len = b.len
  BY <1>1
<1>3. IsFifo(w)
  BY <1>1, <1>2 DEF IsFifo
<1>4. \A i : Place(w, i) = Place(b, i)
  BY <1>2 DEF Place
<1> QED
  BY <1>2, <1>3, <1>4 DEF w

\* Bytes written at an offset stay out of sight: a segment that came early, or
\* once more, changes nothing that is readable.
THEOREM EarlyBytesHidden ==
  ASSUME NEW b, IsFifo(b), NEW S, NEW data \in Seq(S), NEW offset \in Nat
  PROVE  Content(WriteOffset(b, data, offset)) = Content(b)
<1> DEFINE w == WriteOffset(b, data, offset)
           n == Smaller(Len(data), b.cap - b.len - offset)
<1>1. w.len = b.len /\ \A i : Place(w, i) = Place(b, i)
  BY WriteOffsetIndices
<1>2. ASSUME NEW i \in 1 .. b.len
      PROVE  w.buf[Place(b, 0 + i - 1)] = b.buf[Place(b, 0 + i - 1)]
  <2>0. n \in Int
    BY Fits
  <2> HIDE DEF n
  <2>1. /\ 0 + i - 1 \in 0 .. b.cap - 1
        /\ 0 + i - 1 \notin b.len + offset .. b.len + offset + n - 1
    BY <2>0, Fields
  <2> QED
    BY <2>1, WrittenAt DEF n
<1> HIDE DEF w
<1>3. Smaller(b.len, b.len - 0) = b.len
  BY Fields DEF Smaller
<1> QED
  BY <1>1, <1>2, <1>3 DEF Content, ReadOffset, w

\* The byte k places behind the read position.
At(b, k) == b.buf[Place(b, k)]

\* All bytes of the array are in S.
Holds(b, S) == \A x \in 0 .. b.cap - 1 : b.buf[x] \in S

\* The readable bytes, one by one.
LEMMA ContentIs ==
  ASSUME NEW b, IsFifo(b), NEW S, Holds(b, S)
  PROVE  /\ Content(b) \in Seq(S)
         /\ Len(Content(b)) = b.len
         /\ \A i \in 1 .. b.len : Content(b)[i] = At(b, i - 1)
<1>1. b.len \in Nat /\ Smaller(b.len, b.len - 0) = b.len
  BY Fields DEF Smaller
<1>2. Content(b) = [i \in 1 .. b.len |-> b.buf[Place(b, 0 + i - 1)]]
  BY <1>1 DEF Content, ReadOffset
<1>3. ASSUME NEW i \in 1 .. b.len PROVE 0 + i - 1 = i - 1 /\ i - 1 \in 0 .. b.cap - 1
  BY Fields
<1>4. \A i \in 1 .. b.len : b.buf[Place(b, 0 + i - 1)] = At(b, i - 1)
  BY <1>3 DEF At
<1>5. \A i \in 1 .. b.len : b.buf[Place(b, 0 + i - 1)] \in S
  BY <1>3, Places, Fields DEF Holds
<1>6. Content(b) \in [1 .. b.len -> S]
  BY <1>2, <1>5
<1>7. Content(b) \in Seq(S) /\ DOMAIN Content(b) = 1 .. b.len
  BY <1>1, <1>6
<1>8. Len(Content(b)) = b.len
  BY <1>1, <1>7
<1> QED
  BY <1>2, <1>4, <1>7, <1>8, Zenon

\* A buffer has these four fields.
LEMMA Shape ==
  ASSUME NEW b, IsFifo(b)
  PROVE  b = [cap |-> b.cap, buf |-> b.buf, pos |-> b.pos, len |-> b.len]
  BY DEF IsFifo

\* ConsumeWriteBuffer moves no byte.
LEMMA Committed ==
  ASSUME NEW b, IsFifo(b), NEW size \in 0 .. GetWriteRemaining(b)
  PROVE  LET c == ConsumeWriteBuffer(b, size)
         IN  /\ IsFifo(c) /\ c.cap = b.cap /\ c.pos = b.pos /\ c.len = b.len + size
             /\ c.buf = b.buf
             /\ \A k : Place(c, k) = Place(b, k)
<1> DEFINE c == ConsumeWriteBuffer(b, size)
<1>1. c = [cap |-> b.cap, buf |-> b.buf, pos |-> b.pos, len |-> b.len + size]
  BY Shape DEF ConsumeWriteBuffer
<1> HIDE DEF c
<1>2. c.cap = b.cap /\ c.pos = b.pos /\ c.len = b.len + size /\ c.buf = b.buf
  BY <1>1
<1>3. b.len + size \in 0 .. b.cap
  BY Fields DEF GetWriteRemaining
<1>4. IsFifo(c)
  BY <1>1, <1>2, <1>3 DEF IsFifo
<1>5. \A k : Place(c, k) = Place(b, k)
  BY <1>2 DEF Place
<1> QED
  BY <1>2, <1>4, <1>5 DEF c

\* ConsumeReadData moves the read position, and with it every byte's place.
LEMMA Consumed ==
  ASSUME NEW b, IsFifo(b), NEW size \in 0 .. b.len
  PROVE  LET c == ConsumeReadData(b, size)
         IN  /\ IsFifo(c) /\ c.cap = b.cap /\ c.len = b.len - size /\ c.buf = b.buf
             /\ \A k \in 0 .. b.cap - size - 1 : Place(c, k) = Place(b, size + k)
<1> DEFINE c == ConsumeReadData(b, size)
           first == Place(b, size)
           rest == b.len - size
           moved == [b EXCEPT !.pos = first]
<1>1. c = [b EXCEPT !.pos = first, !.len = rest]
  BY DEF ConsumeReadData
<1>2. rest \in 0 .. b.cap /\ first \in 0 .. b.cap - 1
  BY Fields, Places
<1> HIDE DEF c, first, rest
<1>3. moved = [cap |-> b.cap, buf |-> b.buf, pos |-> first, len |-> b.len]
  BY Shape
<1>4. c = [moved EXCEPT !.len = rest]
  BY <1>1, Shape
<1> HIDE DEF moved
<1>5. c = [cap |-> b.cap, buf |-> b.buf, pos |-> first, len |-> rest]
  BY <1>3, <1>4
<1>6. c.cap = b.cap /\ c.pos = first /\ c.len = rest /\ c.buf = b.buf
  BY <1>5
<1>7. IsFifo(c)
  BY <1>2, <1>5, <1>6 DEF IsFifo
<1>8. \A k \in 0 .. b.cap - size - 1 : Place(c, k) = Place(b, size + k)
  BY <1>6, Fields DEF first, Place
<1> QED
  BY <1>6, <1>7, <1>8 DEF c, rest

\* WriteOffset puts no other bytes into the array than those it is given.
LEMMA WriteHolds ==
  ASSUME NEW b, IsFifo(b), NEW S, Holds(b, S), NEW data \in Seq(S), NEW offset \in Nat
  PROVE  Holds(WriteOffset(b, data, offset), S)
<1> DEFINE n == Smaller(Len(data), b.cap - b.len - offset)
           Here(i, x) == Place(b, b.len + offset + i - 1) = x
           w == WriteOffset(b, data, offset)
<1>1. n \in Int /\ n <= Len(data)
  BY Fits
<1>2. w.buf = [x \in 0 .. b.cap - 1 |-> IF \E i \in 1 .. n : Here(i, x)
                                        THEN data[CHOOSE i \in 1 .. n : Here(i, x)]
                                        ELSE b.buf[x]]
  BY DEF WriteOffset, IsFifo
<1>3. w.cap = b.cap
  BY WriteOffsetIndices
<1> HIDE DEF n, Here, w
<1>4. ASSUME NEW x \in 0 .. b.cap - 1 PROVE w.buf[x] \in S
  <2>1. CASE \E i \in 1 .. n : Here(i, x)
    <3> DEFINE i == CHOOSE i \in 1 .. n : Here(i, x)
    <3>1. i \in 1 .. n /\ w.buf[x] = data[i]
      BY <1>2, <2>1
    <3> HIDE DEF i
    <3>2. i \in 1 .. Len(data)
      BY <1>1, <3>1
    <3> QED
      BY <3>1, <3>2
  <2>2. CASE ~\E i \in 1 .. n : Here(i, x)
    BY <1>2, <2>2 DEF Holds
  <2> QED
    BY <2>1, <2>2
<1> QED
  BY <1>3, <1>4 DEF Holds, w

\* Where Write puts the bytes that fit.
LEMMA Written ==
  ASSUME NEW b, IsFifo(b), NEW S, Holds(b, S), NEW data \in Seq(S)
  PROVE  LET n == Smaller(Len(data), b.cap - b.len)
             c == Write(b, data)
         IN  /\ n \in Nat /\ n <= Len(data) /\ b.len + n <= b.cap
             /\ IsFifo(c) /\ Holds(c, S) /\ c.cap = b.cap /\ c.len = b.len + n
             /\ \A k \in 0 .. b.cap - 1 :
                  At(c, k) = IF k \in b.len .. b.len + n - 1
                             THEN data[k - b.len + 1] ELSE At(b, k)
<1> DEFINE n == Smaller(Len(data), b.cap - b.len)
           w == WriteOffset(b, data, 0)
           c == Write(b, data)
<1>1. Smaller(Len(data), b.cap - b.len - 0) = n /\ b.len + 0 = b.len
  BY Fields
<1>2. n \in Nat /\ n <= Len(data) /\ b.len + n <= b.cap
  BY <1>1, Fits, Fields
<1>3. IsFifo(w) /\ w.cap = b.cap /\ w.len = b.len /\ \A k : Place(w, k) = Place(b, k)
  BY WriteOffsetIndices
<1>4. c = ConsumeWriteBuffer(w, n) /\ n \in 0 .. GetWriteRemaining(w)
  BY <1>2, <1>3, Fields DEF Write, GetWriteRemaining
<1>5. ASSUME NEW k \in 0 .. b.cap - 1
      PROVE  At(w, k) = IF k \in b.len .. b.len + n - 1 THEN data[k - b.len + 1] ELSE At(b, k)
  <2>1. w.buf[Place(b, k)]
          = IF k \in b.len .. b.len + n - 1 THEN data[k - b.len + 1] ELSE b.buf[Place(b, k)]
    BY <1>1, WrittenAt
  <2> QED
    BY <1>3, <2>1 DEF At
<1>6. Holds(w, S)
  BY WriteHolds
<1> HIDE DEF n, w, c
<1>7. IsFifo(c) /\ c.cap = b.cap /\ c.len = b.len + n /\ \A k : At(c, k) = At(w, k)
  BY <1>3, <1>4, Committed DEF At
<1>8. Holds(c, S)
  BY <1>3, <1>4, <1>6, Committed DEF Holds
<1> QED
  BY <1>2, <1>5, <1>7, <1>8 DEF n, c

\* Write appends what fits to the readable bytes.
THEOREM WriteAppends ==
  ASSUME NEW b, IsFifo(b), NEW S, Holds(b, S), NEW data \in Seq(S)
  PROVE  LET fits == SubSeq(data, 1, Smaller(Len(data), GetWriteRemaining(b)))
         IN  Content(Write(b, data)) = Content(b) \o fits
<1> DEFINE n == Smaller(Len(data), b.cap - b.len)
           c == Write(b, data)
           fits == SubSeq(data, 1, n)
<1>1. b.len \in Nat /\ b.cap \in Nat
  BY Fields
<1>2. /\ n \in Nat /\ n <= Len(data) /\ b.len + n <= b.cap
      /\ IsFifo(c) /\ Holds(c, S) /\ c.cap = b.cap /\ c.len = b.len + n
  BY Written
<1>3. \A k \in 0 .. b.cap - 1 :
        At(c, k) = IF k \in b.len .. b.len + n - 1 THEN data[k - b.len + 1] ELSE At(b, k)
  BY Written
<1> HIDE DEF n, c
<1>4. /\ Content(b) \in Seq(S) /\ Len(Content(b)) = b.len
      /\ Content(c) \in Seq(S) /\ Len(Content(c)) = b.len + n
      /\ \A i \in 1 .. b.len : Content(b)[i] = At(b, i - 1)
      /\ \A i \in 1 .. b.len + n : Content(c)[i] = At(c, i - 1)
  BY <1>2, ContentIs
<1>5. fits \in Seq(S) /\ Len(fits) = n /\ \A i \in 1 .. n : fits[i] = data[i]
  BY <1>2
<1>6. \A i \in 1 .. b.len : Content(c)[i] = Content(b)[i]
  <2> TAKE i \in 1 .. b.len
  <2>1. /\ i \in 1 .. b.len + n /\ i - 1 \in 0 .. b.cap - 1
        /\ i - 1 \notin b.len .. b.len + n - 1
    BY <1>1, <1>2
  <2> QED
    BY <1>3, <1>4, <2>1
<1>7. \A i \in 1 .. n : Content(c)[b.len + i] = fits[i]
  <2> TAKE i \in 1 .. n
  <2> DEFINE k == b.len + i - 1
  <2>1. b.len + i \in 1 .. b.len + n /\ k \in 0 .. b.cap - 1
    BY <1>1, <1>2, SMTT(60)
  <2>2. k \in b.len .. b.len + n - 1
    BY <1>1, <1>2
  <2>3. b.len + i - 1 = k /\ k - b.len + 1 = i
    BY <1>1, <1>2
  <2> HIDE DEF k
  <2>4. At(c, k) = data[k - b.len + 1]
    BY <1>3, <2>1, <2>2
  <2>5. Content(c)[b.len + i] = At(c, k)
    BY <1>4, <2>1, <2>3, SMTT(60)
  <2> QED
    BY <1>5, <2>3, <2>4, <2>5
<1> HIDE DEF fits
<1>8. Content(c) = Content(b) \o fits
  <2> DEFINE s == Content(b)
             u == Content(c)
  <2>1. /\ s \in Seq(S) /\ fits \in Seq(S) /\ u \in Seq(S) /\ Len(u) = Len(s) + Len(fits)
        /\ \A i \in 1 .. Len(s) : u[i] = s[i]
        /\ \A i \in 1 .. Len(fits) : u[Len(s) + i] = fits[i]
    BY <1>4, <1>5, <1>6, <1>7
  <2> HIDE DEF s, u
  <2>2. u = s \o fits
    BY <2>1, Concat, Zenon
  <2> QED
    BY <2>2 DEF s, u
<1> QED
  BY <1>8 DEF c, fits, n, GetWriteRemaining

\* Read takes the bytes it returns from the front and leaves the others.
THEOREM ReadTakesFront ==
  ASSUME NEW b, IsFifo(b), NEW S, Holds(b, S), NEW bytes \in Nat
  PROVE  /\ IsFifo(Read(b, bytes)) /\ Holds(Read(b, bytes), S)
         /\ Content(b) = ReadOffset(b, bytes, 0) \o Content(Read(b, bytes))
<1> DEFINE n == Smaller(bytes, b.len)
           c == Read(b, bytes)
           taken == ReadOffset(b, bytes, 0)
<1>1. n \in 0 .. b.len /\ n \in Nat /\ b.len \in Nat /\ b.cap \in Nat /\ b.len <= b.cap
  BY Fields DEF Smaller
<1>2. c = ConsumeReadData(b, n) /\ taken = [i \in 1 .. n |-> b.buf[Place(b, 0 + i - 1)]]
  BY Fields DEF Read, ReadOffset
<1> HIDE DEF n, c, taken
<1>3. /\ IsFifo(c) /\ c.cap = b.cap /\ c.len = b.len - n /\ c.buf = b.buf
      /\ \A k \in 0 .. b.cap - n - 1 : Place(c, k) = Place(b, n + k)
  BY <1>1, <1>2, Consumed
<1>4. Holds(c, S)
  BY <1>3 DEF Holds
<1>5. /\ Content(b) \in Seq(S) /\ Len(Content(b)) = b.len
      /\ Content(c) \in Seq(S) /\ Len(Content(c)) = b.len - n
      /\ \A i \in 1 .. b.len : Content(b)[i] = At(b, i - 1)
      /\ \A i \in 1 .. b.len - n : Content(c)[i] = At(c, i - 1)
  BY <1>3, <1>4, ContentIs
<1>6. \A i \in 1 .. n : taken[i] = Content(b)[i]
  <2> TAKE i \in 1 .. n
  <2>1. i \in 1 .. b.len /\ 0 + i - 1 = i - 1
    BY <1>1
  <2> QED
    BY <1>2, <1>5, <2>1 DEF At
<1>7. taken \in Seq(S) /\ Len(taken) = n
  <2>1. \A i \in 1 .. n : b.buf[Place(b, 0 + i - 1)] \in S
    BY <1>1, Places DEF Holds
  <2>2. taken \in [1 .. n -> S]
    BY <1>2, <2>1
  <2>3. taken \in Seq(S) /\ DOMAIN taken = 1 .. n
    BY <1>1, <2>2
  <2> QED
    BY <1>1, <2>3
<1>8. \A i \in 1 .. b.len - n : Content(b)[n + i] = Content(c)[i]
  <2> TAKE i \in 1 .. b.len - n
  <2> DEFINE k == i - 1
             j == n + i
  <2>0. i \in Nat /\ i > 0 /\ i <= b.len - n
    BY <1>1
  <2>1. k \in 0 .. b.cap - n - 1 /\ j \in 1 .. b.len
    BY <1>1, <2>0
  <2>2. j - 1 = n + k
    BY <1>1, <2>0
  <2>3. Content(c)[i] = At(c, k)
    BY <1>5
  <2> HIDE DEF k, j
  <2>4. Content(b)[j] = At(b, n + k)
    BY <1>5, <2>1, <2>2
  <2>5. At(c, k) = At(b, n + k)
    BY <1>3, <2>1 DEF At
  <2> QED
    BY <2>3, <2>4, <2>5 DEF j
<1>9. Content(b) = taken \o Content(c)
  <2> DEFINE t == Content(c)
             u == Content(b)
  <2>1. /\ taken \in Seq(S) /\ t \in Seq(S) /\ u \in Seq(S) /\ Len(u) = Len(taken) + Len(t)
        /\ \A i \in 1 .. Len(taken) : u[i] = taken[i]
        /\ \A i \in 1 .. Len(t) : u[Len(taken) + i] = t[i]
    <3>1. b.len = n + (b.len - n)
      BY <1>1
    <3> QED
      BY <1>5, <1>6, <1>7, <1>8, <3>1, SMTT(60)
  <2> HIDE DEF t, u
  <2>2. u = taken \o t
    BY <2>1, Concat, SMTT(60)
  <2> QED
    BY <2>2 DEF t, u
<1> QED
  BY <1>3, <1>4, <1>9 DEF c, taken

\* Bytes that were written ahead of a gap are read in their place once the gap
\* is filled and they are committed: what process() does with a segment that
\* came before the one it follows.
THEOREM ReorderedBytesInPlace ==
  ASSUME NEW b, IsFifo(b), NEW S, Holds(b, S), NEW missing \in Seq(S), NEW ahead \in Seq(S),
         b.len + Len(missing) + Len(ahead) <= b.cap
  PROVE  LET filled == Write(WriteOffset(b, ahead, Len(missing)), missing)
         IN  Content(ConsumeWriteBuffer(filled, Len(ahead)))
               = (Content(b) \o missing) \o ahead
<1> DEFINE m == Len(missing)
           a == Len(ahead)
           w == WriteOffset(b, ahead, m)
           f == Write(w, missing)
           c == ConsumeWriteBuffer(f, a)
           l == b.len + m
<1>1. m \in Nat /\ a \in Nat /\ b.len \in Nat /\ b.cap \in Nat /\ b.len + m + a <= b.cap
  BY Fields
<1>2. /\ IsFifo(w) /\ Holds(w, S) /\ w.cap = b.cap /\ w.len = b.len
      /\ \A k : Place(w, k) = Place(b, k)
  BY <1>1, WriteOffsetIndices, WriteHolds
<1>3. Smaller(Len(ahead), b.cap - b.len - m) = a
  BY <1>1 DEF Smaller
<1>4. \A k \in l .. l + a - 1 : At(w, k) = ahead[k - l + 1]
  <2> TAKE k \in l .. l + a - 1
  <2>1. k \in 0 .. b.cap - 1 /\ k - b.len - m + 1 = k - l + 1
    BY <1>1, SMTT(60)
  <2>2. w.buf[Place(b, k)] = IF k \in l .. l + Smaller(Len(ahead), b.cap - b.len - m) - 1
                             THEN ahead[k - l + 1] ELSE b.buf[Place(b, k)]
    BY <1>1, <2>1, WrittenAt, SMTT(60)
  <2> QED
    BY <1>2, <1>3, <2>2 DEF At
<1>5. Smaller(Len(missing), w.cap - w.len) = m
  BY <1>1, <1>2 DEF Smaller
<1>6. SubSeq(missing, 1, m) = missing /\ Content(w) = Content(b)
  BY <1>1, EarlyBytesHidden
<1> HIDE DEF w
<1>7. IsFifo(f) /\ Holds(f, S) /\ f.cap = b.cap /\ f.len = l
  BY <1>2, <1>5, Written
<1>8. \A k \in l .. l + a - 1 : At(f, k) = ahead[k - l + 1]
  <2> TAKE k \in l .. l + a - 1
  <2>1. k \in 0 .. w.cap - 1 /\ k \notin w.len .. w.len + m - 1
    BY <1>1, <1>2, SMTT(60)
  <2>2. At(f, k) = At(w, k)
    BY <1>2, <1>5, <2>1, Written, SMTT(60)
  <2> QED
    BY <1>4, <2>2
<1>9. Content(f) = Content(b) \o missing
  BY <1>2, <1>5, <1>6, WriteAppends, Zenon DEF GetWriteRemaining
<1> HIDE DEF f, l, m, a
<1>10. l \in Nat /\ l + a <= b.cap
  BY <1>1, SMTT(60) DEF l
<1>11. a \in 0 .. GetWriteRemaining(f)
  BY <1>1, <1>7, <1>10, SMTT(60) DEF GetWriteRemaining
<1>12. IsFifo(c) /\ c.cap = b.cap /\ c.len = l + a /\ \A k : At(c, k) = At(f, k)
  BY <1>7, <1>11, Committed DEF At
<1>13. Holds(c, S)
  BY <1>7, <1>11, Committed DEF Holds
<1> HIDE DEF c
<1>14. /\ Content(f) \in Seq(S) /\ Len(Content(f)) = l
       /\ Content(c) \in Seq(S) /\ Len(Content(c)) = l + a
       /\ \A i \in 1 .. l : Content(f)[i] = At(f, i - 1)
       /\ \A i \in 1 .. l + a : Content(c)[i] = At(f, i - 1)
  BY <1>7, <1>12, <1>13, ContentIs, SMTT(60)
<1>15. \A i \in 1 .. l : Content(c)[i] = Content(f)[i]
  BY <1>1, <1>10, <1>14
<1>16. \A i \in 1 .. a : Content(c)[l + i] = ahead[i]
  <2> TAKE i \in 1 .. a
  <2> DEFINE k == l + i - 1
             j == l + i
  <2>1. j \in 1 .. l + a /\ j - 1 = k
    BY <1>1, <1>10
  <2>2. k \in l .. l + a - 1
    BY <1>1, <1>10
  <2>3. k - l + 1 = i
    BY <1>1, <1>10
  <2> HIDE DEF k, j
  <2>4. Content(c)[j] = At(f, k)
    BY <1>14, <2>1
  <2> QED
    BY <1>8, <2>2, <2>3, <2>4 DEF j
<1>17. Content(c) = Content(f) \o ahead
  <2> DEFINE s == Content(f)
             u == Content(c)
  <2>1. /\ s \in Seq(S) /\ u \in Seq(S) /\ Len(u) = Len(s) + Len(ahead)
        /\ \A i \in 1 .. Len(s) : u[i] = s[i]
        /\ \A i \in 1 .. Len(ahead) : u[Len(s) + i] = ahead[i]
    BY <1>14, <1>15, <1>16 DEF a
  <2> HIDE DEF s, u
  <2>2. u = s \o ahead
    BY <2>1, Concat, Zenon
  <2> QED
    BY <2>2 DEF s, u
<1> QED
  BY <1>9, <1>17 DEF c, f, w, a, m

\* SetCapacity keeps the readable bytes and their order, wherever in the old
\* array they began, and does nothing when they would not fit.
THEOREM CapacityKeepsContent ==
  ASSUME NEW b, IsFifo(b), NEW size \in Nat \ {0}
  PROVE  /\ IsFifo(SetCapacity(b, size))
         /\ Content(SetCapacity(b, size)) = Content(b)
<1> DEFINE c == SetCapacity(b, size)
<1>1. CASE b.len > size \/ size = b.cap
  BY <1>1 DEF SetCapacity
<1>2. CASE ~(b.len > size \/ size = b.cap)
  <2> DEFINE moved == [x \in 0 .. size - 1 |-> IF x < b.len THEN b.buf[Place(b, x)] ELSE Unwritten]
  <2>1. c = [cap |-> size, pos |-> 0, len |-> b.len, buf |-> moved]
    BY <1>2 DEF SetCapacity
  <2>2. b.len \in Nat /\ b.len <= size
    BY <1>2, Fields
  <2>3. moved = [x \in 0 .. size - 1 |-> moved[x]]
    OBVIOUS
  <2>4. \A i \in 1 .. b.len : moved[i - 1] = b.buf[Place(b, 0 + i - 1)]
    BY <2>2
  <2> HIDE DEF c, moved
  <2>5. c.cap = size /\ c.pos = 0 /\ c.len = b.len /\ c.buf = moved
    BY <2>1
  <2>6. IsFifo(c)
    BY <2>1, <2>2, <2>3, <2>5 DEF IsFifo
  <2>7. \A i \in 1 .. b.len : Place(c, 0 + i - 1) = i - 1
    BY <2>2, <2>5 DEF Place
  <2>8. Smaller(b.len, b.len - 0) = b.len
    BY <2>2 DEF Smaller
  <2>9. Content(c) = Content(b)
    BY <2>4, <2>5, <2>7, <2>8 DEF Content, ReadOffset
  <2> QED
    BY <2>6, <2>9 DEF c
<1> QED
  BY <1>1, <1>2

\* From the constructor on, whatever is called within the asserts of
\* ConsumeReadData and ConsumeWriteBuffer, the read position stays in the array
\* and no more is readable than it holds.
THEOREM IndicesStayInArray ==
  /\ \A size \in Nat \ {0} : IsFifo(NewFifo(size))
  /\ \A b : IsFifo(b) =>
       /\ \A n \in 0 .. GetBuffered(b) : IsFifo(ConsumeReadData(b, n))
       /\ \A n \in 0 .. GetWriteRemaining(b) : IsFifo(ConsumeWriteBuffer(b, n))
       /\ \A data, offset : IsFifo(WriteOffset(b, data, offset))
<1>1. ASSUME NEW size \in Nat \ {0} PROVE IsFifo(NewFifo(size))
  BY DEF IsFifo, NewFifo
<1>2. ASSUME NEW b, IsFifo(b), NEW n \in 0 .. GetBuffered(b) PROVE IsFifo(ConsumeReadData(b, n))
  BY <1>2, Consumed DEF GetBuffered
<1>3. ASSUME NEW b, IsFifo(b), NEW n \in 0 .. GetWriteRemaining(b)
      PROVE  IsFifo(ConsumeWriteBuffer(b, n))
  BY <1>3, Committed
<1>4. ASSUME NEW b, IsFifo(b), NEW data, NEW offset PROVE IsFifo(WriteOffset(b, data, offset))
  BY <1>4, WriteOffsetIndices
<1> QED
  BY <1>1, <1>2, <1>3, <1>4
===============================================================================
