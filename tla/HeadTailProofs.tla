---------------------------- MODULE HeadTailProofs ----------------------------
(***************************************************************************)
(* Head is the beginning of a stream and Tail its end, for rings and heads *)
(* of every size and every way of cutting the stream into chunks; and what *)
(* the tap of SSETap reports is what the two hold, for every stream.       *)
(***************************************************************************)
EXTENDS SSETap, TLAPS

\* How much of what was written has come to the ring.
Arrived == written - Len(p)

\* What Ring.Write still has to copy is the end of what was written.
ChunkInv ==
  /\ p \in Seq(Nat) /\ Arrived \in Nat
  /\ since \in Nat /\ turned \in Nat /\ written \in Nat
  /\ since <= turned /\ turned <= Arrived /\ written <= MaxBytes
  /\ \A i \in 1..Len(p) : p[i] = Arrived + i

\* The head holds the first bytes since the last Reset.
HeadInv ==
  /\ head \in Seq(Nat) /\ headSize \in HeadSizes
  /\ headN = Smaller(headSize, written - since)
  /\ \A i \in 1..headN : head[i] = since + i

\* Read from its position on, the ring holds the last bytes that came to it:
\* those before the position are the youngest, those after it a turn older.
RingInv ==
  /\ data \in Seq(Nat) /\ size \in TailSizes
  /\ pos \in 0..(size - 1) /\ full \in BOOLEAN
  /\ \A i \in 1..pos : data[i] = (Arrived - pos) + i
  /\ full => /\ size <= Arrived - turned
             /\ \A i \in (pos + 1)..size : data[i] = (Arrived - pos - size) + i
  /\ ~full => Arrived - turned = pos

EndsInv == ChunkInv /\ HeadInv /\ RingInv

-----------------------------------------------------------------------------
(***************************************************************************)
(* The operators on slabs.                                                 *)
(***************************************************************************)

\* Joining, byte by byte.
LEMMA ConcatFields ==
  ASSUME NEW s \in Seq(Nat), NEW t \in Seq(Nat)
  PROVE  /\ s \o t \in Seq(Nat) /\ Len(s \o t) = Len(s) + Len(t)
         /\ \A i \in 1..(Len(s) + Len(t)) : (s \o t)[i] =
              IF i <= Len(s) THEN s[i] ELSE t[i - Len(s)]
  OBVIOUS

\* Copying leaves a slab its length and replaces the bytes after at by those of
\* the source.
LEMMA CopyFields ==
  ASSUME NEW dst \in Seq(Nat), NEW at \in 0..Len(dst), NEW src \in Seq(Nat)
  PROVE  /\ Copied(dst, at, src) \in 0..(Len(dst) - at)
         /\ Copied(dst, at, src) <= Len(src)
         /\ Copied(dst, at, src) \in {Len(dst) - at, Len(src)}
         /\ Copy(dst, at, src) \in Seq(Nat)
         /\ Len(Copy(dst, at, src)) = Len(dst)
         /\ \A i \in 1..Len(dst) : Copy(dst, at, src)[i] =
              IF i <= at THEN dst[i]
              ELSE IF i <= at + Copied(dst, at, src) THEN src[i - at]
              ELSE dst[i]
<1> DEFINE n == Copied(dst, at, src)
           before == SubSeq(dst, 1, at)
           new    == SubSeq(src, 1, n)
           after  == SubSeq(dst, at + n + 1, Len(dst))
<1>1. n \in 0..(Len(dst) - at) /\ n <= Len(src) /\ n \in {Len(dst) - at, Len(src)}
  BY DEF Copied, Smaller
<1> HIDE DEF n
<1>2. /\ before \in Seq(Nat) /\ Len(before) = at
      /\ \A i \in 1..at : before[i] = dst[i]
  OBVIOUS
<1>3. /\ new \in Seq(Nat) /\ Len(new) = n
      /\ \A i \in 1..n : new[i] = src[i]
  BY <1>1
<1>4. /\ after \in Seq(Nat) /\ Len(after) = Len(dst) - at - n
      /\ \A i \in 1..Len(after) : after[i] = dst[at + n + i]
  BY <1>1
<1> HIDE DEF before, new, after
<1>5. /\ before \o new \in Seq(Nat) /\ Len(before \o new) = at + n
      /\ \A i \in 1..(at + n) : (before \o new)[i] =
           IF i <= at THEN dst[i] ELSE src[i - at]
  <2>1. /\ before \o new \in Seq(Nat) /\ Len(before \o new) = at + n
        /\ \A i \in 1..(at + n) : (before \o new)[i] =
             IF i <= at THEN before[i] ELSE new[i - at]
    BY <1>1, <1>2, <1>3, ConcatFields
  <2>2. ASSUME NEW i \in 1..(at + n), i > at PROVE new[i - at] = src[i - at]
    <3>1. i - at \in 1..n
      BY <1>1, <2>2
    <3> QED
      BY <1>3, <3>1
  <2>3. ASSUME NEW i \in 1..(at + n), i <= at PROVE before[i] = dst[i]
    BY <1>2, <2>3
  <2>4. ASSUME NEW i \in 1..(at + n)
        PROVE  (before \o new)[i] = IF i <= at THEN dst[i] ELSE src[i - at]
    <3>1. (before \o new)[i] = IF i <= at THEN before[i] ELSE new[i - at]
      BY <2>1
    <3>2. CASE i <= at
      BY <2>3, <3>1, <3>2
    <3>3. CASE ~(i <= at)
      <4>1. i > at
        BY <1>1, <3>3
      <4> QED
        BY <2>2, <3>1, <3>3, <4>1
    <3> QED
      BY <3>2, <3>3
  <2> QED
    BY <2>1, <2>4
<1> DEFINE front == before \o new
<1>6. /\ front \o after \in Seq(Nat) /\ Len(front \o after) = Len(dst)
      /\ \A i \in 1..Len(dst) : (front \o after)[i] =
           IF i <= at + n THEN front[i] ELSE after[i - (at + n)]
  <2>1. /\ front \in Seq(Nat) /\ Len(front) = at + n
    BY <1>5
  <2> HIDE DEF front
  <2>2. /\ front \o after \in Seq(Nat)
        /\ Len(front \o after) = Len(front) + Len(after)
        /\ \A i \in 1..(Len(front) + Len(after)) : (front \o after)[i] =
             IF i <= Len(front) THEN front[i] ELSE after[i - Len(front)]
    BY <1>4, <2>1, ConcatFields
  <2>3. Len(front) + Len(after) = Len(dst)
    BY <1>1, <1>4, <2>1
  <2> QED
    BY <2>1, <2>2, <2>3
<1> HIDE DEF front
<1>7. Copy(dst, at, src) = front \o after
  BY DEF Copy, front, n, before, new, after
<1>8. ASSUME NEW i \in 1..Len(dst)
      PROVE  (front \o after)[i] = IF i <= at THEN dst[i]
                                   ELSE IF i <= at + n THEN src[i - at] ELSE dst[i]
  <2>1. CASE i <= at + n
    BY <1>1, <1>5, <1>6, <2>1 DEF front
  <2>2. CASE i > at + n
    <3>1. after[i - (at + n)] = dst[i]
      BY <1>1, <1>4, <2>2
    <3>2. ~(i <= at + n) /\ ~(i <= at)
      BY <1>1, <2>2
    <3>3. (front \o after)[i] = after[i - (at + n)]
      BY <1>6, <3>2
    <3> QED
      BY <3>1, <3>2, <3>3
  <2>3. i <= at + n \/ i > at + n
    BY <1>1
  <2> QED
    BY <2>1, <2>2, <2>3
<1> QED
  BY <1>1, <1>6, <1>7, <1>8 DEF n

\* Reversing reads backwards.
LEMMA ReverseFields ==
  ASSUME NEW s \in Seq(Nat)
  PROVE  /\ Reverse(s) \in Seq(Nat) /\ Len(Reverse(s)) = Len(s)
         /\ \A i \in 1..Len(s) : Reverse(s)[i] = s[(Len(s) - i) + 1]
  BY DEF Reverse

\* The three reversals of Ring.Bytes turn the ring by its position.
LEMMA RotatedFields ==
  ASSUME data \in Seq(Nat), pos \in 0..size
  PROVE  /\ Rotated \in Seq(Nat) /\ Len(Rotated) = size
         /\ \A i \in 1..size : Rotated[i] =
              IF i <= size - pos THEN data[pos + i] ELSE data[i - (size - pos)]
<1> DEFINE young == SubSeq(data, 1, pos)
           old   == SubSeq(data, pos + 1, size)
<1>1. size \in Nat
  BY DEF size
<1>2. /\ young \in Seq(Nat) /\ Len(young) = pos
      /\ \A i \in 1..pos : young[i] = data[i]
  BY <1>1 DEF size
<1>3. /\ old \in Seq(Nat) /\ Len(old) = size - pos
      /\ \A i \in 1..(size - pos) : old[i] = data[pos + i]
  BY <1>1 DEF size
<1> HIDE DEF young, old
<1> DEFINE ry == Reverse(young)  ro == Reverse(old)
<1>4. /\ ry \in Seq(Nat) /\ Len(ry) = pos
      /\ \A i \in 1..pos : ry[i] = data[(pos - i) + 1]
  <2>1. /\ ry \in Seq(Nat) /\ Len(ry) = pos
        /\ \A i \in 1..pos : ry[i] = young[(pos - i) + 1]
    BY <1>2, ReverseFields
  <2>2. \A i \in 1..pos : (pos - i) + 1 \in 1..pos
    BY <1>1
  <2> QED
    BY <1>2, <2>1, <2>2
<1>5. /\ ro \in Seq(Nat) /\ Len(ro) = size - pos
      /\ \A i \in 1..(size - pos) : ro[i] = data[(size - i) + 1]
  <2>1. /\ ro \in Seq(Nat) /\ Len(ro) = size - pos
        /\ \A i \in 1..(size - pos) : ro[i] = old[(size - pos - i) + 1]
    <3>1. /\ ro \in Seq(Nat) /\ Len(ro) = Len(old)
          /\ \A i \in 1..Len(old) : ro[i] = old[(Len(old) - i) + 1]
      BY <1>3, ReverseFields
    <3> QED
      BY <1>3, <3>1
  <2>2. ASSUME NEW i \in 1..(size - pos) PROVE ro[i] = data[(size - i) + 1]
    <3>1. ro[i] = old[(size - pos - i) + 1]
      BY <2>1
    <3>2. (size - pos - i) + 1 \in 1..(size - pos)
      BY <1>1
    <3>3. old[(size - pos - i) + 1] = data[pos + ((size - pos - i) + 1)]
      BY <1>3, <3>2
    <3>4. pos + ((size - pos - i) + 1) = (size - i) + 1
      BY <1>1
    <3> QED
      BY <3>1, <3>3, <3>4
  <2> QED
    BY <2>1, <2>2
<1> HIDE DEF ry, ro
<1> DEFINE both == ry \o ro
<1>6. /\ both \in Seq(Nat) /\ Len(both) = size
      /\ \A i \in 1..size : both[i] = IF i <= pos THEN ry[i] ELSE ro[i - pos]
  <2>1. /\ both \in Seq(Nat) /\ Len(both) = Len(ry) + Len(ro)
        /\ \A i \in 1..(Len(ry) + Len(ro)) : both[i] =
             IF i <= Len(ry) THEN ry[i] ELSE ro[i - Len(ry)]
    BY <1>4, <1>5, ConcatFields
  <2>2. Len(ry) + Len(ro) = size
    BY <1>1, <1>4, <1>5
  <2> QED
    BY <1>4, <2>1, <2>2
<1>7. Rotated = Reverse(both)
  BY DEF Rotated, ry, ro, young, old
<1> HIDE DEF both
<1>8. /\ Rotated \in Seq(Nat) /\ Len(Rotated) = size
      /\ \A i \in 1..size : Rotated[i] = both[(size - i) + 1]
  BY <1>6, <1>7, ReverseFields
<1>9. ASSUME NEW i \in 1..size
      PROVE  Rotated[i] =
               IF i <= size - pos THEN data[pos + i] ELSE data[i - (size - pos)]
  <2>1. (size - i) + 1 \in 1..size
    BY <1>1
  <2>2. CASE i <= size - pos
    <3>1. (size - i) + 1 > pos /\ ((size - i) + 1) - pos \in 1..(size - pos)
      BY <1>1, <2>2
    <3>2. both[(size - i) + 1] = ro[((size - i) + 1) - pos]
      BY <1>1, <1>6, <2>1, <3>1
    <3>3. ro[((size - i) + 1) - pos] = data[(size - (((size - i) + 1) - pos)) + 1]
      BY <1>5, <3>1
    <3>4. (size - (((size - i) + 1) - pos)) + 1 = pos + i
      BY <1>1
    <3> QED
      BY <1>8, <2>2, <3>2, <3>3, <3>4
  <2>3. CASE i > size - pos
    <3>1. (size - i) + 1 \in 1..pos
      BY <1>1, <2>3
    <3>2. both[(size - i) + 1] = ry[(size - i) + 1]
      BY <1>1, <1>6, <2>1, <3>1
    <3>3. ry[(size - i) + 1] = data[(pos - ((size - i) + 1)) + 1]
      BY <1>4, <3>1
    <3>4. (pos - ((size - i) + 1)) + 1 = i - (size - pos)
      BY <1>1
    <3> QED
      BY <1>1, <1>8, <2>3, <3>2, <3>3, <3>4, SMTT(30)
  <2> QED
    BY <1>1, <2>2, <2>3
<1> QED
  BY <1>8, <1>9

\* A sequence of consecutive bytes.
LEMMA BytesFields ==
  ASSUME NEW a \in Nat, NEW n \in Nat
  PROVE  /\ Bytes(a, a + n) \in Seq(Nat) /\ Len(Bytes(a, a + n)) = n
         /\ \A i \in 1..n : Bytes(a, a + n)[i] = a + i
         /\ \A s \in Seq(Nat) :
              Len(s) = n /\ (\A i \in 1..n : s[i] = a + i) => s = Bytes(a, a + n)
<1>1. (a + n) - a = n
  OBVIOUS
<1>2. Bytes(a, a + n) = [i \in 1..n |-> a + i]
  BY <1>1 DEF Bytes
<1>3. ASSUME NEW s \in Seq(Nat), Len(s) = n, \A i \in 1..n : s[i] = a + i
      PROVE  s = [i \in 1..n |-> a + i]
  BY <1>3
<1> QED
  BY <1>2, <1>3

-----------------------------------------------------------------------------
(***************************************************************************)
(* The invariant.                                                          *)
(***************************************************************************)

LEMMA SizesFields ==
  ASSUME EndsInv
  PROVE  /\ headSize \in Nat /\ size \in Nat \ {0} /\ pos \in Nat
         /\ headN \in 0..headSize /\ written - since \in Nat
         /\ Len(p) \in Nat /\ (p = <<>> => Arrived = written)
<1>1. /\ p \in Seq(Nat) /\ written \in Nat /\ since \in Nat /\ turned \in Nat
      /\ Arrived \in Nat /\ since <= turned /\ turned <= Arrived
  BY DEF EndsInv, ChunkInv
<1>2. Len(p) \in Nat
  BY <1>1
<1>3. p = <<>> => Arrived = written
  BY <1>1 DEF Arrived
<1>4. written - since \in Nat
  BY <1>1, <1>2 DEF Arrived
<1>5. headSize \in Nat /\ headN \in 0..headSize
  BY <1>4, HeadAssumption DEF EndsInv, HeadInv, Smaller
<1>6. size \in Nat \ {0} /\ pos \in Nat
  <2>1. size \in TailSizes /\ pos \in 0..(size - 1)
    BY DEF EndsInv, RingInv
  <2> QED
    BY <2>1, TailAssumption
<1> QED
  BY <1>2, <1>3, <1>4, <1>5, <1>6

\* A ring that is empty, its position at its start.
LEMMA EmptyRing ==
  ASSUME data \in Seq(Nat), size \in TailSizes, size \in Nat \ {0},
         pos = 0, ~full, full \in BOOLEAN, Arrived - turned = 0
  PROVE  RingInv
<1>1. pos \in 0..(size - 1)
  BY DEF size
<1>2. \A i \in 1..pos : data[i] = (Arrived - pos) + i
  OBVIOUS
<1> QED
  BY <1>1, <1>2 DEF RingInv

LEMMA InitEndsInv == Init => EndsInv
<1> SUFFICES ASSUME Init PROVE EndsInv
  OBVIOUS
<1>1. \A n \in Nat : Slab(n) \in Seq(Nat) /\ Len(Slab(n)) = n
  BY DEF Slab
<1>2. head \in Seq(Nat) /\ headSize \in HeadSizes
  BY <1>1, HeadAssumption DEF Init, headSize
<1>3. data \in Seq(Nat) /\ size \in TailSizes
  BY <1>1, TailAssumption DEF Init, size
<1>4. Arrived = 0
  <2>1. written = 0 /\ Len(p) = 0
    BY DEF Init
  <2> QED
    BY <2>1 DEF Arrived
<1>5. ChunkInv
  BY <1>4, BoundAssumption DEF Init, ChunkInv
<1>6. HeadInv
  BY <1>2, HeadAssumption DEF Init, HeadInv, Smaller
<1>7. RingInv
  <2>1. pos = 0 /\ Arrived - turned = 0
    BY <1>4 DEF Init
  <2>2. ~full /\ full \in BOOLEAN
    BY Zenon DEF Init
  <2>3. size \in Nat \ {0}
    BY <1>3, TailAssumption
  <2> QED
    BY <1>3, <2>1, <2>2, <2>3, EmptyRing
<1> QED
  BY <1>5, <1>6, <1>7 DEF EndsInv

\* A chunk fills up what is left of the head, and nothing of it has come to the
\* ring yet.
LEMMA WriteEnds ==
  ASSUME EndsInv, NEW n \in 0..Smaller(MaxChunk, MaxBytes - written),
         Write(Bytes(written, written + n))
  PROVE  EndsInv'
<1> DEFINE chunk == Bytes(written, written + n)
<1>1. n \in Nat /\ written \in Nat /\ written + n <= MaxBytes
  BY BoundAssumption DEF EndsInv, ChunkInv, Smaller
<1>2. /\ chunk \in Seq(Nat) /\ Len(chunk) = n
      /\ \A i \in 1..n : chunk[i] = written + i
  BY <1>1, BytesFields
<1> HIDE DEF chunk
<1>3. /\ p = <<>> /\ p' = chunk /\ written' = written + n
      /\ UNCHANGED <<data, pos, full, since, turned>>
      /\ head' = IF headN < headSize THEN Copy(head, headN, chunk) ELSE head
      /\ headN' = IF headN < headSize
                  THEN headN + Copied(head, headN, chunk) ELSE headN
  BY <1>1, <1>2 DEF Write, chunk
<1>4. Arrived' = Arrived /\ Arrived = written
  BY <1>1, <1>2, <1>3, SizesFields DEF Arrived
<1>5. ChunkInv'
  BY <1>1, <1>2, <1>3, <1>4 DEF EndsInv, ChunkInv
<1>6. HeadInv'
  <2>1. /\ headSize \in Nat /\ headN \in 0..headSize /\ written - since \in Nat
        /\ since \in Nat
    BY SizesFields DEF EndsInv, ChunkInv
  <2>2. CASE headN < headSize
    <3> DEFINE k == Copied(head, headN, chunk)
    <3>1. /\ k = Smaller(headSize - headN, n)
      BY <1>2 DEF Copied, headSize
    <3>2. headN = written - since
      BY <2>1, <2>2 DEF EndsInv, HeadInv, Smaller
    <3>3. /\ k \in Nat /\ head' \in Seq(Nat) /\ Len(head') = headSize
          /\ \A i \in 1..headSize : head'[i] =
               IF i <= headN THEN head[i]
               ELSE IF i <= headN + k THEN chunk[i - headN] ELSE head[i]
      <4>1. head \in Seq(Nat) /\ headN \in 0..Len(head)
        BY <2>1 DEF EndsInv, HeadInv, headSize
      <4>2. /\ k \in Nat /\ Copy(head, headN, chunk) \in Seq(Nat)
            /\ Len(Copy(head, headN, chunk)) = Len(head)
            /\ \A i \in 1..Len(head) : Copy(head, headN, chunk)[i] =
                 IF i <= headN THEN head[i]
                 ELSE IF i <= headN + k THEN chunk[i - headN] ELSE head[i]
        BY <1>2, <4>1, CopyFields
      <4>3. head' = Copy(head, headN, chunk)
        BY <1>3, <2>2
      <4> QED
        BY <4>2, <4>3 DEF headSize
    <3> HIDE DEF k
    <3>4. headN' = headN + k /\ headN' = Smaller(headSize, written' - since')
      <4>1. headN' = headN + k
        BY <1>3, <2>2 DEF k
      <4>2. headN + k = Smaller(headSize, headN + n)
        BY <1>1, <2>1, <2>2, <3>1 DEF Smaller
      <4>3. written' - since' = headN + n
        BY <1>1, <1>3, <2>1, <3>2
      <4> QED
        BY <4>1, <4>2, <4>3
    <3>5. ASSUME NEW i \in 1..headN' PROVE head'[i] = since' + i
      <4>1. i \in 1..headSize /\ k <= n /\ k <= headSize - headN
        BY <1>1, <2>1, <3>1, <3>3, <3>4 DEF Smaller
      <4>2. CASE i <= headN
        <5>1. head'[i] = head[i] /\ i \in 1..headN
          BY <2>1, <3>3, <4>1, <4>2
        <5> QED
          BY <1>3, <5>1 DEF EndsInv, HeadInv
      <4>3. CASE i > headN
        <5>1. i - headN \in 1..n
          BY <2>1, <3>3, <3>4, <4>1, <4>3, <1>1
        <5>2. head'[i] = chunk[i - headN]
          BY <2>1, <3>3, <3>4, <4>1, <4>3
        <5>3. head'[i] = written + (i - headN)
          BY <1>2, <5>1, <5>2
        <5> QED
          BY <1>1, <1>3, <2>1, <3>2, <5>3
      <4> QED
        BY <2>1, <4>1, <4>2, <4>3
    <3>6. headSize' \in HeadSizes /\ headSize' = headSize
      BY <3>3 DEF EndsInv, HeadInv, headSize
    <3> QED
      BY <3>3, <3>4, <3>5, <3>6 DEF HeadInv
  <2>3. CASE ~(headN < headSize)
    <3>1. head' = head /\ headN' = headN /\ headSize' = headSize
      BY <1>3, <2>3 DEF headSize
    <3>2. headN' = Smaller(headSize', written' - since')
      BY <1>1, <1>3, <2>1, <2>3, <3>1 DEF EndsInv, HeadInv, Smaller
    <3> QED
      BY <1>3, <3>1, <3>2 DEF EndsInv, HeadInv
  <2> QED
    BY <2>2, <2>3
<1>7. RingInv'
  BY <1>3, <1>4 DEF EndsInv, RingInv, size
<1> QED
  BY <1>5, <1>6, <1>7 DEF EndsInv

\* A turn of the loop moves the beginning of the chunk to the position, over the
\* oldest bytes.
LEMMA TurnEnds ==
  ASSUME EndsInv, WriteTurn
  PROVE  EndsInv'
<1> DEFINE n == Copied(data, pos, p)
<1>1. /\ size \in Nat \ {0} /\ pos \in 0..(size - 1) /\ Len(p) \in Nat \ {0}
      /\ p \in Seq(Nat) /\ data \in Seq(Nat) /\ Arrived \in Nat /\ turned \in Nat
      /\ written \in Nat /\ Arrived = written - Len(p)
  BY SizesFields DEF EndsInv, ChunkInv, RingInv, WriteTurn, Arrived
<1>2. /\ n \in 1..(size - pos) /\ n <= Len(p)
      /\ n = size - pos \/ n = Len(p)
      /\ data' \in Seq(Nat) /\ size' = size
      /\ \A i \in 1..size : data'[i] =
           IF i <= pos THEN data[i]
           ELSE IF i <= pos + n THEN p[i - pos] ELSE data[i]
  <2>1. pos \in 0..Len(data) /\ pos < Len(data)
    BY <1>1 DEF size
  <2>2. n > 0
    BY <1>1, <2>1 DEF Copied, Smaller
  <2>3. /\ n \in 0..(Len(data) - pos) /\ n <= Len(p)
        /\ n \in {Len(data) - pos, Len(p)}
        /\ Copy(data, pos, p) \in Seq(Nat) /\ Len(Copy(data, pos, p)) = Len(data)
        /\ \A i \in 1..Len(data) : Copy(data, pos, p)[i] =
             IF i <= pos THEN data[i]
             ELSE IF i <= pos + n THEN p[i - pos] ELSE data[i]
    BY <1>1, <2>1, CopyFields
  <2>4. data' = Copy(data, pos, p)
    BY DEF WriteTurn
  <2>5. n \in 1..(size - pos)
    BY <1>1, <2>2, <2>3 DEF size
  <2> QED
    BY <2>3, <2>4, <2>5 DEF size
<1> HIDE DEF n
<1>3. /\ p' = SubSeq(p, n + 1, Len(p))
      /\ pos' = IF pos + n >= size THEN 0 ELSE pos + n
      /\ full' = (full \/ pos + n >= size)
      /\ UNCHANGED <<head, headN, written, since, turned>>
  BY DEF WriteTurn, Wraps, n
<1>4. /\ p' \in Seq(Nat) /\ Len(p') = Len(p) - n
      /\ \A i \in 1..Len(p') : p'[i] = p[n + i]
  BY <1>1, <1>2, <1>3
<1>5. Arrived' = Arrived + n
  <2>1. Arrived' = written - (Len(p) - n)
    BY <1>3, <1>4 DEF Arrived
  <2> QED
    BY <1>1, <1>2, <2>1
<1>6. ChunkInv'
  <2>1. ASSUME NEW i \in 1..Len(p') PROVE p'[i] = Arrived' + i
    <3>0. n \in Nat /\ Len(p) \in Nat /\ size \in Nat /\ pos \in Nat
      BY <1>1, <1>2
    <3>1. n + i \in 1..Len(p)
      <4>1. i \in 1..(Len(p) - n)
        BY <1>4
      <4> QED
        BY <3>0, <4>1
    <3>2. p[n + i] = Arrived + (n + i)
      BY <3>1 DEF EndsInv, ChunkInv
    <3>3. p'[i] = p[n + i]
      BY <1>4
    <3>4. Arrived + (n + i) = (Arrived + n) + i
      <4>1. Arrived \in Nat /\ i \in Nat
        BY <1>1, <1>4
      <4> QED
        BY <3>0, <4>1
    <3> QED
      BY <1>5, <3>2, <3>3, <3>4
  <2>2. turned <= Arrived'
    BY <1>1, <1>2, <1>5 DEF EndsInv, ChunkInv
  <2> QED
    BY <1>1, <1>2, <1>3, <1>4, <1>5, <2>1, <2>2 DEF EndsInv, ChunkInv
<1>7. HeadInv'
  BY <1>3 DEF EndsInv, HeadInv, headSize
<1>8. \A i \in 1..(pos + n) : data'[i] = (Arrived - pos) + i
  <2> SUFFICES ASSUME NEW i \in 1..(pos + n) PROVE data'[i] = (Arrived - pos) + i
    OBVIOUS
  <2>1. i \in 1..size
    BY <1>1, <1>2
  <2>2. CASE i <= pos
    BY <1>1, <1>2, <2>1, <2>2 DEF EndsInv, RingInv
  <2>3. CASE i > pos
    <3>1. i - pos \in 1..Len(p)
      BY <1>1, <1>2, <2>3
    <3>2. data'[i] = p[i - pos]
      BY <1>1, <1>2, <2>1, <2>3
    <3>3. p[i - pos] = Arrived + (i - pos)
      BY <3>1 DEF EndsInv, ChunkInv
    <3> QED
      BY <1>1, <2>1, <3>2, <3>3
  <2> QED
    BY <1>1, <2>1, <2>2, <2>3
<1>9. RingInv'
  <2>1. full \in BOOLEAN /\ size \in TailSizes
    BY DEF EndsInv, RingInv
  <2>2. CASE pos + n >= size
    <3>1. pos + n = size /\ pos' = 0 /\ full' = TRUE
      <4>1. pos + n = size
        BY <1>1, <1>2, <2>2
      <4>2. full' = (full \/ TRUE)
        BY <1>3, <2>2
      <4> QED
        BY <1>3, <2>2, <4>1, <4>2
    <3>2. Arrived' - turned' >= size
      BY <1>1, <1>2, <1>3, <1>5, <2>1, <3>1 DEF EndsInv, RingInv
    <3>3. ASSUME NEW i \in 1..size PROVE data'[i] = (Arrived' - pos' - size') + i
      <4>1. data'[i] = (Arrived - pos) + i
        BY <1>8, <3>1, <3>3
      <4>2. (Arrived' - pos' - size') + i = (Arrived - pos) + i
        BY <1>1, <1>2, <1>5, <3>1, <3>3
      <4> QED
        BY <4>1, <4>2
    <3> QED
      BY <1>1, <1>2, <2>1, <3>1, <3>2, <3>3 DEF RingInv
  <2>3. CASE ~(pos + n >= size)
    <3>1. pos' = pos + n /\ full' = full /\ pos' \in 0..(size - 1)
      BY <1>1, <1>2, <1>3, <2>1, <2>3, SMTT(30)
    <3>2. ASSUME NEW i \in 1..pos' PROVE data'[i] = (Arrived' - pos') + i
      BY <1>1, <1>2, <1>5, <1>8, <3>1
    <3>3. ASSUME full, NEW i \in (pos' + 1)..size
          PROVE  data'[i] = (Arrived' - pos' - size) + i
      <4>1. i \in 1..size /\ i \in (pos + 1)..size /\ ~(i <= pos) /\ ~(i <= pos + n)
        BY <1>1, <1>2, <3>1
      <4>2. data'[i] = data[i]
        BY <1>2, <4>1
      <4>3. data[i] = (Arrived - pos - size) + i
        BY <3>3, <4>1 DEF EndsInv, RingInv
      <4> QED
        BY <1>1, <1>2, <1>5, <3>1, <4>1, <4>2, <4>3
    <3>4. full => size <= Arrived' - turned'
      BY <1>1, <1>2, <1>3, <1>5 DEF EndsInv, RingInv
    <3>5. ~full => Arrived' - turned' = pos'
      BY <1>1, <1>2, <1>3, <1>5, <3>1 DEF EndsInv, RingInv
    <3> QED
      BY <1>2, <2>1, <3>1, <3>2, <3>3, <3>4, <3>5 DEF RingInv
  <2> QED
    BY <2>2, <2>3
<1> QED
  BY <1>6, <1>7, <1>9 DEF EndsInv

\* What Tail returns, and the order in which it leaves the ring.
LEMMA TailReturns ==
  ASSUME EndsInv, TailBytes
  PROVE  LET n == Smaller(size, written - turned) IN
         got' = Bytes(written - n, written)
<1> DEFINE n == Smaller(size, written - turned)
<1>1. /\ p = <<>> /\ Arrived = written /\ size \in Nat \ {0} /\ pos \in 0..(size - 1)
      /\ data \in Seq(Nat) /\ written \in Nat /\ turned \in Nat /\ turned <= written
  BY SizesFields DEF EndsInv, ChunkInv, RingInv, TailBytes
<1>2. CASE full
  <2>1. n = size /\ size <= written
    BY <1>1, <1>2 DEF EndsInv, RingInv, Smaller
  <2>2. /\ Rotated \in Seq(Nat) /\ Len(Rotated) = size
        /\ \A i \in 1..size : Rotated[i] =
             IF i <= size - pos THEN data[pos + i] ELSE data[i - (size - pos)]
    BY <1>1, RotatedFields, SMTT(30)
  <2>3. ASSUME NEW i \in 1..size PROVE Rotated[i] = (written - size) + i
    <3>1. CASE i <= size - pos
      <4>1. pos + i \in (pos + 1)..size
        BY <1>1, <3>1
      <4>2. data[pos + i] = (Arrived - pos - size) + (pos + i)
        BY <1>2, <4>1 DEF EndsInv, RingInv
      <4> QED
        BY <1>1, <2>2, <3>1, <4>2
    <3>2. CASE i > size - pos
      <4>1. i - (size - pos) \in 1..pos /\ ~(i <= size - pos)
        BY <1>1, <3>2
      <4>2. data[i - (size - pos)] = (Arrived - pos) + (i - (size - pos))
        BY <4>1 DEF EndsInv, RingInv
      <4> QED
        BY <1>1, <2>2, <4>1, <4>2
    <3> QED
      BY <1>1, <3>1, <3>2
  <2>4. written - size \in Nat /\ (written - size) + size = written
    BY <1>1, <2>1
  <2>5. Rotated = Bytes(written - size, (written - size) + size)
    BY <1>1, <2>2, <2>3, <2>4, BytesFields
  <2>6. got' = Rotated
    BY <1>2 DEF TailBytes
  <2> QED
    BY <2>1, <2>4, <2>5, <2>6
<1>3. CASE ~full
  <2>1. n = pos /\ pos <= written /\ written - turned = pos
    BY <1>1, <1>3 DEF EndsInv, RingInv, Smaller
  <2> DEFINE s == SubSeq(data, 1, pos)
  <2>2. /\ s \in Seq(Nat) /\ Len(s) = pos
        /\ \A i \in 1..pos : s[i] = data[i]
    BY <1>1 DEF size
  <2>3. \A i \in 1..pos : data[i] = (written - pos) + i
    BY <1>1 DEF EndsInv, RingInv
  <2>4. written - pos \in Nat /\ (written - pos) + pos = written
    BY <1>1, <2>1
  <2>5. got' = s
    BY <1>3 DEF TailBytes
  <2> HIDE DEF s
  <2>6. s = Bytes(written - pos, (written - pos) + pos)
    <3> DEFINE a == written - pos
    <3>1. a \in Nat /\ pos \in Nat /\ \A i \in 1..pos : s[i] = a + i
      BY <1>1, <2>2, <2>3, <2>4
    <3> HIDE DEF a
    <3>2. s = Bytes(a, a + pos)
      BY <2>2, <3>1, BytesFields
    <3> QED
      BY <3>2 DEF a
  <2> QED
    BY <2>1, <2>4, <2>5, <2>6
<1> QED
  BY <1>2, <1>3 DEF EndsInv, RingInv

LEMMA TailEnds ==
  ASSUME EndsInv, TailBytes
  PROVE  EndsInv'
<1>1. /\ p = <<>> /\ Arrived = written /\ written \in Nat
      /\ UNCHANGED <<head, headN, p, written, since>>
  BY SizesFields DEF EndsInv, ChunkInv, TailBytes
<1>2. Arrived' = Arrived
  BY <1>1 DEF Arrived
<1>3. HeadInv'
  BY <1>1 DEF EndsInv, HeadInv, headSize
<1>4. CASE full
  <2>1. data' = Rotated /\ pos' = 0 /\ full' = FALSE /\ turned' = written
    BY <1>4 DEF TailBytes
  <2>2. data' \in Seq(Nat) /\ size' = size /\ size \in Nat \ {0} /\ size \in TailSizes
    <3>1. /\ pos \in 0..size /\ data \in Seq(Nat)
          /\ size \in TailSizes /\ size \in Nat \ {0}
      BY SizesFields DEF EndsInv, RingInv
    <3> QED
      BY <2>1, <3>1, RotatedFields DEF size
  <2>3. RingInv'
    <3>1. Arrived' - turned' = 0 /\ pos' = 0
      BY <1>1, <1>2, <2>1
    <3>2. ~full' /\ full' \in BOOLEAN
      BY <2>1, Zenon
    <3> QED
      BY <2>2, <3>1, <3>2 DEF RingInv
  <2>4. ChunkInv'
    BY <1>1, <1>2, <2>1 DEF EndsInv, ChunkInv
  <2> QED
    BY <1>3, <2>3, <2>4 DEF EndsInv
<1>5. CASE ~full
  <2>1. UNCHANGED <<data, pos, full, turned>>
    BY <1>5 DEF TailBytes
  <2> QED
    BY <1>1, <1>2, <1>3, <2>1 DEF EndsInv, ChunkInv, RingInv, size
<1> QED
  BY <1>4, <1>5 DEF EndsInv, RingInv

LEMMA ResetEnds ==
  ASSUME EndsInv, Reset
  PROVE  EndsInv'
<1>1. /\ p = <<>> /\ Arrived = written /\ written \in Nat
      /\ headSize \in Nat /\ size \in Nat \ {0}
  BY SizesFields DEF EndsInv, ChunkInv, Reset
<1>2. /\ headN' = 0 /\ pos' = 0 /\ full' = FALSE
      /\ since' = written /\ turned' = written
      /\ UNCHANGED <<head, data, p, written>>
  BY DEF Reset
<1>3. Arrived' = written /\ headSize' = headSize /\ size' = size
  BY <1>1, <1>2 DEF Arrived, headSize, size
<1>4. ChunkInv'
  BY <1>1, <1>2, <1>3 DEF EndsInv, ChunkInv
<1>5. HeadInv'
  BY <1>1, <1>2, <1>3 DEF EndsInv, HeadInv, Smaller
<1>6. RingInv'
  <2>1. Arrived' - turned' = 0 /\ pos' = 0
    BY <1>1, <1>2, <1>3
  <2>2. data' \in Seq(Nat) /\ size' \in TailSizes /\ size' \in Nat \ {0}
    BY <1>1, <1>2, <1>3 DEF EndsInv, RingInv
  <2>3. ~full' /\ full' \in BOOLEAN
    BY <1>2, Zenon
  <2> QED
    BY <2>1, <2>2, <2>3 DEF RingInv, size
<1> QED
  BY <1>4, <1>5, <1>6 DEF EndsInv

\* The head holds the beginning.
LEMMA HeadHeld == EndsInv => HeadIsBeginning
<1> SUFFICES ASSUME EndsInv PROVE HeadIsBeginning
  OBVIOUS
<1>1. /\ headN \in Nat /\ headN <= Len(head) /\ head \in Seq(Nat) /\ since \in Nat
      /\ headN = Smaller(headSize, written - since)
      /\ \A i \in 1..headN : head[i] = since + i
  BY SizesFields DEF EndsInv, ChunkInv, HeadInv, headSize
<1>2. /\ HeadBytes \in Seq(Nat) /\ Len(HeadBytes) = headN
      /\ \A i \in 1..headN : HeadBytes[i] = since + i
  BY <1>1 DEF HeadBytes
<1>3. HeadBytes = Bytes(since, since + headN)
  BY <1>1, <1>2, BytesFields
<1> QED
  BY <1>1, <1>3 DEF HeadIsBeginning

LEMMA NextEndsInv == EndsInv /\ [Next]_vars => EndsInv'
<1> SUFFICES ASSUME EndsInv, [Next]_vars PROVE EndsInv'
  OBVIOUS
<1>1. CASE UNCHANGED vars
  BY <1>1 DEF vars, EndsInv, ChunkInv, HeadInv, RingInv, Arrived, headSize, size
<1> QED
  BY <1>1, WriteEnds, TurnEnds, TailEnds, ResetEnds DEF Next

-----------------------------------------------------------------------------
(***************************************************************************)
(* Theorems.                                                               *)
(***************************************************************************)

\* Whatever is written, the position stays inside the ring and the fill of the
\* head inside the head (buffer.go, Ring.Write and HeadTail.Write).
THEOREM TypeCorrect == Spec => []TypeOK
<1>1. EndsInv => TypeOK
  <2> SUFFICES ASSUME EndsInv PROVE TypeOK
    OBVIOUS
  <2>1. turned <= written
    BY SizesFields DEF EndsInv, ChunkInv, Arrived
  <2> QED
    BY <2>1, SizesFields DEF EndsInv, ChunkInv, HeadInv, RingInv, TypeOK
<1> QED
  BY <1>1, InitEndsInv, NextEndsInv, PTL DEF Spec

\* HeadTail.Head returns the first bytes written since the last Reset, as many
\* as there are and fit (buffer.go, HeadTail.Write and Head).
THEOREM HeadIsBeginningCorrect == Spec => []HeadIsBeginning
  BY HeadHeld, InitEndsInv, NextEndsInv, PTL DEF Spec

\* HeadTail.Tail returns the last bytes written, oldest first, for a ring of any
\* size and chunks of any size (buffer.go, Ring.Write and Ring.Bytes).
THEOREM TailIsEndCorrect == Spec => TailIsEnd
<1> DEFINE Step == TailBytes => LET n == Smaller(size, written - turned) IN
                                got' = Bytes(written - n, written)
<1>1. EndsInv /\ [Next]_vars => [Step]_vars
  BY TailReturns
<1> QED
  BY <1>1, InitEndsInv, NextEndsInv, PTL DEF Spec, TailIsEnd

-----------------------------------------------------------------------------
(***************************************************************************)
(* The tap.                                                                *)
(***************************************************************************)

\* The two slices that extractUsage was given.
SlicesInv ==
  /\ body \in Streams /\ line \in 1..(Len(body) + 1)
  /\ since \in Nat /\ headSize \in Nat /\ size \in Nat
  /\ written = since + Total(body)
  /\ HeadBytes = Bytes(since, since + Smaller(headSize, Total(body)))
  /\ got = Bytes(written - Smaller(size, Total(body)), written)

\* What the lines scanned so far have given.
HeadScanInv ==
  /\ FirstReport(input, Started(line - 1), Ins)
  /\ output = 0
  /\ line > 1 /\ InHead(line - 1) /\ body[line - 1].kind \in Events
       => curEvent = body[line - 1].kind
TailScanInv ==
  /\ \/ input # 0 /\ FirstReport(input, Started(Len(body)), Ins)
     \/ /\ FirstReport(0, Started(Len(body)), Ins)
        /\ FirstReport(input, Used(line - 1), Ins)
  /\ FirstReport(output, Used(line - 1), Outs)

ScanInv ==
  /\ phase \in {"no", "head", "tail", "done"}
  /\ phase # "no" => SlicesInv
  /\ phase = "head" => HeadScanInv
  /\ phase \in {"tail", "done"} => TailScanInv
  /\ phase = "done" => line = Len(body) + 1

\* The lines of a stream lie one after the other.
LEMMA LinesLaid ==
  ASSUME NEW s \in Streams
  PROVE  /\ s \in Seq(Line) /\ Total(s) \in Nat
         /\ \A k \in 1..Len(s) :
              /\ Before(s, k) \in Nat /\ s[k].end \in Nat
              /\ Before(s, k) < s[k].end /\ s[k].end <= Total(s)
              /\ s[k].in \in Nat /\ s[k].out \in Nat
              /\ s[k].kind = "start" =>
                   k > 1 /\ s[k - 1].kind = "event: message_start"
<1>1. s \in Seq(Line) /\ Len(s) \in Nat
  <2>1. s \in Seq(Line)
    BY StreamsAssumption, Zenon
  <2> QED
    BY <2>1
<1>2. ASSUME NEW k \in 1..Len(s)
      PROVE  s[k].end \in Nat /\ s[k].in \in Nat /\ s[k].out \in Nat
  <2>1. s[k] \in Line
    BY <1>1
  <2> QED
    BY <2>1 DEF Line
<1>3. ASSUME NEW k \in 1..(Len(s) + 1) PROVE Before(s, k) \in Nat
  <2>1. CASE k = 1
    BY <2>1 DEF Before
  <2>2. CASE k # 1
    <3>1. k - 1 \in 1..Len(s)
      BY <1>1, <2>2
    <3> QED
      BY <1>2, <2>2, <3>1 DEF Before
  <2> QED
    BY <2>1, <2>2
<1>4. Total(s) \in Nat
  <2>1. Len(s) + 1 \in 1..(Len(s) + 1)
    BY <1>1
  <2> QED
    BY <1>3, <2>1 DEF Total
<1>5. ASSUME NEW k \in 1..Len(s)
      PROVE  /\ \A j \in 1..k : Before(s, j) < s[k].end
             /\ s[k].kind = "start" =>
                  k > 1 /\ s[k - 1].kind = "event: message_start"
  BY StreamsAssumption
<1>6. ASSUME NEW k \in 1..Len(s) PROVE s[k].end <= Total(s)
  <2>1. Total(s) = s[Len(s)].end
    <3>1. Len(s) + 1 # 1 /\ (Len(s) + 1) - 1 = Len(s)
      BY <1>1
    <3> QED
      BY <3>1 DEF Total, Before
  <2>2. CASE k = Len(s)
    BY <1>2, <2>1, <2>2
  <2>3. CASE k # Len(s)
    <3>1. k + 1 \in 1..Len(s) /\ Len(s) \in 1..Len(s)
      BY <1>1, <2>3
    <3>2. Before(s, k + 1) < s[Len(s)].end
      BY <1>5, <3>1
    <3>3. Before(s, k + 1) = s[k].end
      <4>1. k + 1 # 1 /\ (k + 1) - 1 = k
        BY <1>1
      <4> QED
        BY <4>1 DEF Before
    <3> QED
      BY <1>2, <2>1, <3>1, <3>2, <3>3
  <2> QED
    BY <2>2, <2>3
<1>7. ASSUME NEW k \in 1..Len(s) PROVE Before(s, k) \in Nat /\ Before(s, k) < s[k].end
  <2>1. k \in 1..k /\ k \in 1..(Len(s) + 1)
    BY <1>1
  <2> QED
    BY <1>3, <1>5, <2>1
<1> QED
  BY <1>1, <1>2, <1>4, <1>5, <1>6, <1>7

\* A line is found whole in a slice of the stream if it begins and ends in it.
LEMMA WholeIn ==
  ASSUME body \in Streams, since \in Nat, NEW k \in 1..Len(body),
         NEW a \in Nat, NEW b \in Nat, a <= b
  PROVE  Whole(Bytes(a, b), k)
           <=> a <= since + Before(body, k) /\ since + body[k].end <= b
<1> DEFINE from  == Before(body, k)
           to    == body[k].end
           n     == to - from
           slice == Bytes(a, b)
<1>1. from \in Nat /\ to \in Nat /\ from < to /\ n \in Nat /\ n >= 1
  <2>1. from \in Nat /\ to \in Nat /\ from < to
    BY LinesLaid
  <2> QED
    BY <2>1
<1>2. Len(slice) = b - a /\ \A i \in 1..(b - a) : slice[i] = a + i
  BY DEF Bytes
<1>3. Whole(slice, k) <=> \E i \in 0..(Len(slice) - n) :
                            \A j \in 1..n : slice[i + j] = since + from + j
  BY DEF Whole
<1> HIDE DEF from, to, slice
<1>4. ASSUME Whole(slice, k) PROVE a <= since + from /\ since + to <= b
  <2>1. PICK i \in 0..(Len(slice) - n) :
               \A j \in 1..n : slice[i + j] = since + from + j
    BY <1>3, <1>4
  <2>2. 1 \in 1..n /\ i + 1 \in 1..(b - a)
    BY <1>1, <1>2
  <2>3. slice[i + 1] = since + from + 1 /\ slice[i + 1] = a + (i + 1)
    BY <1>2, <2>1, <2>2
  <2>4. since + from = a + i /\ i \in Nat /\ i + n <= b - a
    BY <1>1, <1>2, <2>3
  <2> QED
    BY <1>1, <2>4
<1>5. ASSUME a <= since + from, since + to <= b PROVE Whole(slice, k)
  <2> DEFINE i == (since + from) - a
  <2>1. i \in 0..(Len(slice) - n)
    BY <1>1, <1>2, <1>5
  <2>2. ASSUME NEW j \in 1..n PROVE slice[i + j] = since + from + j
    <3>1. i + j \in 1..(b - a)
      BY <1>1, <1>2, <2>1
    <3>2. a + (i + j) = since + from + j
      BY <1>1
    <3> QED
      BY <1>2, <3>1, <3>2
  <2> HIDE DEF i
  <2> QED
    BY <1>3, <2>1, <2>2
<1> QED
  BY <1>4, <1>5 DEF from, to, slice

\* scanLines finds in the head and in the tail exactly the lines they hold.
LEMMA HeldLines ==
  ASSUME SlicesInv, NEW k \in 1..Len(body)
  PROVE  /\ Whole(HeadBytes, k) <=> InHead(k)
         /\ Whole(got, k) <=> InTail(k)
<1> DEFINE T == Total(body)
<1>1. /\ body \in Streams /\ since \in Nat /\ headSize \in Nat /\ size \in Nat
      /\ written = since + T
  BY DEF SlicesInv
<1>2. /\ T \in Nat /\ Before(body, k) \in Nat /\ body[k].end \in Nat
      /\ Before(body, k) < body[k].end /\ body[k].end <= T
  BY <1>1, LinesLaid
<1> HIDE DEF T
<1>3. Whole(HeadBytes, k) <=> InHead(k)
  <2> DEFINE b == since + Smaller(headSize, T)
  <2>1. b \in Nat /\ since <= b
    BY <1>1, <1>2 DEF Smaller
  <2>2. HeadBytes = Bytes(since, b)
    BY DEF SlicesInv, T
  <2>3. since + body[k].end <= b <=> body[k].end <= headSize
    BY <1>1, <1>2 DEF Smaller
  <2>4. since <= since + Before(body, k)
    BY <1>1, <1>2
  <2> HIDE DEF b
  <2>5. Whole(HeadBytes, k)
          <=> since <= since + Before(body, k) /\ since + body[k].end <= b
    BY <1>1, <2>1, <2>2, WholeIn
  <2> QED
    BY <2>3, <2>4, <2>5 DEF InHead
<1>4. Whole(got, k) <=> InTail(k)
  <2> DEFINE a == written - Smaller(size, T)
  <2>1. a \in Nat /\ written \in Nat /\ a <= written
    BY <1>1, <1>2 DEF Smaller
  <2>2. got = Bytes(a, written)
    BY DEF SlicesInv, T
  <2>3. a <= since + Before(body, k) <=> Before(body, k) + size >= T
    BY <1>1, <1>2 DEF Smaller
  <2>4. since + body[k].end <= written
    BY <1>1, <1>2
  <2> HIDE DEF a
  <2>5. Whole(got, k) <=> a <= since + Before(body, k) /\ since + body[k].end <= written
    BY <1>1, <2>1, <2>2, WholeIn
  <2> QED
    BY <2>3, <2>4, <2>5 DEF InTail, T
<1> QED
  BY <1>3, <1>4

\* One more line has been scanned, ...
LEMMA OneMore ==
  ASSUME NEW n \in Nat \ {0}
  PROVE  /\ Started(n - 1) \in SUBSET (1..(n - 1)) /\ Used(n - 1) \in SUBSET (1..(n - 1))
         /\ body[n].kind = "start" /\ InHead(n) => Started(n) = Started(n - 1) \cup {n}
         /\ ~(body[n].kind = "start" /\ InHead(n)) => Started(n) = Started(n - 1)
         /\ body[n].kind = "usage" /\ InTail(n) => Used(n) = Used(n - 1) \cup {n}
         /\ ~(body[n].kind = "usage" /\ InTail(n)) => Used(n) = Used(n - 1)
<1>1. \A k : k \in 1..n <=> k \in 1..(n - 1) \/ k = n
  OBVIOUS
<1>2. /\ body[n].kind = "start" /\ InHead(n) => Started(n) = Started(n - 1) \cup {n}
      /\ ~(body[n].kind = "start" /\ InHead(n)) => Started(n) = Started(n - 1)
  BY <1>1 DEF Started
<1>3. /\ body[n].kind = "usage" /\ InTail(n) => Used(n) = Used(n - 1) \cup {n}
      /\ ~(body[n].kind = "usage" /\ InTail(n)) => Used(n) = Used(n - 1)
  BY <1>1 DEF Used
<1>4. Started(n - 1) \in SUBSET (1..(n - 1)) /\ Used(n - 1) \in SUBSET (1..(n - 1))
  BY DEF Started, Used
<1> QED
  BY <1>2, <1>3, <1>4

\* ... and reports something if nothing was known.
LEMMA OneMoreReport ==
  ASSUME NEW n \in Nat \ {0}, NEW K \in SUBSET (1..(n - 1)), NEW tokens, NEW v,
         FirstReport(v, K, tokens)
  PROVE  FirstReport(IF v = 0 THEN tokens[n] ELSE v, K \cup {n}, tokens)
<1>1. \A k \in K : k \in Nat /\ k < n
  OBVIOUS
<1>2. CASE v = 0
  <2>1. \A k \in K : tokens[k] = 0
    BY <1>2 DEF FirstReport
  <2>2. CASE tokens[n] = 0
    BY <1>2, <2>1, <2>2 DEF FirstReport
  <2>3. CASE tokens[n] # 0
    <3>1. \A j \in K \cup {n} : j < n => tokens[j] = 0
      BY <2>1
    <3> QED
      BY <1>2, <2>3, <3>1 DEF FirstReport
  <2> QED
    BY <2>2, <2>3
<1>3. CASE v # 0
  <2>1. PICK k \in K : tokens[k] = v /\ \A j \in K : j < k => tokens[j] = 0
    BY <1>3 DEF FirstReport
  <2>2. \A j \in K \cup {n} : j < k => tokens[j] = 0
    BY <1>1, <2>1
  <2> QED
    BY <1>3, <2>1, <2>2 DEF FirstReport
<1> QED
  BY <1>2, <1>3

\* What the scan does not touch.
LEMMA SlicesKept ==
  ASSUME SlicesInv, UNCHANGED <<vars, body>>, line' \in 1..(Len(body) + 1)
  PROVE  SlicesInv' /\ headSize' = headSize /\ size' = size
<1>1. /\ headSize' = headSize /\ size' = size /\ HeadBytes' = HeadBytes
      /\ Total(body)' = Total(body) /\ UNCHANGED <<got, since, written, body>>
  BY DEF vars, headSize, size, HeadBytes, Total, Before
<1> QED
  BY <1>1 DEF SlicesInv

\* At EOF the buffer hands out the beginning and the end of the stream.
LEMMA TapEndsScan ==
  ASSUME EndsInv, NEW s \in Streams, TapEnds(s)
  PROVE  ScanInv'
<1>1. /\ body' = s /\ line' = 1 /\ phase' = "head" /\ input' = 0 /\ output' = 0
      /\ UNCHANGED <<head, headN, written, since>>
      /\ turned = since /\ written - since = Total(s) /\ TailBytes
  BY DEF TapEnds, TailBytes
<1>2. /\ Total(s) \in Nat /\ Len(s) \in Nat
      /\ since \in Nat /\ written \in Nat /\ written = since + Total(s)
  <2>1. Total(s) \in Nat /\ Len(s) \in Nat
    <3>1. Total(s) \in Nat /\ s \in Seq(Line)
      BY LinesLaid
    <3> QED
      BY <3>1
  <2>2. since \in Nat /\ written \in Nat
    BY DEF EndsInv, ChunkInv
  <2> QED
    BY <1>1, <2>1, <2>2
<1>3. EndsInv'
  BY <1>1, TailEnds
<1>4. headSize' \in Nat /\ size' \in Nat /\ size' = size /\ headSize' = headSize
  <2>1. headSize \in Nat /\ size \in Nat
    BY SizesFields DEF EndsInv, HeadInv, RingInv
  <2>2. Len(data') = Len(data)
    <3>1. CASE full
      <4>1. data \in Seq(Nat) /\ pos \in 0..size
        BY SizesFields DEF EndsInv, RingInv
      <4>2. Len(Rotated) = size
        BY <4>1, RotatedFields
      <4> QED
        BY <1>1, <3>1, <4>2 DEF TailBytes, size
    <3>2. CASE ~full
      BY <1>1, <3>2 DEF TailBytes
    <3> QED
      BY <3>1, <3>2 DEF EndsInv, RingInv
  <2> QED
    BY <1>1, <2>1, <2>2 DEF headSize, size
<1>5. Total(body)' = Total(s)
  BY <1>1 DEF Total, Before
<1>6. HeadBytes' = Bytes(since', since' + Smaller(headSize', Total(body)'))
  <2>1. HeadBytes = Bytes(since, since + Smaller(headSize, written - since))
    BY HeadHeld DEF HeadIsBeginning
  <2>2. HeadBytes' = HeadBytes
    BY <1>1 DEF HeadBytes
  <2>3. Smaller(headSize', Total(body)') = Smaller(headSize, written - since)
    BY <1>1, <1>4, <1>5
  <2> QED
    BY <1>1, <2>1, <2>2, <2>3
<1>7. got' = Bytes(written' - Smaller(size', Total(body)'), written')
  <2>1. got' = Bytes(written - Smaller(size, written - turned), written)
    BY <1>1, TailReturns
  <2>2. Smaller(size', Total(body)') = Smaller(size, written - turned)
    BY <1>1, <1>4, <1>5
  <2> QED
    BY <1>1, <2>1, <2>2
<1>8. SlicesInv'
  BY <1>1, <1>2, <1>4, <1>5, <1>6, <1>7 DEF SlicesInv
<1>9. HeadScanInv'
  <2>1. Started(line - 1)' = {}
    BY <1>1 DEF Started
  <2> QED
    BY <1>1, <2>1 DEF HeadScanInv, FirstReport
<1> QED
  BY <1>1, <1>8, <1>9 DEF ScanInv

\* A line of the head: the event line before message_start's data is in the
\* head whenever the data is.
LEMMA HeadTurnScan ==
  ASSUME ScanInv, HeadTurn
  PROVE  ScanInv'
<1>1. /\ phase = "head" /\ line <= Len(body) /\ line' = line + 1
      /\ UNCHANGED <<vars, phase, body>>
      /\ IF Whole(HeadBytes, line) THEN ScanHead(body[line])
                                   ELSE UNCHANGED <<curEvent, input, output>>
  BY DEF HeadTurn, Turn
<1>2. SlicesInv /\ HeadScanInv
  BY <1>1 DEF ScanInv
<1>3. /\ line \in 1..Len(body) /\ Len(body) \in Nat /\ body \in Streams
      /\ line' \in 1..(Len(body) + 1)
  <2>1. body \in Streams /\ line \in 1..(Len(body) + 1)
    BY <1>2 DEF SlicesInv
  <2>2. body \in Seq(Line)
    BY <2>1, LinesLaid
  <2> QED
    BY <1>1, <2>1, <2>2
<1>4. SlicesInv' /\ headSize' = headSize /\ body' = body
  BY <1>1, <1>2, <1>3, SlicesKept
<1>5. Whole(HeadBytes, line) <=> InHead(line)
  BY <1>2, <1>3, HeldLines
<1>6. /\ Started(line - 1) \in SUBSET (1..(line - 1))
      /\ body[line].kind = "start" /\ InHead(line)
           => Started(line) = Started(line - 1) \cup {line}
      /\ ~(body[line].kind = "start" /\ InHead(line)) => Started(line) = Started(line - 1)
  BY <1>3, OneMore
<1>7. line' - 1 = line
  BY <1>1, <1>3
<1>8. Started(line - 1)' = Started(line) /\ Ins' = Ins
  BY <1>4, <1>7 DEF Started, InHead, Ins
<1>9. FirstReport(input', Started(line), Ins)
  <2>1. FirstReport(input, Started(line - 1), Ins)
    BY <1>2 DEF HeadScanInv
  <2>2. CASE InHead(line) /\ body[line].kind = "start"
    <3>1. curEvent = "event: message_start"
      <4>1. line > 1 /\ body[line - 1].kind = "event: message_start"
        BY <1>3, <2>2, LinesLaid
      <4>2. InHead(line - 1)
        <5>1. line # 1
          <6>1. line \in Nat
            BY <1>3
          <6>2. line > 1
            BY <4>1
          <6> QED
            BY <6>1, <6>2
        <5>2. body[line - 1].end = Before(body, line)
          BY <5>1 DEF Before
        <5>3. Before(body, line) < body[line].end /\ Before(body, line) \in Nat
              /\ body[line].end \in Nat
          BY <1>3, LinesLaid
        <5>4. headSize \in Nat
          BY <1>2 DEF SlicesInv
        <5> QED
          BY <2>2, <5>2, <5>3, <5>4 DEF InHead
      <4> QED
        BY <1>2, <4>1, <4>2 DEF HeadScanInv, Events
    <3>2. input' = IF input = 0 THEN Ins[line] ELSE input
      BY <1>1, <1>3, <1>5, <2>2, <3>1 DEF ScanHead, Ins
    <3>3. line \in Nat \ {0}
      BY <1>3
    <3>4. FirstReport(IF input = 0 THEN Ins[line] ELSE input,
                      Started(line - 1) \cup {line}, Ins)
      BY <1>6, <2>1, <3>3, OneMoreReport
    <3> QED
      BY <1>6, <2>2, <3>2, <3>4
  <2>3. CASE ~(InHead(line) /\ body[line].kind = "start")
    <3>1. input' = input
      BY <1>1, <1>5, <2>3 DEF ScanHead
    <3> QED
      BY <1>6, <2>1, <2>3, <3>1
  <2> QED
    BY <2>2, <2>3
<1>10. output' = 0
  BY <1>1, <1>2 DEF HeadScanInv, ScanHead
<1>11. ASSUME InHead(line), body[line].kind \in Events
       PROVE  curEvent' = body[line].kind
  BY <1>1, <1>5, <1>11 DEF ScanHead
<1>12. HeadScanInv'
  <2>1. ASSUME InHead(line - 1)', body'[line' - 1].kind \in Events
        PROVE  curEvent' = body'[line' - 1].kind
    <3>1. InHead(line)
      BY <1>4, <1>7, <2>1 DEF InHead
    <3>2. body'[line' - 1] = body[line]
      BY <1>4, <1>7
    <3> QED
      BY <1>11, <2>1, <3>1, <3>2
  <2>2. FirstReport(input, Started(line - 1), Ins)'
    BY <1>8, <1>9 DEF FirstReport
  <2> QED
    BY <1>10, <2>1, <2>2 DEF HeadScanInv
<1> QED
  BY <1>1, <1>4, <1>12 DEF ScanInv

\* A line of the tail.
LEMMA TailTurnScan ==
  ASSUME ScanInv, TailTurn
  PROVE  ScanInv'
<1>1. /\ phase = "tail" /\ line <= Len(body) /\ line' = line + 1
      /\ UNCHANGED <<vars, phase, body>>
      /\ IF Whole(got, line) THEN ScanTail(body[line])
                             ELSE UNCHANGED <<curEvent, input, output>>
  BY DEF TailTurn, Turn
<1>2. SlicesInv /\ TailScanInv
  BY <1>1 DEF ScanInv
<1>3. /\ line \in 1..Len(body) /\ Len(body) \in Nat /\ body \in Streams
      /\ line' \in 1..(Len(body) + 1)
  <2>1. body \in Streams /\ line \in 1..(Len(body) + 1)
    BY <1>2 DEF SlicesInv
  <2>2. body \in Seq(Line)
    BY <2>1, LinesLaid
  <2> QED
    BY <1>1, <2>1, <2>2
<1>4. SlicesInv' /\ headSize' = headSize /\ size' = size /\ body' = body
  BY <1>1, <1>2, <1>3, SlicesKept
<1>5. Whole(got, line) <=> InTail(line)
  BY <1>2, <1>3, HeldLines
<1>6. /\ Used(line - 1) \in SUBSET (1..(line - 1))
      /\ body[line].kind = "usage" /\ InTail(line)
           => Used(line) = Used(line - 1) \cup {line}
      /\ ~(body[line].kind = "usage" /\ InTail(line)) => Used(line) = Used(line - 1)
  <2>1. line \in Nat \ {0}
    BY <1>3
  <2> QED
    BY <2>1, OneMore
<1>7. line' - 1 = line
  BY <1>1, <1>3
<1>8. /\ Started(Len(body))' = Started(Len(body)) /\ Used(line - 1)' = Used(line)
      /\ Ins' = Ins /\ Outs' = Outs
  <2>1. Total(body)' = Total(body) /\ \A k : Before(body, k)' = Before(body, k)
    BY <1>4 DEF Total, Before
  <2>2. Started(Len(body))' = Started(Len(body))
    BY <1>4 DEF Started, InHead
  <2>3. Used(line - 1)' = Used(line)
    BY <1>4, <1>7, <2>1 DEF Used, InTail
  <2> QED
    BY <1>4, <2>2, <2>3 DEF Ins, Outs
<1>9. /\ \/ input' # 0 /\ FirstReport(input', Started(Len(body)), Ins)
         \/ FirstReport(0, Started(Len(body)), Ins) /\ FirstReport(input', Used(line), Ins)
      /\ FirstReport(output', Used(line), Outs)
  <2>1. /\ \/ input # 0 /\ FirstReport(input, Started(Len(body)), Ins)
           \/ /\ FirstReport(0, Started(Len(body)), Ins)
              /\ FirstReport(input, Used(line - 1), Ins)
        /\ FirstReport(output, Used(line - 1), Outs)
    BY <1>2 DEF TailScanInv
  <2>2. CASE InTail(line) /\ body[line].kind = "usage"
    <3>1. /\ input'  = IF input = 0 THEN Ins[line] ELSE input
          /\ output' = IF output = 0 THEN Outs[line] ELSE output
      BY <1>1, <1>3, <1>5, <2>2 DEF ScanTail, Ins, Outs
    <3>2. line \in Nat \ {0}
      BY <1>3
    <3>3. FirstReport(output', Used(line), Outs)
      <4>1. FirstReport(IF output = 0 THEN Outs[line] ELSE output,
                        Used(line - 1) \cup {line}, Outs)
        BY <1>6, <2>1, <3>2, OneMoreReport
      <4> QED
        BY <1>6, <2>2, <3>1, <4>1
    <3>4. CASE input # 0 /\ FirstReport(input, Started(Len(body)), Ins)
      BY <3>1, <3>3, <3>4
    <3>5. CASE /\ FirstReport(0, Started(Len(body)), Ins)
               /\ FirstReport(input, Used(line - 1), Ins)
      <4>1. FirstReport(IF input = 0 THEN Ins[line] ELSE input,
                        Used(line - 1) \cup {line}, Ins)
        BY <1>6, <3>2, <3>5, OneMoreReport
      <4> QED
        BY <1>6, <2>2, <3>1, <3>3, <3>5, <4>1
    <3> QED
      BY <2>1, <3>4, <3>5
  <2>3. CASE ~(InTail(line) /\ body[line].kind = "usage")
    <3>1. input' = input /\ output' = output
      BY <1>1, <1>5, <2>3 DEF ScanTail
    <3> QED
      BY <1>6, <2>1, <2>3, <3>1
  <2> QED
    BY <2>2, <2>3
<1>10. TailScanInv'
  BY <1>8, <1>9 DEF TailScanInv, FirstReport
<1> QED
  BY <1>1, <1>4, <1>10 DEF ScanInv

\* From the head to the tail.
LEMMA HeadScannedScan ==
  ASSUME ScanInv, HeadScanned
  PROVE  ScanInv'
<1>1. /\ phase = "head" /\ line > Len(body) /\ phase' = "tail" /\ line' = 1
      /\ UNCHANGED <<vars, body, input, output>>
  BY DEF HeadScanned
<1>2. SlicesInv /\ HeadScanInv
  BY <1>1 DEF ScanInv
<1>3. Len(body) \in Nat /\ line - 1 = Len(body)
  <2>1. body \in Streams /\ line \in 1..(Len(body) + 1)
    BY <1>2 DEF SlicesInv
  <2>2. body \in Seq(Line)
    BY <2>1, LinesLaid
  <2> QED
    BY <1>1, <2>1, <2>2
<1>4. SlicesInv' /\ headSize' = headSize /\ body' = body
  <2>1. line' \in 1..(Len(body) + 1)
    BY <1>1, <1>3
  <2> QED
    BY <1>1, <1>2, <2>1, SlicesKept
<1>5. TailScanInv'
  <2>1. Started(Len(body))' = Started(line - 1) /\ Ins' = Ins
    BY <1>3, <1>4 DEF Started, InHead, Ins
  <2>2. line' - 1 = 0
    BY <1>1
  <2>3. Used(line - 1)' = {}
    BY <2>2 DEF Used
  <2>4. FirstReport(input, Started(line - 1), Ins) /\ output = 0
    BY <1>2 DEF HeadScanInv
  <2>5. input' = input /\ output' = output
    BY <1>1
  <2> QED
    BY <2>1, <2>3, <2>4, <2>5 DEF TailScanInv, FirstReport
<1> QED
  BY <1>1, <1>4, <1>5 DEF ScanInv

\* From the tail to the end.
LEMMA TailScannedScan ==
  ASSUME ScanInv, TailScanned
  PROVE  ScanInv'
<1>1. /\ phase = "tail" /\ line > Len(body) /\ phase' = "done"
      /\ UNCHANGED <<vars, body, line, curEvent, input, output>>
  BY DEF TailScanned
<1>2. SlicesInv /\ TailScanInv
  BY <1>1 DEF ScanInv
<1>3. /\ Len(body) \in Nat /\ line \in 1..(Len(body) + 1)
      /\ line = Len(body) + 1
  <2>1. body \in Streams /\ line \in 1..(Len(body) + 1)
    BY <1>2 DEF SlicesInv
  <2>2. body \in Seq(Line)
    BY <2>1, LinesLaid
  <2> QED
    BY <1>1, <2>1, <2>2
<1>4. SlicesInv' /\ headSize' = headSize /\ size' = size
      /\ body' = body /\ line' = line
  BY <1>1, <1>2, <1>3, SlicesKept
<1>5. TailScanInv'
  <2>1. Total(body)' = Total(body) /\ \A k : Before(body, k)' = Before(body, k)
    BY <1>4 DEF Total, Before
  <2>2. /\ Started(Len(body))' = Started(Len(body))
        /\ Used(line - 1)' = Used(line - 1) /\ Ins' = Ins /\ Outs' = Outs
    BY <1>4, <2>1 DEF Started, Used, InHead, InTail, Ins, Outs
  <2>3. input' = input /\ output' = output
    BY <1>1
  <2> QED
    BY <1>2, <2>2, <2>3 DEF TailScanInv, FirstReport
<1> QED
  BY <1>1, <1>3, <1>4, <1>5 DEF ScanInv

TInv == EndsInv /\ ScanInv

LEMMA InitTInv == TInit => TInv
  BY InitEndsInv DEF TInit, TInv, ScanInv

LEMMA NextTInv == TInv /\ [TNext]_<<vars, scanVars>> => TInv'
<1> SUFFICES ASSUME TInv, [TNext]_<<vars, scanVars>> PROVE TInv'
  OBVIOUS
<1>1. EndsInv /\ ScanInv
  BY DEF TInv
<1>2. CASE Calls
  <2>1. Next /\ phase' = "no"
    BY <1>2 DEF Calls
  <2> QED
    BY <1>1, <2>1, NextEndsInv DEF TInv, ScanInv
<1>3. ASSUME NEW s \in Streams, TapEnds(s) PROVE TInv'
  <2>1. TailBytes
    BY <1>3 DEF TapEnds
  <2> QED
    BY <1>1, <1>3, <2>1, TailEnds, TapEndsScan DEF TInv
<1>4. ASSUME HeadTurn \/ TailTurn \/ HeadScanned \/ TailScanned PROVE TInv'
  <2>1. UNCHANGED vars
    BY <1>4 DEF HeadTurn, TailTurn, Turn, HeadScanned, TailScanned
  <2>2. EndsInv'
    BY <1>1, <2>1, NextEndsInv
  <2>3. ScanInv'
    BY <1>1, <1>4, HeadTurnScan, TailTurnScan, HeadScannedScan, TailScannedScan
  <2> QED
    BY <2>2, <2>3 DEF TInv
<1>5. CASE UNCHANGED <<vars, scanVars>>
  <2>1. UNCHANGED <<vars, phase, body, line, curEvent, input, output>>
    BY <1>5 DEF scanVars
  <2>2. EndsInv'
    BY <1>1, <2>1, NextEndsInv
  <2>3. /\ headSize' = headSize /\ size' = size /\ HeadBytes' = HeadBytes
        /\ Total(body)' = Total(body) /\ \A k : Before(body, k)' = Before(body, k)
        /\ UNCHANGED <<got, since, written, body, line, phase, input, output, curEvent>>
    BY <2>1 DEF vars, headSize, size, HeadBytes, Total, Before
  <2>4. /\ Started(Len(body))' = Started(Len(body)) /\ Started(line - 1)' = Started(line - 1)
        /\ Used(line - 1)' = Used(line - 1) /\ Ins' = Ins /\ Outs' = Outs
    BY <2>3 DEF Started, Used, InHead, InTail, Ins, Outs
  <2>5. SlicesInv => SlicesInv'
    BY <2>3 DEF SlicesInv
  <2>6. /\ HeadScanInv => HeadScanInv'
        /\ TailScanInv => TailScanInv'
    BY <2>3, <2>4 DEF HeadScanInv, TailScanInv, FirstReport, InHead
  <2>7. ScanInv'
    BY <1>1, <2>3, <2>5, <2>6 DEF ScanInv
  <2> QED
    BY <2>2, <2>7 DEF TInv
<1> QED
  BY <1>2, <1>3, <1>4, <1>5 DEF TNext

\* While the tap reads and scans, its buffer is a HeadTail as specified above:
\* what is proved of Spec holds of TSpec (sse_tap.go, tapResponseHandler).
THEOREM TapIsHeadTail == TSpec => Spec
<1>1. TInit => Init
  BY DEF TInit
<1>2. [TNext]_<<vars, scanVars>> => [Next]_vars
  BY DEF TNext, Calls, TapEnds, HeadTurn, TailTurn, Turn, HeadScanned, TailScanned, Next
<1> QED
  BY <1>1, <1>2, PTL DEF TSpec, Spec

\* For every stream of either format with any tokens in its lines, every way of
\* cutting it into chunks and buffers of every size, the input reported is that
\* of the first message_start whole in the head, failing that of the first usage
\* line whole in the tail, and the output that of the first usage line whole in
\* the tail (sse_tap.go, extractUsage and scanLines).
THEOREM UsageExtractedCorrect == TSpec => []UsageExtracted
<1>1. TInv => UsageExtracted
  <2> SUFFICES ASSUME TInv, phase = "done" PROVE UsageExtracted
    BY DEF UsageExtracted
  <2>1. TailScanInv /\ SlicesInv /\ line = Len(body) + 1
    BY DEF TInv, ScanInv
  <2>2. line - 1 = Len(body)
    <3>1. body \in Seq(Line)
      BY <2>1, LinesLaid DEF SlicesInv
    <3> QED
      BY <2>1, <3>1
  <2> QED
    BY <2>1, <2>2 DEF UsageExtracted, TailScanInv
<1> QED
  BY <1>1, InitTInv, NextTInv, PTL DEF TSpec
===============================================================================
