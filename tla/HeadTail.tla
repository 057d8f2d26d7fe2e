------------------------------- MODULE HeadTail -------------------------------
(***************************************************************************)
(* buffer.HeadTail and the buffer.Ring inside it (buffer/buffer.go): the   *)
(* first headSize and the last tailSize bytes of a stream, in fixed        *)
(* memory.  Ring.Write copies a chunk piecewise, once per turn of its      *)
(* loop; Ring.Bytes turns the ring in place until the oldest byte is first *)
(* and hands out the memory itself.  Nothing here is safe for concurrent   *)
(* use, so a call runs to its end before the next one.                     *)
(*                                                                         *)
(* A byte is the number of its writing; 0 is what a slab holds before.     *)
(***************************************************************************)
EXTENDS Naturals, SequencesExt

CONSTANTS
  HeadSizes, TailSizes,  \* the capacities considered
  MaxChunk,              \* bound: bytes of one chunk
  MaxBytes               \* bound: bytes ever written

\* A ring of no size makes Ring.Write loop forever.
ASSUME HeadAssumption  == HeadSizes \subseteq Nat
ASSUME TailAssumption  == TailSizes \subseteq Nat \ {0}
ASSUME BoundAssumption == MaxChunk \in Nat /\ MaxBytes \in Nat

VARIABLES
  head, headN,      \* the head slab and how much of it is filled
  data, pos, full,  \* the ring
  p,                \* what Ring.Write still has to copy
  written,          \* how many bytes have been written
  since,            \* ... and how many of them before the last Reset
  turned,           \* ... and before the last Bytes that emptied a full ring
  got               \* what the last Tail returned; <<>> after any other call

vars == <<head, headN, data, pos, full, p, written, since, turned, got>>

headSize == Len(head)
size     == Len(data)

\* The bytes a + 1 to b, in the order of their writing.
Bytes(a, b) == [i \in 1..(b - a) |-> a + i]
Smaller(a, b) == IF a < b THEN a ELSE b
Slab(n) == [i \in 1..n |-> 0]

Init ==
  /\ \E n \in HeadSizes : head = Slab(n)
  /\ \E n \in TailSizes : data = Slab(n)
  /\ headN = 0 /\ pos = 0 /\ full = FALSE
  /\ p = <<>> /\ written = 0 /\ since = 0 /\ turned = 0 /\ got = <<>>

-----------------------------------------------------------------------------

\* Go's copy(dst[at:], src): as much of src as there is room for.
Copied(dst, at, src) == Smaller(Len(dst) - at, Len(src))
Copy(dst, at, src) ==
  SubSeq(dst, 1, at) \o SubSeq(src, 1, Copied(dst, at, src))
                     \o SubSeq(dst, at + Copied(dst, at, src) + 1, Len(dst))

\* A mutant: every chunk is copied to the start of the head.
WriteRestartsHead(chunk) ==
  /\ p = <<>>
  /\ head' = IF headN < headSize THEN Copy(head, 0, chunk) ELSE head
  /\ headN' = IF headN < headSize THEN headN + Copied(head, headN, chunk) ELSE headN
  /\ p' = chunk
  /\ written' = written + Len(chunk)
  /\ got' = <<>>
  /\ UNCHANGED <<data, pos, full, since, turned>>
\* HeadTail.Write, up to its call of Ring.Write.
Write(chunk) ==
  /\ p = <<>>
  /\ head' = IF headN < headSize THEN Copy(head, headN, chunk) ELSE head
  /\ headN' = IF headN < headSize THEN headN + Copied(head, headN, chunk) ELSE headN
  /\ p' = chunk
  /\ written' = written + Len(chunk)
  /\ got' = <<>>
  /\ UNCHANGED <<data, pos, full, since, turned>>

\* A mutant: the position wraps one turn too late.
WrapsLate(n) == n > size
Wraps(n) == n >= size

\* One turn of Ring.Write's loop.
WriteTurn ==
  /\ p # <<>>
  /\ LET n == Copied(data, pos, p) IN
     /\ data' = Copy(data, pos, p)
     /\ p' = SubSeq(p, n + 1, Len(p))
     /\ pos' = IF Wraps(pos + n) THEN 0 ELSE pos + n
     /\ full' = (full \/ Wraps(pos + n))
  /\ UNCHANGED <<head, headN, written, since, turned, got>>

\* A mutant: only one of the two parts is reversed before the whole is.
HalfRotated == Reverse(Reverse(SubSeq(data, 1, pos)) \o SubSeq(data, pos + 1, size))
\* The three reversals.
Rotated ==
  Reverse(Reverse(SubSeq(data, 1, pos)) \o Reverse(SubSeq(data, pos + 1, size)))

\* HeadTail.Tail, that is Ring.Bytes.
TailBytes ==
  /\ p = <<>>
  /\ IF full
     THEN /\ data' = Rotated /\ pos' = 0 /\ full' = FALSE
          /\ got' = Rotated
          /\ turned' = written
     ELSE /\ got' = SubSeq(data, 1, pos)
          /\ UNCHANGED <<data, pos, full, turned>>
  /\ UNCHANGED <<head, headN, p, written, since>>

Reset ==
  /\ p = <<>>
  /\ headN' = 0 /\ pos' = 0 /\ full' = FALSE
  /\ since' = written /\ turned' = written
  /\ got' = <<>>
  /\ UNCHANGED <<head, data, p, written>>

HeadBytes == SubSeq(head, 1, headN)

Next ==
  \/ \E n \in 0..Smaller(MaxChunk, MaxBytes - written) :
       Write(Bytes(written, written + n))
  \/ WriteTurn \/ TailBytes \/ Reset

Spec == Init /\ [][Next]_vars

-----------------------------------------------------------------------------
(***************************************************************************)
(* Properties.                                                             *)
(***************************************************************************)

\* The variables have their types: above all, the write position is always
\* inside the ring, which Write and Bytes slice with it unchecked.
TypeOK ==
  /\ headSize \in HeadSizes /\ headN \in 0..headSize
  /\ size \in TailSizes /\ pos \in 0..(size - 1) /\ full \in BOOLEAN
  /\ since <= turned /\ turned <= written /\ written <= MaxBytes

\* Head is the beginning of what was written since the last Reset.
HeadIsBeginning ==
  HeadBytes = Bytes(since, since + Smaller(headSize, written - since))

\* Tail returns the last bytes written, oldest first, however the chunks fell
\* on the ring's end; when Tail has already been called on a full ring, only
\* those written after that call.
TailIsEnd ==
  [][TailBytes => LET n == Smaller(size, written - turned) IN
              got' = Bytes(written - n, written)]_vars
=============================================================================
