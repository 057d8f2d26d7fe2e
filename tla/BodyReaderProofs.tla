--------------------------- MODULE BodyReaderProofs ---------------------------
(***************************************************************************)
(* Proofs about BodyReader, for every capacity, body, chunking, limit and  *)
(* sequence of Reads: no byte is lost or repeated, the limit is exact, and *)
(* r.Body is the stream that ByteStream promises.                          *)
(***************************************************************************)
EXTENDS BodyReader, TLAPS

\* Where the bytes begin that are still queued.
Rest == IF ch # <<>> THEN ch[1].lo ELSE sent

\* The queued chunks follow one another up to what Envoy has sent.
ChannelInv ==
  \A i \in 1..Len(ch) :
    /\ ch[i].lo <= ch[i].hi /\ ch[i].hi <= sent
    /\ ch[i].hi = IF i = Len(ch) THEN sent ELSE ch[i + 1].lo

\* What is left of the current chunk lies between what was read and the queue.
ChunkInv ==
  /\ cur.lo <= cur.hi /\ off <= Size(cur)
  /\ read + (Size(cur) - off) = Rest
  /\ off < Size(cur) => cur.lo + off = read
  /\ rd.at \in {"recv", "wait", "drain"} => cur = NoChunk /\ off = 0 /\ ~eof
  /\ rd.at # "idle" => rd.p > 0

\* EOF is reported at the limit or when nothing is left, and done is closed for
\* one of three reasons.
EndInv ==
  /\ armed <=> limit > 0 /\ read < limit
  /\ LimitSpent => eof
  /\ eof => LimitSpent \/ off = Size(cur)
  /\ done => givenUp \/ ended \/ LimitSpent
  /\ ended => done /\ ~snd.busy
  /\ rd.at = "drain" => done
  /\ LimitExact

ReaderInv == TypeOK /\ ChannelInv /\ ChunkInv /\ EndInv

-----------------------------------------------------------------------------

LEMMA InitReader == Init => ReaderInv
<1> SUFFICES ASSUME Init PROVE ReaderInv
  OBVIOUS
<1> USE LimitsAssumption, CapAssumption DEF Init
<1>1. TypeOK
  <2>1. armed \in BOOLEAN
    OBVIOUS
  <2>2. rd \in [at : {"idle", "serve", "recv", "wait", "drain"}, p : Nat]
    BY DEF AtRest
  <2>3. snd \in [busy : BOOLEAN, left : Nat, end : BOOLEAN]
    BY Zenon DEF Quiet
  <2>4. cur \in Chunk
    BY DEF NoChunk, Chunk
  <2>5. ch \in Seq(Chunk) /\ Len(ch) <= Cap
    OBVIOUS
  <2>6. done \in BOOLEAN /\ ended \in BOOLEAN /\ givenUp \in BOOLEAN /\ eof \in BOOLEAN
    BY Zenon
  <2> QED
    BY <2>1, <2>2, <2>3, <2>4, <2>5, <2>6 DEF TypeOK
<1>2. ChannelInv
  BY DEF ChannelInv
<1>3. ChunkInv
  BY DEF ChunkInv, Rest, Size, NoChunk, AtRest
<1>4. EndInv
  <2>1. limit \in Nat /\ (armed <=> limit > 0)
    BY Zenon
  <2> QED
    BY <2>1 DEF EndInv, LimitSpent, LimitExact, NoChunk, AtRest, Size
<1> QED
  BY <1>1, <1>2, <1>3, <1>4 DEF ReaderInv

\* What Append and Tail do to the channel.
LEMMA Appended ==
  ASSUME NEW s \in Seq(Chunk), NEW c \in Chunk
  PROVE  /\ Append(s, c) \in Seq(Chunk) /\ Append(s, c) # <<>>
         /\ Len(Append(s, c)) = Len(s) + 1 /\ Len(s) \in Nat
         /\ Append(s, c)[Len(s) + 1] = c
         /\ \A i \in 1..Len(s) : Append(s, c)[i] = s[i]
  OBVIOUS

LEMMA Tailed ==
  ASSUME NEW s \in Seq(Chunk), s # <<>>
  PROVE  /\ Tail(s) \in Seq(Chunk)
         /\ Len(Tail(s)) = Len(s) - 1 /\ Len(s) \in Nat \ {0}
         /\ Head(s) = s[1] /\ Head(s) \in Chunk
         /\ Tail(s) # <<>> <=> Len(s) > 1
         /\ \A i \in 1..Len(Tail(s)) : Tail(s)[i] = s[i + 1]
<1>1. /\ Tail(s) \in Seq(Chunk)
      /\ Len(Tail(s)) = Len(s) - 1 /\ Len(s) \in Nat \ {0}
      /\ Head(s) = s[1] /\ Head(s) \in Chunk
      /\ \A i \in 1..Len(Tail(s)) : Tail(s)[i] = s[i + 1]
  OBVIOUS
<1>2. Tail(s) = <<>> <=> Len(Tail(s)) = 0
  BY <1>1, SMTT(30)
<1> QED
  BY <1>1, <1>2

\* A Read copies at least a byte, no more than the chunk has or the limit leaves.
LEMMA ServableBounds ==
  ASSUME TypeOK, ChunkInv, EndInv, rd.at = "serve", off < Size(cur), ~LimitSpent
  PROVE  /\ Servable \in Nat \ {0} /\ Servable <= Size(cur) - off
         /\ limit > 0 => read + Servable <= limit
<1>1. /\ Size(cur) \in Nat /\ off \in Nat /\ rd.p \in Nat \ {0} /\ limit \in Nat
      /\ read \in Nat
      /\ limit > 0 => read < limit
  BY LimitsAssumption DEF TypeOK, ChunkInv, LimitSpent, Size, Chunk
<1> DEFINE fits == Smaller(rd.p, Size(cur) - off)
<1>2. fits \in Nat \ {0} /\ fits <= Size(cur) - off
  BY <1>1 DEF Smaller
<1> HIDE DEF fits
<1>3. limit > 0 => /\ Smaller(fits, limit - read) \in Nat \ {0}
                   /\ Smaller(fits, limit - read) <= fits
                   /\ read + Smaller(fits, limit - read) <= limit
  <2> SUFFICES ASSUME limit > 0
               PROVE  /\ Smaller(fits, limit - read) \in Nat \ {0}
                      /\ Smaller(fits, limit - read) <= fits
                      /\ read + Smaller(fits, limit - read) <= limit
    OBVIOUS
  <2>1. limit - read \in Nat \ {0} /\ read + (limit - read) = limit
    BY <1>1
  <2>2. CASE fits < limit - read
    BY <1>1, <1>2, <2>1, <2>2 DEF Smaller
  <2>3. CASE ~(fits < limit - read)
    BY <1>1, <1>2, <2>1, <2>3 DEF Smaller
  <2> QED
    BY <2>2, <2>3
<1>4. Servable = IF limit > 0 THEN Smaller(fits, limit - read) ELSE fits
  BY DEF Servable, fits
<1> QED
  BY <1>1, <1>2, <1>3, <1>4

-----------------------------------------------------------------------------

\* What the worker does to the channel keeps the invariant, ...
LEMMA SenderKeeps ==
  ASSUME ReaderInv, NEW k \in 0..MaxChunk, Send(k)
  PROVE  ReaderInv'
<1> DEFINE c == [lo |-> sent, hi |-> sent + k]
<1>1. /\ k \in Nat /\ sent \in Nat /\ ch \in Seq(Chunk) /\ c \in Chunk
      /\ Len(ch) < Cap /\ snd.busy /\ snd.left > 0
      /\ ch' = Append(ch, c) /\ sent' = sent + k
      /\ snd' = [snd EXCEPT !.left = @ - 1]
      /\ UNCHANGED <<limit, done, ended, givenUp, cur, off, eof, read, armed, fired, rd>>
  BY BoundAssumption DEF Send, ReaderInv, TypeOK, Chunk, readVars
<1>2. /\ ch' \in Seq(Chunk) /\ ch' # <<>> /\ Len(ch') = Len(ch) + 1 /\ Len(ch) \in Nat
      /\ ch'[Len(ch) + 1] = c
      /\ \A i \in 1..Len(ch) : ch'[i] = ch[i]
  BY <1>1, Appended
<1>3. c.lo = sent /\ c.hi = sent + k
  OBVIOUS
<1>4. snd' \in [busy : BOOLEAN, left : Nat, end : BOOLEAN] /\ snd'.busy = snd.busy
  <2>1. snd \in [busy : BOOLEAN, left : Nat, end : BOOLEAN]
    BY DEF ReaderInv, TypeOK
  <2>2. snd.left - 1 \in Nat
    BY <1>1, <2>1
  <2> QED
    BY <1>1, <2>1, <2>2
<1> HIDE DEF c
<1>5. TypeOK'
  BY <1>1, <1>2, <1>4, CapAssumption DEF ReaderInv, TypeOK
<1>6. ChannelInv'
  <2> SUFFICES ASSUME NEW i \in 1..Len(ch')
               PROVE  /\ ch'[i].lo <= ch'[i].hi /\ ch'[i].hi <= sent'
                      /\ ch'[i].hi = IF i = Len(ch') THEN sent' ELSE ch'[i + 1].lo
    BY DEF ChannelInv
  <2>1. CASE i = Len(ch) + 1
    BY <1>1, <1>2, <1>3, <2>1
  <2>2. CASE i \in 1..Len(ch)
    <3>1. /\ ch[i].lo <= ch[i].hi /\ ch[i].hi <= sent /\ ch[i] \in Chunk
          /\ ch[i].hi = IF i = Len(ch) THEN sent ELSE ch[i + 1].lo
      BY <1>1, <2>2 DEF ReaderInv, ChannelInv
    <3>2. ch[i].hi \in Nat /\ ch'[i] = ch[i] /\ i # Len(ch')
      <4>1. ch[i].hi \in Nat
        BY <3>1 DEF Chunk
      <4>2. i # Len(ch')
        BY <1>2, <2>2
      <4> QED
        BY <1>2, <2>2, <4>1, <4>2
    <3>3. i # Len(ch) => i + 1 \in 1..Len(ch)
      BY <1>2, <2>2
    <3> QED
      BY <1>1, <1>2, <1>3, <3>1, <3>2, <3>3
  <2> QED
    BY <1>2, <2>1, <2>2
<1>7. Rest' = Rest
  <2>1. CASE ch = <<>>
    BY <1>2, <1>3, <2>1 DEF Rest
  <2>2. CASE ch # <<>>
    <3>1. 1 \in 1..Len(ch)
      BY <1>1, <1>2, <2>2
    <3> QED
      BY <1>2, <2>2, <3>1 DEF Rest
  <2> QED
    BY <2>1, <2>2
<1>8. ChunkInv'
  BY <1>1, <1>7 DEF ReaderInv, ChunkInv, Size
<1>9. EndInv'
  BY <1>1, <1>4 DEF ReaderInv, EndInv, LimitSpent, LimitExact, Size
<1> QED
  BY <1>5, <1>6, <1>8, <1>9 DEF ReaderInv

\* ... as does taking a chunk out, ...
LEMMA ReceiveKeeps ==
  ASSUME ReaderInv, Receive
  PROVE  ReaderInv'
<1>1. /\ ch \in Seq(Chunk) /\ ch # <<>> /\ ch' = Tail(ch) /\ cur' = Head(ch) /\ off' = 0
      /\ rd.at \in {"recv", "wait", "drain"} /\ rd' = [rd EXCEPT !.at = "serve"]
      /\ UNCHANGED <<limit, done, sent, snd, ended, givenUp, eof, read, armed, fired>>
  BY DEF Receive, ReaderInv, TypeOK, sendVars
<1>2. /\ ch' \in Seq(Chunk) /\ Len(ch') = Len(ch) - 1 /\ Len(ch) \in Nat \ {0}
      /\ cur' = ch[1] /\ cur' \in Chunk
      /\ ch' # <<>> <=> Len(ch) > 1
      /\ \A i \in 1..Len(ch') : ch'[i] = ch[i + 1]
  BY <1>1, Tailed
<1>3. rd' \in [at : {"idle", "serve", "recv", "wait", "drain"}, p : Nat]
      /\ rd'.at = "serve" /\ rd'.p = rd.p
  BY <1>1 DEF ReaderInv, TypeOK
<1>4. cur = NoChunk /\ off = 0 /\ ~eof /\ rd.p > 0 /\ read = ch[1].lo /\ read \in Nat
  <2>1. cur = NoChunk /\ off = 0 /\ ~eof /\ rd.p > 0 /\ read \in Nat
    BY <1>1 DEF ReaderInv, ChunkInv, TypeOK
  <2> QED
    BY <1>1, <2>1 DEF ReaderInv, ChunkInv, Rest, Size, NoChunk
<1>5. TypeOK'
  BY <1>1, <1>2, <1>3, CapAssumption DEF ReaderInv, TypeOK
<1>6. ChannelInv'
  <2> SUFFICES ASSUME NEW i \in 1..Len(ch')
               PROVE  /\ ch'[i].lo <= ch'[i].hi /\ ch'[i].hi <= sent'
                      /\ ch'[i].hi = IF i = Len(ch') THEN sent' ELSE ch'[i + 1].lo
    BY DEF ChannelInv
  <2>1. /\ i + 1 \in 1..Len(ch) /\ ch'[i] = ch[i + 1]
        /\ i + 1 = Len(ch) <=> i = Len(ch')
        /\ i # Len(ch') => i + 1 \in 1..Len(ch')
    BY <1>2
  <2>2. \A j \in 1..Len(ch) :
          /\ ch[j].lo <= ch[j].hi /\ ch[j].hi <= sent
          /\ ch[j].hi = IF j = Len(ch) THEN sent ELSE ch[j + 1].lo
    BY DEF ReaderInv, ChannelInv
  <2> QED
    BY <1>1, <1>2, <2>1, <2>2
<1>7. cur'.lo <= cur'.hi /\ cur'.hi = Rest' /\ cur'.lo \in Nat /\ cur'.hi \in Nat
  <2>1. 1 \in 1..Len(ch) /\ (Len(ch) > 1 => 1 \in 1..Len(ch'))
    BY <1>2
  <2>2. ch[1].lo <= ch[1].hi /\ ch[1].hi = IF 1 = Len(ch) THEN sent ELSE ch[1 + 1].lo
    BY <2>1 DEF ReaderInv, ChannelInv
  <2>3. Len(ch) > 1 => ch'[1] = ch[1 + 1]
    BY <1>2, <2>1
  <2>4. cur'.hi = Rest'
    BY <1>1, <1>2, <2>2, <2>3 DEF Rest
  <2> QED
    BY <1>2, <2>2, <2>4 DEF Chunk
<1>8. ChunkInv'
  BY <1>1, <1>2, <1>3, <1>4, <1>7 DEF ChunkInv, Size
<1>9. EndInv'
  BY <1>1, <1>3, <1>4 DEF ReaderInv, EndInv, LimitSpent, LimitExact
<1> QED
  BY <1>5, <1>6, <1>8, <1>9 DEF ReaderInv

\* ... copying bytes to the handler, up to the limit or short of it, ...
LEMMA ServedKeeps ==
  ASSUME ReaderInv, rd.at = "serve", rd' = AtRest, off < Size(cur), ~eof,
         NEW n \in Nat \ {0}, n <= Size(cur) - off, limit > 0 => read + n <= limit,
         off' = off + n, read' = read + n,
         UNCHANGED <<limit, ch, sent, snd, ended, givenUp, cur>>,
         armed <=> limit > 0, fired = 0, done => givenUp \/ ended,
         IF limit > 0 /\ read' = limit
         THEN eof' = TRUE /\ armed' = FALSE /\ fired' = 1 /\ done' = TRUE
         ELSE UNCHANGED <<eof, armed, fired, done>>
  PROVE  ReaderInv' /\ Stream!Deliver
<1>1. /\ limit \in Nat /\ read \in Nat /\ off \in Nat /\ Size(cur) \in Nat /\ sent \in Nat
      /\ cur.lo \in Nat /\ cur.hi \in Nat /\ Rest \in Nat
  BY LimitsAssumption DEF ReaderInv, TypeOK, ChunkInv, Size, Chunk
<1>2. TypeOK'
  <2>1. rd' \in [at : {"idle", "serve", "recv", "wait", "drain"}, p : Nat]
    BY DEF AtRest
  <2>2. eof' \in BOOLEAN /\ armed' \in BOOLEAN /\ fired' \in Nat /\ done' \in BOOLEAN
    <3>1. eof \in BOOLEAN /\ armed \in BOOLEAN /\ fired \in Nat /\ done \in BOOLEAN
      BY DEF ReaderInv, TypeOK
    <3>2. CASE limit > 0 /\ read' = limit
      <4>1. eof' = TRUE /\ armed' = FALSE /\ fired' = 1 /\ done' = TRUE
        BY <3>2
      <4> QED
        BY <4>1
    <3>3. CASE ~(limit > 0 /\ read' = limit)
      BY <3>1, <3>3
    <3> QED
      BY <3>2, <3>3
  <2> QED
    BY <1>1, <2>1, <2>2 DEF ReaderInv, TypeOK
<1>3. ChannelInv' /\ Rest' = Rest
  BY DEF ReaderInv, ChannelInv, Rest
<1>4. ChunkInv'
  <2>1. /\ cur.lo <= cur.hi /\ read + (Size(cur) - off) = Rest /\ cur.lo + off = read
    BY DEF ReaderInv, ChunkInv
  <2>2. Size(cur)' = Size(cur)
    BY DEF Size
  <2>3. /\ off' <= Size(cur)' /\ read' + (Size(cur)' - off') = Rest'
        /\ cur'.lo + off' = read'
    BY <1>1, <1>3, <2>1, <2>2
  <2>4. rd'.at = "idle"
    BY DEF AtRest
  <2> QED
    BY <2>1, <2>3, <2>4 DEF ChunkInv
<1>5. EndInv'
  <2>1. rd'.at = "idle" /\ (ended => done /\ ~snd.busy)
    BY DEF AtRest, ReaderInv, EndInv
  <2>2. CASE limit > 0 /\ read' = limit
    BY <1>1, <2>1, <2>2 DEF EndInv, LimitSpent, LimitExact
  <2>3. CASE ~(limit > 0 /\ read' = limit)
    BY <1>1, <2>1, <2>3 DEF EndInv, LimitSpent, LimitExact
  <2> QED
    BY <2>2, <2>3
<1>6. read + (Size(cur) - off) <= sent
  <2>1. read + (Size(cur) - off) = Rest
    BY DEF ReaderInv, ChunkInv
  <2>2. Rest <= sent
    <3>1. CASE ch = <<>>
      BY <1>1, <3>1 DEF Rest
    <3>2. CASE ch # <<>>
      <4>1. 1 \in 1..Len(ch) /\ ch[1] \in Chunk
        BY <3>2 DEF ReaderInv, TypeOK
      <4>2. ch[1].lo <= ch[1].hi /\ ch[1].hi <= sent
        BY <4>1 DEF ReaderInv, ChannelInv
      <4> QED
        BY <1>1, <3>2, <4>1, <4>2 DEF Rest, Chunk
    <3> QED
      BY <3>1, <3>2
  <2> QED
    BY <2>1, <2>2
<1>7. Stream!Deliver
  <2>1. ~eof /\ read' > read /\ read' <= sent /\ (limit > 0 => read' <= limit)
    BY <1>1, <1>6
  <2>2. eof' = (limit > 0 /\ read' = limit)
    <3>1. CASE limit > 0 /\ read' = limit
      BY <3>1
    <3>2. CASE ~(limit > 0 /\ read' = limit)
      <4>1. eof' = FALSE
        BY <3>2 DEF ReaderInv, TypeOK
      <4> QED
        BY <3>2, <4>1
    <3> QED
      BY <3>1, <3>2
  <2> QED
    BY <2>1, <2>2 DEF Stream!Deliver
<1> QED
  BY <1>2, <1>3, <1>4, <1>5, <1>7 DEF ReaderInv

LEMMA ServeKeeps ==
  ASSUME ReaderInv, Serve
  PROVE  ReaderInv' /\ Stream!Deliver
<1>1. /\ rd.at = "serve" /\ off < Size(cur) /\ ~LimitSpent /\ rd' = AtRest
      /\ off' = off + Servable /\ read' = read + Servable
      /\ UNCHANGED <<limit, ch, sent, snd, ended, givenUp, cur>>
  BY DEF Serve, sendVars
<1>2. /\ Servable \in Nat \ {0} /\ Servable <= Size(cur) - off
      /\ limit > 0 => read + Servable <= limit
  BY <1>1, ServableBounds DEF ReaderInv
<1>3. /\ limit \in Nat /\ read \in Nat /\ off \in Nat /\ Size(cur) \in Nat /\ sent \in Nat
      /\ fired \in Nat /\ done \in BOOLEAN /\ armed \in BOOLEAN /\ eof \in BOOLEAN
  BY LimitsAssumption DEF ReaderInv, TypeOK, ChunkInv, Size, Chunk
<1>4. /\ ~eof /\ (limit > 0 => read < limit) /\ fired = 0
      /\ armed <=> limit > 0
      /\ done => givenUp \/ ended
  <2>1. limit > 0 => read < limit
    BY <1>1, <1>3 DEF LimitSpent
  <2> QED
    BY <1>1, <1>3, <2>1 DEF ReaderInv, EndInv, LimitExact
<1>5. CASE limit > 0 /\ read' = limit
  <2>1. ReachLimit
    BY <1>1, <1>2, <1>3, <1>5 DEF Serve
  <2>2. armed = TRUE
    BY <1>3, <1>4, <1>5
  <2>3. eof' = TRUE /\ armed' = FALSE /\ fired' = 1
    BY <1>4, <2>1, <2>2 DEF ReachLimit
  <2>4. done' = TRUE
    BY <2>1, <2>2, Zenon DEF ReachLimit
  <2> QED
    BY <1>1, <1>2, <1>3, <1>4, <1>5, <2>3, <2>4, ServedKeeps
<1>6. CASE ~(limit > 0 /\ read' = limit)
  <2>1. UNCHANGED <<eof, armed, fired, done>>
    BY <1>1, <1>2, <1>3, <1>6 DEF Serve
  <2> QED
    BY <1>1, <1>2, <1>3, <1>4, <1>6, <2>1, ServedKeeps
<1> QED
  BY <1>5, <1>6

\* ... and everything else.
LEMMA OthersKeep ==
  ASSUME ReaderInv,
         \/ \E n \in 0..Batch, endStream \in BOOLEAN : Callback(n, endStream)
         \/ SendRefused \/ CallbackReturns \/ GiveUp
         \/ \E k \in 1..MaxRead : Call(k)
         \/ ServePastLimit \/ Release \/ NothingQueued \/ ObserveDone \/ ReportEOF
         \/ UNCHANGED vars
  PROVE  ReaderInv'
<1>1. CASE ServePastLimit
  <2>1. /\ LimitSpent /\ rd' = AtRest /\ eof' = TRUE /\ armed' = FALSE
        /\ UNCHANGED <<limit, ch, sent, snd, ended, givenUp, cur, off, read>>
    BY <1>1 DEF ServePastLimit, ReachLimit, sendVars
  <2>2. eof = TRUE /\ armed = FALSE
    <3>1. armed \in BOOLEAN /\ eof \in BOOLEAN /\ limit \in Nat /\ read \in Nat
      BY LimitsAssumption DEF ReaderInv, TypeOK
    <3> QED
      BY <2>1, <3>1 DEF ReaderInv, EndInv, LimitSpent
  <2>3. fired' = fired
    BY <1>1, <2>2 DEF ServePastLimit, ReachLimit
  <2>4. done' = done
    <3>1. done \in BOOLEAN
      BY DEF ReaderInv, TypeOK
    <3> QED
      BY <1>1, <2>2, <3>1, Zenon DEF ServePastLimit, ReachLimit
  <2>5. UNCHANGED <<limit, ch, done, sent, snd, ended, givenUp, cur, off, eof,
                    read, armed, fired>>
    BY <2>1, <2>2, <2>3, <2>4
  <2>6. rd' \in [at : {"idle", "serve", "recv", "wait", "drain"}, p : Nat]
        /\ rd'.at = "idle"
    BY <2>1 DEF AtRest
  <2> QED
    BY <2>5, <2>6 DEF ReaderInv, TypeOK, ChannelInv, ChunkInv, EndInv, LimitSpent,
       LimitExact, Rest, Size
<1>2. CASE Release
  <2>1. /\ rd.at = "serve" /\ off >= Size(cur) /\ cur' = NoChunk /\ off' = 0
        /\ rd' = IF eof THEN AtRest ELSE [rd EXCEPT !.at = "recv"]
        /\ UNCHANGED <<limit, ch, done, sent, snd, ended, givenUp, eof, read, armed, fired>>
    BY <1>2 DEF Release, pipeVars, sendVars
  <2>2. /\ off = Size(cur) /\ read = Rest /\ off \in Nat /\ read \in Nat
        /\ cur' \in Chunk /\ Size(cur)' = 0 /\ cur'.lo = cur'.hi
    BY <2>1 DEF ReaderInv, TypeOK, ChunkInv, Size, Chunk, NoChunk
  <2>3. /\ rd' \in [at : {"idle", "serve", "recv", "wait", "drain"}, p : Nat]
        /\ rd'.at \in {"idle", "recv"} /\ (rd'.at = "recv" => ~eof /\ rd'.p = rd.p)
    BY <2>1 DEF ReaderInv, TypeOK, AtRest
  <2>4. Rest' = Rest /\ ChannelInv'
    BY <2>1 DEF Rest, ReaderInv, ChannelInv
  <2>5. TypeOK'
    BY <2>1, <2>2, <2>3 DEF ReaderInv, TypeOK
  <2>6. ChunkInv'
    <3>1. /\ cur'.lo <= cur'.hi /\ off' <= Size(cur)' /\ read' + (Size(cur)' - off') = Rest'
          /\ ~(off' < Size(cur)')
      BY <2>1, <2>2, <2>4 DEF NoChunk
    <3>2. rd.p > 0
      BY <2>1 DEF ReaderInv, ChunkInv
    <3>3. rd'.at # "idle" => rd'.at = "recv" /\ rd'.p > 0
      BY <2>3, <3>2
    <3> QED
      BY <2>1, <2>3, <3>1, <3>3 DEF ChunkInv
  <2>7. EndInv'
    BY <2>1, <2>2, <2>3 DEF ReaderInv, EndInv, LimitSpent, LimitExact
  <2> QED
    BY <2>4, <2>5, <2>6, <2>7 DEF ReaderInv
<1> USE BoundAssumption
        DEF ReaderInv, TypeOK, ChannelInv, ChunkInv, EndInv, LimitSpent, LimitExact,
            Rest, pipeVars, sendVars, readVars
<1>3. ASSUME NEW n \in 0..Batch, NEW endStream \in BOOLEAN, Callback(n, endStream)
      PROVE  ReaderInv'
  BY <1>3 DEF Callback
<1>4. CASE SendRefused
  BY <1>4 DEF SendRefused, Quiet
<1>5. CASE CallbackReturns
  BY <1>5 DEF CallbackReturns, Quiet
<1>6. CASE GiveUp
  BY <1>6 DEF GiveUp
<1>7. ASSUME NEW k \in 1..MaxRead, Call(k) PROVE ReaderInv'
  BY <1>7 DEF Call
<1>8. CASE NothingQueued
  BY <1>8 DEF NothingQueued
<1>9. CASE ObserveDone
  BY <1>9 DEF ObserveDone
<1>10. CASE ReportEOF
  BY <1>10 DEF ReportEOF, AtRest, NoChunk, Size
<1>11. CASE UNCHANGED vars
  BY <1>11 DEF vars
<1> HIDE DEF ReaderInv
<1> QED
  BY <1>1, <1>2, <1>3, <1>4, <1>5, <1>6, <1>7, <1>8, <1>9, <1>10, <1>11, Zenon

LEMMA ReaderInvCorrect == Spec => []ReaderInv
<1>1. ReaderInv /\ [Next]_vars => ReaderInv'
  BY SenderKeeps, ReceiveKeeps, ServeKeeps, OthersKeep, Zenon DEF Next, Sender, Reader
<1> QED
  BY <1>1, InitReader, PTL DEF Spec

\* Every variable has its type and the channel its capacity.
THEOREM TypeCorrect == Spec => []TypeOK
<1>1. ReaderInv => TypeOK
  BY DEF ReaderInv
<1> QED
  BY <1>1, ReaderInvCorrect, PTL

\* The handler gets the bytes in order, none twice and none left out (body.go,
\* Read and fillBuffer).
THEOREM InOrderCorrect == Spec => []InOrder
<1>1. ReaderInv => InOrder
  BY DEF ReaderInv, TypeOK, ChunkInv, InOrder, NextByte, Rest, Size, Chunk
<1> QED
  BY <1>1, ReaderInvCorrect, PTL

\* onLimit fires once, when exactly limit bytes were read (body.go, fireLimit).
THEOREM LimitExactCorrect == Spec => []LimitExact
<1>1. ReaderInv => LimitExact
  BY DEF ReaderInv, EndInv
<1> QED
  BY <1>1, ReaderInvCorrect, PTL

\* The pipe is closed once the handler has had EOF or has given the body up.
ClosedInv == eof \/ givenUp => done

LEMMA NextClosedInv == ReaderInv /\ ClosedInv /\ [Next]_vars => ClosedInv'
<1> SUFFICES ASSUME ReaderInv, ClosedInv, [Next]_vars PROVE ClosedInv'
  OBVIOUS
<1>0. /\ eof \in BOOLEAN /\ done \in BOOLEAN /\ givenUp \in BOOLEAN
      /\ LimitSpent => eof
      /\ limit \in Nat /\ read \in Nat /\ (armed <=> limit > 0 /\ read < limit)
      /\ rd.at = "drain" => done
  BY LimitsAssumption DEF ReaderInv, TypeOK, EndInv
<1>1. CASE Serve
  <2>1. givenUp' = givenUp /\ (ReachLimit \/ UNCHANGED <<eof, done>>)
    BY <1>1 DEF Serve, sendVars
  <2>2. limit > 0 => armed
    BY <1>0, <1>1 DEF Serve, LimitSpent
  <2>3. ReachLimit => limit > 0 \/ UNCHANGED <<eof, done>>
    BY <1>1 DEF Serve
  <2>4. ReachLimit /\ armed => done'
    BY Zenon DEF ReachLimit
  <2> QED
    BY <2>1, <2>2, <2>3, <2>4 DEF ClosedInv
<1>2. CASE ServePastLimit
  <2>1. eof /\ done
    BY <1>0, <1>2 DEF ServePastLimit, ClosedInv
  <2>2. done'
    BY <1>2, <2>1, Zenon DEF ServePastLimit, ReachLimit
  <2> QED
    BY <2>2 DEF ClosedInv
<1>3. CASE ReportEOF
  <2>1. done /\ done' = done
    BY <1>0, <1>3 DEF ReportEOF, pipeVars
  <2> QED
    BY <2>1 DEF ClosedInv
<1>4. CASE GiveUp
  BY <1>4 DEF GiveUp, ClosedInv
<1>5. CASE CallbackReturns
  <2>1. UNCHANGED <<eof, givenUp>> /\ (done => done')
    BY <1>5, Zenon DEF CallbackReturns, readVars
  <2> QED
    BY <2>1 DEF ClosedInv
<1>6. CASE UNCHANGED <<eof, givenUp, done>>
  BY <1>6 DEF ClosedInv
<1>7. \/ Serve \/ ServePastLimit \/ ReportEOF \/ GiveUp \/ CallbackReturns
      \/ UNCHANGED <<eof, givenUp, done>>
  BY DEF Next, Sender, Reader, Callback, Send, SendRefused, Call, Release, Receive,
     NothingQueued, ObserveDone, vars, pipeVars, sendVars, readVars
<1> QED
  BY <1>1, <1>2, <1>3, <1>4, <1>5, <1>6, <1>7

\* Neither side waits for a reason that is gone: the safety behind ReadReturns
\* and GivingUpFreesSender (body.go 36-60, 107-187).
THEOREM NobodyParkedCorrect == Spec => []NobodyParked
<1>1. Init => ClosedInv
  BY Zenon DEF Init, ClosedInv
<1>2. ReaderInv /\ ClosedInv => NobodyParked
  <2> SUFFICES ASSUME ReaderInv, ClosedInv PROVE NobodyParked
    OBVIOUS
  <2>1. ASSUME rd.at = "wait", ch = <<>>, ~done
        PROVE  read = sent /\ ~ended /\ ~givenUp
    <3>1. cur = NoChunk /\ off = 0 /\ Rest = sent /\ read + (Size(cur) - off) = Rest
      BY <2>1 DEF ReaderInv, ChunkInv, Rest
    <3>2. read = sent
      BY <3>1 DEF ReaderInv, TypeOK, Size, NoChunk
    <3> QED
      BY <2>1, <3>2 DEF ReaderInv, EndInv, ClosedInv
  <2> QED
    BY <2>1 DEF NobodyParked, ClosedInv
<1> QED
  BY <1>1, <1>2, NextClosedInv, ReaderInvCorrect, PTL DEF Spec

\* r.Body is the promised stream: its EOF is final and honest.
THEOREM ReaderIsStream == Spec => ImplementsStream
<1>1. Init => Stream!Init
  BY LimitsAssumption DEF Init, Stream!Init
<1>2. ASSUME ReaderInv, [Next]_vars PROVE [Stream!Next]_(Stream!bvars)
  <2> USE DEF Stream!Next, Stream!bvars, pipeVars, sendVars, readVars
  <2>1. ASSUME NEW k \in 0..MaxChunk, Send(k) PROVE [Stream!Next]_(Stream!bvars)
    <3>1. sent \in Nat /\ k \in Nat /\ snd.busy /\ ~ended
      BY <1>2, <2>1, BoundAssumption DEF Send, ReaderInv, TypeOK, EndInv
    <3> QED
      BY <2>1, <3>1 DEF Send, Stream!Offer
  <2>2. CASE CallbackReturns
    BY <1>2, <2>2 DEF CallbackReturns, Stream!Finish, ReaderInv, TypeOK
  <2>3. CASE GiveUp
    BY <2>3 DEF GiveUp, Stream!GiveUp
  <2>4. CASE Serve
    BY <1>2, <2>4, ServeKeeps
  <2>5. CASE ServePastLimit
    <3>1. eof' = eof
      BY <1>2, <2>5 DEF ServePastLimit, ReachLimit, ReaderInv, TypeOK, EndInv
    <3> QED
      BY <2>5, <3>1 DEF ServePastLimit
  <2>6. CASE ReportEOF
    <3>1. ch = <<>> /\ rd.at = "drain" /\ eof' = TRUE
          /\ UNCHANGED <<limit, sent, ended, givenUp, read>>
      BY <2>6 DEF ReportEOF
    <3>2. done /\ ~eof /\ read = sent
      BY <1>2, <3>1 DEF ReaderInv, TypeOK, EndInv, ChunkInv, Rest, Size, NoChunk
    <3>3. givenUp \/ ended
      BY <1>2, <3>2 DEF ReaderInv, EndInv
    <3> QED
      BY <3>1, <3>2, <3>3 DEF Stream!EndOfStream
  <2>7. ASSUME NEW n \in 0..Batch, NEW endStream \in BOOLEAN, Callback(n, endStream)
        PROVE  UNCHANGED Stream!bvars
    BY <2>7 DEF Callback
  <2>8. ASSUME NEW k \in 1..MaxRead, Call(k) PROVE UNCHANGED Stream!bvars
    BY <2>8 DEF Call
  <2>9. CASE SendRefused \/ Release \/ Receive \/ NothingQueued \/ ObserveDone
    BY <2>9 DEF SendRefused, Release, Receive, NothingQueued, ObserveDone
  <2>10. CASE UNCHANGED vars
    BY <2>10 DEF vars
  <2> HIDE DEF Stream!Next, Stream!bvars
  <2> QED
    BY <1>2, <2>1, <2>2, <2>3, <2>4, <2>5, <2>6, <2>7, <2>8, <2>9, <2>10
       DEF Next, Sender, Reader
<1> QED
  BY <1>1, <1>2, ReaderInvCorrect, PTL DEF Spec, ImplementsStream, Stream!Spec
===============================================================================
