-------------------------- MODULE HandlerCallsProofs --------------------------
(***************************************************************************)
(* Proofs about HandlerCalls, for every capacity and any number of calls   *)
(* and chunks: what reaches the wire, and what a Flush without an error    *)
(* means.                                                                  *)
(***************************************************************************)
EXTENDS HandlerCalls, TLAPS

Sends == {"headers", "data", "end"}
KindAt == [at \in {"stream", "flush", "close", "do"} |->
             CASE at = "stream" -> "headers" [] at = "flush" -> "data"
               [] at = "close" -> "end" [] at = "do" -> "callout"]

\* Calls are numbered in order; the handler waits for the last one, and only a
\* call that was made has a closure, an acknowledgement or a result.
NumberInv ==
  /\ go.at \in {"stream", "flush", "close", "do"} => go.id = calls /\ calls > 0
  /\ calls > MaxCalls => ~open /\ go.at # "stream"
  /\ \A id \in acks \cup results \cup callouts \cup flushed : id <= calls
  /\ \A i \in 1..Len(sched) :
       /\ sched[i].kind \in Sends \cup {"callout", "finish"}
       /\ sched[i].kind # "finish" => sched[i].id \in 1..calls
       /\ sched[i].kind = "finish" => i = Len(sched) /\ go.at = "done" /\ sched[i].id = 0
       /\ go.at \in {"stream", "flush", "close", "do"} /\ sched[i].id = go.id
            => sched[i].kind = KindAt[go.at]
  /\ \A i \in 1..Len(wire) : wire[i].id <= calls
  /\ \A i, j \in 1..Len(sched) :
       i < j /\ sched[j].kind # "finish" => sched[i].id < sched[j].id
  /\ \A i \in 1..Len(wire), j \in 1..Len(sched) :
       sched[j].kind # "finish" => wire[i].id < sched[j].id

\* Headers are scheduled once, first; data and end only once they are on the
\* wire; nothing but a callout or the closure of run() follows the end.
QueueInv ==
  \A i \in 1..Len(sched) :
    /\ sched[i].kind = "headers" =>
         wire = <<>> /\ \A j \in 1..Len(sched) : sched[j].kind = "headers" => i = j
    /\ sched[i].kind \in {"data", "end"} => wire # <<>>
    /\ sched[i].kind = "end" =>
         /\ ~open /\ go.at # "stream"
         /\ \A j \in (i + 1)..Len(sched) : sched[j].kind \in {"callout", "finish"}

SentInv ==
  /\ open => wire # <<>>
  /\ acks # {} => wire # <<>>
  /\ \A i \in 1..Len(wire) : wire[i].kind = "end" =>
       /\ ~open /\ go.at # "stream"
       /\ \A j \in 1..Len(sched) : sched[j].kind \in {"callout", "finish"}
  /\ "finish" \in forwarded => ~responded /\ go.at = "done"

QuietInv ==
  ~responded =>
    /\ ~open /\ go.at # "stream"
    /\ \A i \in 1..Len(sched) : sched[i].kind \notin Sends
    /\ wire = <<>>

OrderInv == QueueInv /\ SentInv /\ QuietInv /\ WireWellFormed

\* A Flush is acknowledged when its data is on the wire.
FlushInv ==
  /\ go.at = "flush" /\ go.id \in acks =>
       \E i \in 1..Len(wire) : wire[i] = [kind |-> "data", id |-> go.id]
  /\ FlushMeansSent

CallsInv == TypeOK /\ NumberInv /\ OrderInv /\ FlushInv

-----------------------------------------------------------------------------

LEMMA InitCalls == Init => CallsInv
<1> SUFFICES ASSUME Init PROVE CallsInv
  OBVIOUS
<1> USE BoundAssumption DEF Init
<1>1. TypeOK
  <2>1. /\ cancelled \in BOOLEAN /\ skipped \in BOOLEAN
        /\ responded \in BOOLEAN /\ open \in BOOLEAN
    BY Zenon
  <2>2. sched \in Seq(Closure) /\ wire \in Seq(Closure)
    BY DEF Closure
  <2>3. go \in [at : {"start", "run", "stream", "flush", "close", "do", "done"},
                id : Calls \cup {0}]
    OBVIOUS
  <2>4. chunks \in 0..MaxChunks /\ queued \in 0..Cap
    BY CapAssumption
  <2> QED
    BY <2>1, <2>2, <2>3, <2>4 DEF TypeOK
<1>2. NumberInv
  BY DEF NumberInv
<1>3. OrderInv
  BY DEF OrderInv, QueueInv, SentInv, QuietInv, WireWellFormed
<1>4. FlushInv
  BY DEF FlushInv, FlushMeansSent
<1> QED
  BY <1>1, <1>2, <1>3, <1>4 DEF CallsInv

\* What Append and Tail do to a sequence.
LEMMA Appended ==
  ASSUME NEW S, NEW s \in Seq(S), NEW e \in S
  PROVE  /\ Append(s, e) \in Seq(S)
         /\ Len(Append(s, e)) = Len(s) + 1 /\ Len(s) \in Nat
         /\ Append(s, e)[Len(s) + 1] = e
         /\ \A i \in 1..Len(s) : Append(s, e)[i] = s[i]
  OBVIOUS

LEMMA Tailed ==
  ASSUME NEW S, NEW s \in Seq(S), s # <<>>
  PROVE  /\ Tail(s) \in Seq(S)
         /\ Len(Tail(s)) = Len(s) - 1 /\ Len(s) \in Nat \ {0}
         /\ Head(s) = s[1] /\ Head(s) \in S
         /\ \A i \in 1..Len(Tail(s)) : Tail(s)[i] = s[i + 1]
  OBVIOUS

\* A call that blocks is a new one, the last in the scheduler's queue.
LEMMA Scheduled ==
  ASSUME TypeOK, NumberInv,
         NEW place \in {"stream", "flush", "close", "do"},
         Blocks(place, KindAt[place]),
         responded' \in BOOLEAN, open' \in BOOLEAN,
         place = "close" => open /\ ~open', place # "close" => open' = open
  PROVE  /\ TypeOK' /\ NumberInv'
         /\ calls <= MaxCalls /\ Len(sched) \in Nat /\ Len(sched') = Len(sched) + 1
         /\ sched'[Len(sched) + 1] = [kind |-> KindAt[place], id |-> calls + 1]
         /\ \A i \in 1..Len(sched) : sched'[i] = sched[i]
<1> DEFINE e == [kind |-> KindAt[place], id |-> calls + 1]
<1> USE BoundAssumption
<1>0. KindAt[place] = "end" <=> place = "close"
  BY DEF KindAt
<1>1. calls \in Nat /\ calls <= MaxCalls /\ calls' = calls + 1
  BY <1>0 DEF Blocks, TypeOK, NumberInv, Calls
<1>2. e \in Closure /\ e.kind = KindAt[place] /\ e.id = calls + 1
  BY <1>1 DEF Closure, Kinds, Calls, KindAt
<1>3. sched' = Append(sched, e) /\ sched \in Seq(Closure)
  BY DEF Blocks, TypeOK
<1> HIDE DEF e
<1>4. /\ sched' \in Seq(Closure) /\ Len(sched) \in Nat /\ Len(sched') = Len(sched) + 1
      /\ sched'[Len(sched) + 1] = e
      /\ \A i \in 1..Len(sched) : sched'[i] = sched[i]
  BY <1>2, <1>3, Appended
<1>5. /\ go.at = "run" /\ go' = [at |-> place, id |-> calls + 1]
      /\ UNCHANGED <<cancelled, wk, chunks, queued, skipped, flushed, acks,
                     results, callouts, wire, forwarded>>
  BY DEF Blocks, bodyVars, envoyVars
<1>6. TypeOK'
  <2>1. calls' \in Calls \cup {0}
    BY <1>1 DEF Calls
  <2>2. go' \in [at : {"start", "run", "stream", "flush", "close", "do", "done"},
                 id : Calls \cup {0}]
    BY <1>1, <1>5 DEF Calls
  <2> QED
    BY <1>4, <1>5, <2>1, <2>2 DEF TypeOK
<1>7. NumberInv'
  <2>1. /\ go'.at = place /\ go'.id = calls'
        /\ calls' > MaxCalls => ~open' /\ go'.at # "stream"
    <3>1. calls' > MaxCalls => place = "close"
      BY <1>0, <1>1 DEF Blocks
    <3> QED
      BY <1>1, <1>5, <3>1
  <2>2. \A id \in acks' \cup results' \cup callouts' \cup flushed' : id <= calls'
    <3>1. \A id \in acks \cup results \cup callouts \cup flushed : id <= calls /\ id \in Nat
      BY DEF NumberInv, TypeOK, Calls
    <3> QED
      BY <1>1, <1>5, <3>1
  <2>3. ASSUME NEW i \in 1..Len(sched')
        PROVE  /\ sched'[i].kind \in Sends \cup {"callout", "finish"}
               /\ sched'[i].kind # "finish" => sched'[i].id \in 1..calls'
               /\ sched'[i].kind # "finish"
               /\ sched'[i].id = go'.id => sched'[i].kind = KindAt[place]
    <3>1. CASE i = Len(sched) + 1
      BY <1>1, <1>2, <1>4, <3>1 DEF Sends, KindAt
    <3>2. CASE i \in 1..Len(sched)
      <4>1. sched[i].kind # "finish" /\ sched[i].id \in 1..calls
            /\ sched[i].kind \in Sends \cup {"callout", "finish"}
        BY <1>5, <3>2 DEF NumberInv
      <4> QED
        BY <1>1, <1>4, <1>5, <3>2, <4>1
    <3> QED
      BY <1>4, <3>1, <3>2
  <2>4. ASSUME NEW i \in 1..Len(sched'), NEW j \in 1..Len(sched'), i < j
        PROVE  sched'[i].id < sched'[j].id
    <3>0. \A k \in 1..Len(sched) : sched[k].kind # "finish" /\ sched[k].id \in 1..calls
      BY <1>5 DEF NumberInv
    <3>1. i \in 1..Len(sched) /\ sched'[i].id = sched[i].id
      BY <1>4, <2>4
    <3>2. CASE j = Len(sched) + 1
      BY <1>1, <1>2, <1>4, <3>0, <3>1, <3>2
    <3>3. CASE j \in 1..Len(sched)
      BY <1>4, <2>4, <3>0, <3>1, <3>3 DEF NumberInv
    <3> QED
      BY <1>4, <3>2, <3>3
  <2>5. ASSUME NEW i \in 1..Len(wire'), NEW j \in 1..Len(sched')
        PROVE  wire'[i].id < sched'[j].id
    <3>1. CASE j \in 1..Len(sched)
      BY <1>4, <1>5, <3>1 DEF NumberInv
    <3>2. CASE j = Len(sched) + 1
      <4>1. wire[i] \in Closure /\ wire[i].id <= calls
        BY <1>5 DEF NumberInv, TypeOK
      <4>2. wire[i].id \in Nat
        BY <4>1 DEF Closure, Calls
      <4> QED
        BY <1>1, <1>2, <1>4, <1>5, <3>2, <4>1, <4>2
    <3> QED
      BY <1>4, <3>1, <3>2
  <2>6. \A i \in 1..Len(wire') : wire'[i].id <= calls'
    <3>1. \A i \in 1..Len(wire) : wire[i] \in Closure /\ wire[i].id <= calls
      BY DEF NumberInv, TypeOK
    <3> QED
      BY <1>1, <1>5, <3>1 DEF Closure, Calls
  <2> QED
    BY <1>1, <2>1, <2>2, <2>3, <2>4, <2>5, <2>6 DEF NumberInv
<1> QED
  BY <1>1, <1>4, <1>6, <1>7 DEF e

\* A closure that runs is the first in the queue; it may put itself on the wire
\* and end its call.
LEMMA Executed ==
  ASSUME TypeOK, NumberInv,
         NEW kind \in Sends \cup {"callout"}, Runs(kind),
         wire' = wire \/ wire' = Append(wire, Head(sched)),
         \A ids \in {acks', results', callouts'} :
           ids \subseteq acks \cup results \cup callouts \cup {Head(sched).id},
         acks' \subseteq Calls, results' \subseteq Calls, callouts' \subseteq Calls,
         forwarded' = forwarded
  PROVE  /\ TypeOK' /\ NumberInv'
         /\ Len(sched) \in Nat \ {0} /\ Len(sched') = Len(sched) - 1
         /\ sched[1] = Head(sched) /\ sched[1].kind = kind /\ sched[1].id \in 1..calls
         /\ sched[1] \in Closure
         /\ \A i \in 1..Len(sched') : sched'[i] = sched[i + 1]
<1>1. /\ sched \in Seq(Closure) /\ sched # <<>> /\ sched' = Tail(sched)
      /\ Head(sched).kind = kind
      /\ UNCHANGED <<cancelled, wk, chunks, queued, skipped, responded, go,
                     calls, open, flushed>>
  BY DEF Runs, TypeOK, bodyVars, handlerVars
<1>2. /\ sched' \in Seq(Closure) /\ Head(sched) \in Closure /\ Head(sched) = sched[1]
      /\ Len(sched) \in Nat \ {0} /\ Len(sched') = Len(sched) - 1
      /\ \A i \in 1..Len(sched') : sched'[i] = sched[i + 1]
  BY <1>1, Tailed
<1>3. sched[1].kind = kind /\ kind # "finish" /\ sched[1].id \in 1..calls /\ calls \in Nat
  <2>1. 1 \in 1..Len(sched) /\ sched[1].kind = kind /\ kind # "finish"
    BY <1>1, <1>2 DEF Sends
  <2>2. calls \in Nat
    BY BoundAssumption DEF TypeOK, Calls
  <2> QED
    BY <2>1, <2>2 DEF NumberInv
<1>4. /\ wire' \in Seq(Closure) /\ Len(wire') \in Nat
      /\ \A i \in 1..Len(wire') : \/ i \in 1..Len(wire) /\ wire'[i] = wire[i]
                                  \/ wire'[i] = sched[1]
  <2>1. wire \in Seq(Closure) /\ Len(wire) \in Nat
    BY DEF TypeOK
  <2>2. CASE wire' = wire
    BY <2>1, <2>2
  <2>3. CASE wire' = Append(wire, sched[1])
    BY <1>2, <2>1, <2>3, Appended
  <2> QED
    BY <1>2, <2>2, <2>3
<1>5. TypeOK'
  BY <1>1, <1>2, <1>4 DEF TypeOK
<1>6. NumberInv'
  <2>1. \A id \in acks' \cup results' \cup callouts' \cup flushed' : id <= calls'
    <3>1. acks' \cup results' \cup callouts'
            \subseteq acks \cup results \cup callouts \cup {sched[1].id}
      BY <1>2
    <3>2. \A id \in acks \cup results \cup callouts \cup flushed : id <= calls
      BY DEF NumberInv
    <3> QED
      BY <1>1, <1>3, <3>1, <3>2
  <2>2. \A i \in 1..Len(sched') :
          /\ i + 1 \in 1..Len(sched) /\ i + 1 > 1 /\ sched'[i] = sched[i + 1]
          /\ i + 1 = Len(sched) <=> i = Len(sched')
    BY <1>2
  <2>3. ASSUME NEW i \in 1..Len(sched')
        PROVE  /\ sched'[i].kind \in Sends \cup {"callout", "finish"}
               /\ sched'[i].kind # "finish" => sched'[i].id \in 1..calls'
               /\ sched'[i].kind = "finish" =>
                    i = Len(sched') /\ go'.at = "done" /\ sched'[i].id = 0
               /\ go'.at \in {"stream", "flush", "close", "do"} /\ sched'[i].id = go'.id
                    => sched'[i].kind = KindAt[go'.at]
    BY <1>1, <2>2 DEF NumberInv
  <2>4. ASSUME NEW i \in 1..Len(sched'), NEW j \in 1..Len(sched'),
               i < j, sched'[j].kind # "finish"
        PROVE  sched'[i].id < sched'[j].id
    <3>1. i + 1 \in 1..Len(sched) /\ j + 1 \in 1..Len(sched) /\ i + 1 < j + 1
      BY <1>2, <2>2, <2>4
    <3>2. sched[j + 1].kind # "finish"
      BY <2>2, <2>4
    <3>3. sched[i + 1].id < sched[j + 1].id
      BY <3>1, <3>2 DEF NumberInv
    <3> QED
      BY <2>2, <3>3
  <2>5. \A j \in 1..Len(sched') :
          sched'[j].kind # "finish" => sched[1].id < sched'[j].id
    BY <1>2, <2>2 DEF NumberInv
  <2>6. ASSUME NEW i \in 1..Len(wire') PROVE wire'[i].id <= calls'
    BY <1>1, <1>3, <1>4 DEF NumberInv
  <2>7. ASSUME NEW i \in 1..Len(wire'), NEW j \in 1..Len(sched'),
               sched'[j].kind # "finish"
        PROVE  wire'[i].id < sched'[j].id
    BY <1>4, <2>2, <2>5, <2>7 DEF NumberInv
  <2> QED
    BY <1>1, <2>1, <2>3, <2>4, <2>6, <2>7 DEF NumberInv
<1> QED
  BY <1>1, <1>2, <1>3, <1>5, <1>6

\* It goes behind the closures that must run before it.
LEMMA Ordered ==
  ASSUME TypeOK, NumberInv, OrderInv, TypeOK',
         NEW place \in {"stream", "flush", "close", "do"},
         go.at = "run", go'.at = place, UNCHANGED <<acks, wire, forwarded>>,
         place = "stream" => ~responded /\ responded',
         place # "stream" => responded' = responded,
         place \in {"flush", "close"} => open,
         IF place = "close" THEN ~open' ELSE open' = open,
         Len(sched') = Len(sched) + 1,
         sched'[Len(sched) + 1].kind = KindAt[place],
         \A i \in 1..Len(sched) : sched'[i] = sched[i]
  PROVE  OrderInv'
<1> DEFINE last == Len(sched) + 1
<1>1. /\ Len(sched) \in Nat /\ Len(sched') = last
      /\ \A i \in 1..Len(sched') : i \in 1..Len(sched) \/ i = last
      /\ last \in 1..Len(sched') /\ last \notin 1..Len(sched)
  BY DEF TypeOK
<1>2. /\ KindAt[place] = "headers" <=> place = "stream"
      /\ KindAt[place] = "data" <=> place = "flush"
      /\ KindAt[place] = "end" <=> place = "close"
      /\ KindAt[place] \in Sends \cup {"callout"}
  BY DEF KindAt, Sends
<1>3. "finish" \notin forwarded
  BY DEF OrderInv, SentInv
<1>4. place = "stream" => wire = <<>> /\ ~open
                          /\ \A i \in 1..Len(sched) : sched[i].kind \notin Sends
  BY DEF OrderInv, QuietInv
<1>5. place \in {"flush", "close"} =>
        /\ responded /\ wire # <<>>
        /\ \A i \in 1..Len(sched) : sched[i].kind \notin {"headers", "end"}
        /\ \A i \in 1..Len(wire) : wire[i].kind # "end"
  BY DEF OrderInv, QuietInv, SentInv, QueueInv
<1>6. open' => open /\ place # "close"
  BY DEF TypeOK
<1>a. \A i \in 1..Len(sched) : sched'[i] = sched[i]
  OBVIOUS
<1>b. sched'[last].kind = KindAt[place]
  OBVIOUS
<1> HIDE DEF last
<1>7. QueueInv'
  <2>1. ASSUME NEW i \in 1..Len(sched'), sched'[i].kind = "headers"
        PROVE  wire' = <<>> /\ \A j \in 1..Len(sched') : sched'[j].kind = "headers" => i = j
    <3>1. CASE i = last
      BY <1>1, <1>2, <1>4, <1>a, <1>b, <2>1, <3>1 DEF Sends
    <3>2. CASE i \in 1..Len(sched)
      <4>1. sched[i].kind = "headers"
        BY <1>a, <2>1, <3>2
      <4>2. place # "stream"
        BY <1>4, <3>2, <4>1 DEF Sends
      <4> QED
        BY <1>1, <1>2, <1>a, <1>b, <3>2, <4>1, <4>2 DEF OrderInv, QueueInv
    <3> QED
      BY <1>1, <3>1, <3>2
  <2>2. ASSUME NEW i \in 1..Len(sched'), sched'[i].kind \in {"data", "end"}
        PROVE  wire' # <<>>
    BY <1>1, <1>2, <1>5, <1>a, <1>b, <2>2 DEF OrderInv, QueueInv
  <2>3. ASSUME NEW i \in 1..Len(sched'), sched'[i].kind = "end"
        PROVE  /\ ~open' /\ go'.at # "stream"
               /\ \A j \in (i + 1)..Len(sched') : sched'[j].kind \in {"callout", "finish"}
    <3>1. CASE i = last
      <4>1. \A j \in (i + 1)..Len(sched') : FALSE
        BY <1>1, <3>1
      <4> QED
        BY <1>2, <1>6, <1>b, <2>3, <3>1, <4>1
    <3>2. CASE i \in 1..Len(sched)
      <4>1. sched[i].kind = "end"
        BY <1>a, <2>3, <3>2
      <4>2. /\ ~open
            /\ \A j \in (i + 1)..Len(sched) : sched[j].kind \in {"callout", "finish"}
        BY <3>2, <4>1 DEF OrderInv, QueueInv
      <4>3. place = "do"
        BY <1>4, <1>5, <3>2, <4>1 DEF Sends
      <4>4. KindAt[place] = "callout"
        BY <4>3 DEF KindAt
      <4>5. ASSUME NEW j \in (i + 1)..Len(sched')
            PROVE  j = last \/ (j \in (i + 1)..Len(sched) /\ j \in 1..Len(sched))
        BY <1>1, <3>2
      <4> QED
        BY <1>6, <1>a, <1>b, <4>2, <4>3, <4>4, <4>5
    <3> QED
      BY <1>1, <3>1, <3>2
  <2> QED
    BY <2>1, <2>2, <2>3 DEF QueueInv
<1>8. SentInv'
  <2>1. (open' => wire' # <<>>) /\ (acks' # {} => wire' # <<>>)
    BY <1>6 DEF OrderInv, SentInv
  <2>2. ASSUME NEW i \in 1..Len(wire'), wire'[i].kind = "end"
        PROVE  /\ ~open' /\ go'.at # "stream"
               /\ \A j \in 1..Len(sched') : sched'[j].kind \in {"callout", "finish"}
    <3>1. i \in 1..Len(wire) /\ wire[i].kind = "end" /\ wire # <<>>
      BY <2>2
    <3>2. ~open /\ \A j \in 1..Len(sched) : sched[j].kind \in {"callout", "finish"}
      BY <3>1 DEF OrderInv, SentInv
    <3>3. place = "do"
      BY <1>4, <1>5, <3>1
    <3>4. KindAt[place] = "callout"
      BY <3>3 DEF KindAt
    <3> QED
      BY <1>1, <1>6, <1>a, <1>b, <3>2, <3>3, <3>4
  <2> QED
    BY <1>3, <2>1, <2>2 DEF SentInv
<1>9. QuietInv'
  <2> SUFFICES ASSUME ~responded' PROVE QuietInv'
    BY DEF QuietInv
  <2>1. place = "do" /\ ~responded
    BY <1>5
  <2>2. KindAt[place] = "callout"
    BY <2>1 DEF KindAt
  <2>3. /\ ~open
        /\ \A i \in 1..Len(sched) : sched[i].kind \notin Sends
        /\ wire = <<>>
    BY <2>1 DEF OrderInv, QuietInv
  <2>4. \A i \in 1..Len(sched') : sched'[i].kind \notin Sends
    BY <1>1, <1>a, <1>b, <2>2, <2>3 DEF Sends
  <2> QED
    BY <1>6, <2>1, <2>3, <2>4 DEF QuietInv
<1> QED
  BY <1>7, <1>8, <1>9 DEF OrderInv, WireWellFormed

\* Those behind it run after it, on the same wire or on one it extended.
LEMMA Reordered ==
  ASSUME TypeOK, NumberInv, OrderInv, TypeOK',
         NEW kind \in Sends \cup {"callout"},
         UNCHANGED <<responded, go, open, forwarded>>,
         Len(sched) \in Nat \ {0}, Len(sched') = Len(sched) - 1,
         sched[1].kind = kind,
         \A i \in 1..Len(sched') : sched'[i] = sched[i + 1],
         IF kind = "callout"
         THEN UNCHANGED <<wire, acks>>
         ELSE /\ Len(wire') = Len(wire) + 1
              /\ wire'[Len(wire) + 1] = sched[1]
              /\ \A i \in 1..Len(wire) : wire'[i] = wire[i]
  PROVE  OrderInv'
<1> DEFINE last == Len(wire) + 1
<1>1. /\ 1 \in 1..Len(sched)
      /\ \A i \in 1..Len(sched') : i + 1 \in 1..Len(sched) /\ i + 1 # 1 /\ i + 1 > 1
  OBVIOUS
<1>2. sched # <<>> /\ Len(wire) \in Nat /\ (wire = <<>> <=> Len(wire) = 0)
      /\ (wire' = <<>> <=> Len(wire') = 0) /\ Len(wire') \in Nat
  BY DEF TypeOK
<1>3. /\ "finish" \in forwarded => ~responded /\ go.at = "done"
      /\ "finish" \in forwarded => wire = <<>>
      /\ forwarded' = forwarded
  BY DEF OrderInv, SentInv, WireWellFormed
<1>4. \A i \in 1..Len(sched') : sched'[i] = sched[i + 1]
  OBVIOUS
<1>5. ASSUME kind # "callout"
      PROVE  /\ responded /\ kind \in Sends
             /\ \A i \in 1..Len(wire) : wire[i].kind # "end"
             /\ kind = "headers" <=> wire = <<>>
             /\ \A i \in 1..Len(sched') : sched'[i].kind # "headers"
             /\ kind = "end" =>
                  /\ ~open /\ go.at # "stream"
                  /\ \A i \in 1..Len(sched') : sched'[i].kind \in {"callout", "finish"}
  <2>1. kind \in Sends
    BY <1>5
  <2>2. responded /\ \A i \in 1..Len(wire) : wire[i].kind # "end"
    BY <1>1, <2>1 DEF OrderInv, QuietInv, SentInv, Sends
  <2>3. kind = "headers" <=> wire = <<>>
    BY <1>1, <2>1 DEF OrderInv, QueueInv, Sends
  <2>4. \A i \in 1..Len(sched') : sched'[i].kind # "headers"
    BY <1>1, <1>4, <2>3 DEF OrderInv, QueueInv
  <2>5. ASSUME kind = "end"
        PROVE  /\ ~open /\ go.at # "stream"
               /\ \A i \in 1..Len(sched') : sched'[i].kind \in {"callout", "finish"}
    <3>1. /\ ~open /\ go.at # "stream"
          /\ \A j \in (1 + 1)..Len(sched) : sched[j].kind \in {"callout", "finish"}
      BY <1>1, <2>5 DEF OrderInv, QueueInv
    <3>2. \A i \in 1..Len(sched') : i + 1 \in (1 + 1)..Len(sched)
      BY <1>1
    <3> QED
      BY <1>4, <3>1, <3>2
  <2> QED
    BY <2>1, <2>2, <2>3, <2>4, <2>5
<1>6. ASSUME kind # "callout"
      PROVE  /\ Len(wire') = last /\ wire' # <<>> /\ wire'[last].kind = kind
             /\ wire'[last].id = sched[1].id
             /\ \A i \in 1..Len(wire) : wire'[i] = wire[i]
             /\ \A i \in 1..Len(wire') : i \in 1..Len(wire) \/ i = last
  BY <1>2, <1>6
<1>7. kind = "callout" => wire' = wire /\ acks' = acks
  OBVIOUS
<1>8. responded' = responded /\ go' = go /\ open' = open
  OBVIOUS
<1> HIDE DEF last
<1>9. QueueInv'
  <2>1. ASSUME NEW i \in 1..Len(sched'), sched'[i].kind = "headers"
        PROVE  wire' = <<>> /\ \A j \in 1..Len(sched') : sched'[j].kind = "headers" => i = j
    <3>1. kind = "callout"
      BY <1>5, <2>1
    <3>2. sched[i + 1].kind = "headers" /\ i + 1 \in 1..Len(sched)
      BY <1>1, <1>4, <2>1
    <3>3. wire = <<>> /\ \A j \in 1..Len(sched) : sched[j].kind = "headers" => i + 1 = j
      BY <3>2 DEF OrderInv, QueueInv
    <3>4. ASSUME NEW j \in 1..Len(sched'), sched'[j].kind = "headers" PROVE i = j
      <4>1. sched[j + 1].kind = "headers" /\ j + 1 \in 1..Len(sched)
        BY <1>1, <1>4, <3>4
      <4>2. i + 1 = j + 1
        BY <3>3, <4>1
      <4> QED
        BY <4>2
    <3> QED
      BY <1>7, <3>1, <3>3, <3>4
  <2>2. ASSUME NEW i \in 1..Len(sched'), sched'[i].kind \in {"data", "end"}
        PROVE  wire' # <<>>
    <3>1. sched[i + 1].kind \in {"data", "end"} /\ i + 1 \in 1..Len(sched)
      BY <1>1, <1>4, <2>2
    <3> QED
      BY <1>6, <1>7, <3>1 DEF OrderInv, QueueInv
  <2>3. ASSUME NEW i \in 1..Len(sched'), sched'[i].kind = "end"
        PROVE  /\ ~open' /\ go'.at # "stream"
               /\ \A j \in (i + 1)..Len(sched') : sched'[j].kind \in {"callout", "finish"}
    <3>1. sched[i + 1].kind = "end" /\ i + 1 \in 1..Len(sched)
      BY <1>1, <1>4, <2>3
    <3>2. /\ ~open /\ go.at # "stream"
          /\ \A j \in ((i + 1) + 1)..Len(sched) : sched[j].kind \in {"callout", "finish"}
      BY <3>1 DEF OrderInv, QueueInv
    <3>3. \A j \in (i + 1)..Len(sched') : j \in 1..Len(sched') /\ j + 1 \in ((i + 1) + 1)..Len(sched)
      OBVIOUS
    <3> QED
      BY <1>4, <1>8, <3>2, <3>3
  <2> QED
    BY <2>1, <2>2, <2>3 DEF QueueInv
<1>10. SentInv'
  <2>1. (open' => wire' # <<>>) /\ (acks' # {} => wire' # <<>>)
    BY <1>6, <1>7, <1>8 DEF OrderInv, SentInv
  <2>2. ASSUME NEW i \in 1..Len(wire'), wire'[i].kind = "end"
        PROVE  /\ ~open' /\ go'.at # "stream"
               /\ \A j \in 1..Len(sched') : sched'[j].kind \in {"callout", "finish"}
    <3>1. CASE kind = "callout"
      <4>1. /\ ~open /\ go.at # "stream"
            /\ \A j \in 1..Len(sched) : sched[j].kind \in {"callout", "finish"}
        BY <1>7, <2>2, <3>1 DEF OrderInv, SentInv
      <4> QED
        BY <1>1, <1>4, <1>8, <4>1
    <3>2. CASE kind # "callout"
      <4>1. i = last /\ kind = "end"
        BY <1>5, <1>6, <2>2, <3>2
      <4> QED
        BY <1>5, <1>8, <3>2, <4>1
    <3> QED
      BY <3>1, <3>2
  <2> QED
    BY <1>3, <1>8, <2>1, <2>2 DEF SentInv
<1>11. QuietInv'
  <2> SUFFICES ASSUME ~responded' PROVE QuietInv'
    BY DEF QuietInv
  <2>1. ~responded /\ kind = "callout"
    BY <1>5, <1>8
  <2>2. /\ ~open /\ go.at # "stream"
        /\ \A i \in 1..Len(sched) : sched[i].kind \notin Sends
        /\ wire = <<>>
    BY <2>1 DEF OrderInv, QuietInv
  <2> QED
    BY <1>1, <1>4, <1>7, <1>8, <2>1, <2>2 DEF QuietInv
<1>12. WireWellFormed'
  <2>1. CASE kind = "callout"
    BY <1>3, <1>7, <2>1 DEF OrderInv, WireWellFormed
  <2>2. CASE kind # "callout"
    <3>1. "finish" \notin forwarded'
      BY <1>3, <1>5, <2>2
    <3>2. \A i \in 1..Len(wire) :
            /\ wire[i].kind \in {"headers", "data", "end"}
            /\ wire[i].kind = "headers" <=> i = 1
            /\ \A j \in 1..(i - 1) : wire[j].id < wire[i].id
      BY DEF OrderInv, WireWellFormed
    <3>3. \A j \in 1..Len(wire) : wire[j].id < sched[1].id
      <4>1. sched[1].kind # "finish"
        BY DEF Sends
      <4> QED
        BY <1>1, <4>1 DEF NumberInv
    <3>4. ASSUME NEW i \in 1..Len(wire')
          PROVE  /\ wire'[i].kind \in {"headers", "data", "end"}
                 /\ wire'[i].kind = "headers" <=> i = 1
                 /\ wire'[i].kind = "end" => i = Len(wire')
                 /\ \A j \in 1..(i - 1) : wire'[j].id < wire'[i].id
      <4>1. CASE i = last
        <5>1. kind = "headers" <=> i = 1
          BY <1>2, <1>5, <2>2, <4>1 DEF last
        <5>2. \A j \in 1..(i - 1) : j \in 1..Len(wire)
          BY <1>2, <4>1 DEF last
        <5> QED
          BY <1>5, <1>6, <2>2, <3>3, <4>1, <5>1, <5>2 DEF Sends
      <4>2. CASE i \in 1..Len(wire)
        <5>1. \A j \in 1..(i - 1) : j \in 1..Len(wire)
          BY <1>2, <4>2
        <5> QED
          BY <1>5, <1>6, <2>2, <3>2, <4>2, <5>1, SMTT(30)
      <4> QED
        BY <1>6, <2>2, <4>1, <4>2
    <3> QED
      BY <3>1, <3>4 DEF WireWellFormed
  <2> QED
    BY <2>1, <2>2
<1> QED
  BY <1>9, <1>10, <1>11, <1>12 DEF OrderInv

\* What the handler does on its own keeps the invariant, ...
LEMMA HandlerKeepsCalls == CallsInv /\ (Handler \/ TimesOut) => CallsInv'
<1> SUFFICES ASSUME CallsInv, Handler \/ TimesOut PROVE CallsInv'
  OBVIOUS
<1> USE BoundAssumption, CapAssumption
<1>1. CASE CallStream
  <2>1. /\ Blocks("stream", KindAt["stream"])
        /\ go.at = "run" /\ go' = [at |-> "stream", id |-> calls + 1]
        /\ UNCHANGED <<flushed, acks, wire, forwarded>>
    BY <1>1 DEF CallStream, KindAt, Blocks, envoyVars
  <2>2. /\ responded' \in BOOLEAN /\ open' \in BOOLEAN
        /\ ~responded /\ responded' /\ open' = open
    BY <1>1, Zenon DEF CallStream, CallsInv, TypeOK
  <2>3. /\ TypeOK' /\ NumberInv'
        /\ calls <= MaxCalls /\ Len(sched) \in Nat /\ Len(sched') = Len(sched) + 1
        /\ sched'[Len(sched) + 1] = [kind |-> KindAt["stream"], id |-> calls + 1]
        /\ \A i \in 1..Len(sched) : sched'[i] = sched[i]
    BY <2>1, <2>2, Scheduled DEF CallsInv
  <2>4. OrderInv'
    BY <2>1, <2>2, <2>3, Ordered DEF CallsInv
  <2>5. FlushInv'
    BY <2>1, <2>3 DEF CallsInv, NumberInv, FlushInv, FlushMeansSent, TypeOK, Calls
  <2> QED
    BY <2>3, <2>4, <2>5 DEF CallsInv
<1>2. CASE CallFlush
  <2>1. /\ Blocks("flush", KindAt["flush"])
        /\ go.at = "run" /\ go' = [at |-> "flush", id |-> calls + 1]
        /\ UNCHANGED <<flushed, acks, wire, forwarded>>
    BY <1>2 DEF CallFlush, KindAt, Blocks, envoyVars
  <2>2. /\ responded' \in BOOLEAN /\ open' \in BOOLEAN
        /\ open /\ responded' = responded /\ open' = open
    BY <1>2, Zenon DEF CallFlush, CallsInv, TypeOK
  <2>3. /\ TypeOK' /\ NumberInv'
        /\ calls <= MaxCalls /\ Len(sched) \in Nat /\ Len(sched') = Len(sched) + 1
        /\ sched'[Len(sched) + 1] = [kind |-> KindAt["flush"], id |-> calls + 1]
        /\ \A i \in 1..Len(sched) : sched'[i] = sched[i]
    BY <2>1, <2>2, Scheduled DEF CallsInv
  <2>4. OrderInv'
    BY <2>1, <2>2, <2>3, Ordered DEF CallsInv
  <2>5. FlushInv'
    BY <2>1, <2>3 DEF CallsInv, NumberInv, FlushInv, FlushMeansSent, TypeOK, Calls
  <2> QED
    BY <2>3, <2>4, <2>5 DEF CallsInv
<1>3. CASE CallClose
  <2>1. /\ Blocks("close", KindAt["close"])
        /\ go.at = "run" /\ go' = [at |-> "close", id |-> calls + 1]
        /\ UNCHANGED <<flushed, acks, wire, forwarded>>
    BY <1>3 DEF CallClose, KindAt, Blocks, envoyVars
  <2>2. /\ responded' \in BOOLEAN /\ open' \in BOOLEAN
        /\ open /\ ~open' /\ responded' = responded
    BY <1>3, Zenon DEF CallClose, CallsInv, TypeOK
  <2>3. /\ TypeOK' /\ NumberInv'
        /\ calls <= MaxCalls /\ Len(sched) \in Nat /\ Len(sched') = Len(sched) + 1
        /\ sched'[Len(sched) + 1] = [kind |-> KindAt["close"], id |-> calls + 1]
        /\ \A i \in 1..Len(sched) : sched'[i] = sched[i]
    BY <2>1, <2>2, Scheduled DEF CallsInv
  <2>4. OrderInv'
    BY <2>1, <2>2, <2>3, Ordered DEF CallsInv
  <2>5. FlushInv'
    BY <2>1, <2>3 DEF CallsInv, NumberInv, FlushInv, FlushMeansSent, TypeOK, Calls
  <2> QED
    BY <2>3, <2>4, <2>5 DEF CallsInv
<1>4. CASE CallDo
  <2>1. /\ Blocks("do", KindAt["do"])
        /\ go.at = "run" /\ go' = [at |-> "do", id |-> calls + 1]
        /\ UNCHANGED <<flushed, acks, wire, forwarded>>
    BY <1>4 DEF CallDo, KindAt, Blocks, envoyVars
  <2>2. /\ responded' \in BOOLEAN /\ open' \in BOOLEAN
        /\ responded' = responded /\ open' = open
    BY <1>4, Zenon DEF CallDo, CallsInv, TypeOK
  <2>3. /\ TypeOK' /\ NumberInv'
        /\ calls <= MaxCalls /\ Len(sched) \in Nat /\ Len(sched') = Len(sched) + 1
        /\ sched'[Len(sched) + 1] = [kind |-> KindAt["do"], id |-> calls + 1]
        /\ \A i \in 1..Len(sched) : sched'[i] = sched[i]
    BY <2>1, <2>2, Scheduled DEF CallsInv
  <2>4. OrderInv'
    BY <2>1, <2>2, <2>3, Ordered DEF CallsInv
  <2>5. FlushInv'
    BY <2>1, <2>3 DEF CallsInv, NumberInv, FlushInv, FlushMeansSent, TypeOK, Calls
  <2> QED
    BY <2>3, <2>4, <2>5 DEF CallsInv
<1> USE DEF CallsInv, Calls, Closure, Kinds, KindAt, Sends, At, envoyVars, bodyVars, handlerVars
<1>5. CASE SkipBody
  <2>1. TypeOK'
    BY <1>5 DEF SkipBody, TypeOK, NumberInv
  <2>2. NumberInv'
    BY <1>5 DEF SkipBody, TypeOK, NumberInv
  <2>3. OrderInv'
    BY <1>5 DEF SkipBody, TypeOK, NumberInv, OrderInv, QueueInv, SentInv,
       QuietInv, WireWellFormed
  <2>4. FlushInv'
    BY <1>5 DEF SkipBody, FlushInv, FlushMeansSent
  <2> QED
    BY <2>1, <2>2, <2>3, <2>4 DEF CallsInv
<1>6. CASE Acknowledged
  <2>1. TypeOK'
    BY <1>6 DEF Acknowledged, TypeOK, NumberInv
  <2>2. NumberInv'
    <3>1. /\ UNCHANGED <<sched, wire, calls, acks, results, callouts>> /\ go'.at = "run"
          /\ flushed' \subseteq flushed \cup {go.id} /\ go.id = calls
          /\ open' => open \/ go.at = "stream"
          /\ \A i \in 1..Len(sched) : sched[i].kind # "finish"
      BY <1>6, Zenon DEF Acknowledged, NumberInv
    <3>2. calls \in Nat /\ \A id \in flushed' : id <= calls
      BY <3>1 DEF NumberInv, TypeOK
    <3>3. calls' > MaxCalls => ~open'
      BY <3>1 DEF NumberInv
    <3> HIDE DEF KindAt, Sends, Closure, Kinds, Calls
    <3> QED
      BY <3>1, <3>2, <3>3 DEF NumberInv
  <2>3. OrderInv'
    BY <1>6 DEF Acknowledged, TypeOK, NumberInv, OrderInv, QueueInv, SentInv,
       QuietInv, WireWellFormed
  <2>4. FlushInv'
    BY <1>6 DEF Acknowledged, FlushInv, FlushMeansSent
  <2> QED
    BY <2>1, <2>2, <2>3, <2>4 DEF CallsInv
<1>7. CASE CalloutReturns
  <2>1. TypeOK'
    BY <1>7 DEF CalloutReturns, TypeOK, NumberInv
  <2>2. NumberInv'
    BY <1>7 DEF CalloutReturns, TypeOK, NumberInv
  <2>3. OrderInv'
    BY <1>7 DEF CalloutReturns, TypeOK, NumberInv, OrderInv, QueueInv, SentInv,
       QuietInv, WireWellFormed
  <2>4. FlushInv'
    BY <1>7 DEF CalloutReturns, FlushInv, FlushMeansSent
  <2> QED
    BY <2>1, <2>2, <2>3, <2>4 DEF CallsInv
<1>8. CASE TimesOut
  <2>1. TypeOK'
    BY <1>8 DEF TimesOut, TypeOK, NumberInv
  <2>2. NumberInv'
    BY <1>8 DEF TimesOut, TypeOK, NumberInv
  <2>3. OrderInv'
    BY <1>8 DEF TimesOut, TypeOK, NumberInv, OrderInv, QueueInv, SentInv,
       QuietInv, WireWellFormed
  <2>4. FlushInv'
    BY <1>8 DEF TimesOut, FlushInv, FlushMeansSent
  <2> QED
    BY <2>1, <2>2, <2>3, <2>4 DEF CallsInv
<1>9. CASE Return
  <2>1. TypeOK'
    BY <1>9 DEF Return, TypeOK, NumberInv
  <2>2. NumberInv'
    BY <1>9, SMTT(30) DEF Return, TypeOK, NumberInv
  <2>3. OrderInv'
    <3> DEFINE e == [kind |-> "finish", id |-> 0]
    <3>1. sched \in Seq(Closure) /\ e \in Closure /\ sched' = Append(sched, e)
          /\ UNCHANGED <<responded, open, acks, wire, forwarded>> /\ go.at = "run" /\ ~open
          /\ go'.at = "done"
      BY <1>9 DEF Return, TypeOK
    <3>2. /\ Len(sched) \in Nat /\ Len(sched') = Len(sched) + 1
          /\ sched'[Len(sched) + 1].kind = "finish"
          /\ \A i \in 1..Len(sched) : sched'[i] = sched[i]
      BY <3>1, Appended
    <3>3. "finish" \notin forwarded
      BY <3>1 DEF OrderInv, SentInv
    <3> HIDE DEF e, KindAt, Closure, Kinds, Calls
    <3>4. QueueInv'
      BY <3>1, <3>2 DEF OrderInv, QueueInv
    <3>5. SentInv'
      BY <3>1, <3>2, <3>3 DEF OrderInv, SentInv
    <3>6. QuietInv'
      BY <3>1, <3>2 DEF OrderInv, QuietInv
    <3> QED
      BY <3>1, <3>4, <3>5, <3>6 DEF OrderInv, WireWellFormed
  <2>4. FlushInv'
    BY <1>9 DEF Return, FlushInv, FlushMeansSent
  <2> QED
    BY <2>1, <2>2, <2>3, <2>4 DEF CallsInv
<1> HIDE DEF CallsInv, Calls, Closure, Kinds, KindAt, Sends, At, envoyVars, bodyVars, handlerVars
<1> QED
  BY <1>1, <1>2, <1>3, <1>4, <1>5, <1>6, <1>7, <1>8, <1>9, Zenon DEF Handler, ContextDone

\* ... and so does the worker.
LEMMA WorkerKeepsCalls ==
  ASSUME CallsInv,
         RunScheduled \/ CalloutDone \/ OnRequestBody \/ SendReturns \/ OnStreamComplete
  PROVE  CallsInv'
<1> USE BoundAssumption, CapAssumption
<1>1. ASSUME NEW kind \in Sends, RunSend(kind) PROVE CallsInv'
  <2>1. /\ Runs(kind) /\ wire' = Append(wire, Head(sched))
        /\ acks' = acks \cup {Head(sched).id}
        /\ UNCHANGED <<results, callouts, forwarded>>
        /\ UNCHANGED <<responded, go, calls, open, flushed>>
    BY <1>1 DEF RunSend, Runs, handlerVars
  <2>2. Head(sched).id \in Calls
    BY <2>1, Tailed, SMTT(30) DEF CallsInv, TypeOK, NumberInv, Runs, Calls, Sends
  <2>3. /\ TypeOK' /\ NumberInv'
        /\ Len(sched) \in Nat \ {0} /\ Len(sched') = Len(sched) - 1
        /\ sched[1] = Head(sched) /\ sched[1].kind = kind /\ sched[1].id \in 1..calls
        /\ sched[1] \in Closure
        /\ \A i \in 1..Len(sched') : sched'[i] = sched[i + 1]
    BY <2>1, <2>2, Executed DEF CallsInv, TypeOK
  <2>4. /\ Len(wire) \in Nat /\ Len(wire') = Len(wire) + 1
        /\ wire'[Len(wire) + 1] = sched[1]
        /\ \A i \in 1..Len(wire) : wire'[i] = wire[i]
    BY <2>1, <2>3, Appended DEF CallsInv, TypeOK
  <2>5. OrderInv'
    BY <2>1, <2>3, <2>4, Reordered DEF CallsInv, Sends
  <2>6. FlushInv'
    <3>1. 1 \in 1..Len(sched) /\ \A i \in 1..Len(wire) : i \in 1..Len(wire')
      BY <2>3, <2>4
    <3>2. FlushMeansSent'
      BY <2>1, <2>4, <3>1 DEF CallsInv, FlushInv, FlushMeansSent
    <3>3. ASSUME go.at = "flush", go.id \in acks'
          PROVE  \E i \in 1..Len(wire') : wire'[i] = [kind |-> "data", id |-> go.id]
      <4>1. CASE go.id \in acks
        BY <2>4, <3>1, <3>3, <4>1 DEF CallsInv, FlushInv
      <4>2. CASE go.id = sched[1].id
        <5>1. sched[1].kind = "data"
          BY <3>1, <3>3, <4>2 DEF CallsInv, NumberInv, KindAt
        <5>2. sched[1] = [kind |-> "data", id |-> go.id]
          BY <2>3, <4>2, <5>1 DEF Closure
        <5>3. Len(wire) + 1 \in 1..Len(wire')
          BY <2>4
        <5> QED
          BY <2>4, <5>2, <5>3
      <4> QED
        BY <2>1, <2>3, <3>3, <4>1, <4>2
    <3> QED
      BY <2>1, <3>2, <3>3 DEF FlushInv
  <2> QED
    BY <2>3, <2>5, <2>6 DEF CallsInv
<1>2. CASE RunCallout
  <2>1. /\ Runs("callout") /\ UNCHANGED <<acks, wire, forwarded>>
        /\ UNCHANGED <<responded, go, calls, open, flushed>>
    BY <1>2 DEF RunCallout, Runs, handlerVars
  <2>2. Head(sched).id \in Calls
    BY <2>1, Tailed DEF CallsInv, TypeOK, NumberInv, Runs, Calls
  <2>3. /\ TypeOK' /\ NumberInv'
        /\ Len(sched) \in Nat \ {0} /\ Len(sched') = Len(sched) - 1
        /\ sched[1].kind = "callout"
        /\ \A i \in 1..Len(sched') : sched'[i] = sched[i + 1]
    BY <1>2, <2>1, <2>2, Executed DEF CallsInv, TypeOK, RunCallout
  <2>4. OrderInv'
    BY <2>1, <2>3, Reordered DEF CallsInv
  <2>5. FlushInv'
    BY <2>1 DEF CallsInv, FlushInv, FlushMeansSent
  <2> QED
    BY <2>3, <2>4, <2>5 DEF CallsInv
<1>3. CASE RunFinish
  <2>1. /\ sched \in Seq(Closure) /\ sched # <<>> /\ sched' = Tail(sched)
        /\ Head(sched).kind = "finish"
        /\ UNCHANGED <<cancelled, wk, chunks, queued, skipped, responded, go,
                       calls, open, flushed, acks, results, callouts, wire>>
        /\ forwarded' = forwarded \cup (IF responded THEN {} ELSE {"finish"})
    BY <1>3 DEF RunFinish, Runs, CallsInv, TypeOK, bodyVars, handlerVars
  <2>2. sched' = <<>> /\ go.at = "done"
    <3>1. /\ sched' \in Seq(Closure) /\ Len(sched') = Len(sched) - 1
          /\ Len(sched) \in Nat \ {0} /\ sched[1].kind = "finish"
      BY <2>1, Tailed
    <3>2. 1 \in 1..Len(sched)
      BY <3>1
    <3>3. Len(sched) = 1 /\ go.at = "done"
      BY <3>1, <3>2 DEF CallsInv, NumberInv
    <3>4. Len(sched') = 0
      BY <3>1, <3>3
    <3> QED
      BY <3>1, <3>3, <3>4
  <2>3. "finish" \in forwarded' => ~responded /\ wire = <<>>
    <3>1. ~responded => wire = <<>>
      BY DEF CallsInv, OrderInv, QuietInv
    <3>2. "finish" \in forwarded => ~responded
      BY DEF CallsInv, OrderInv, SentInv
    <3>3. CASE responded
      BY <2>1, <3>2, <3>3
    <3>4. CASE ~responded
      BY <3>1, <3>4
    <3> QED
      BY <3>3, <3>4
  <2>4. forwarded' \subseteq {"body", "finish"}
    BY <2>1 DEF CallsInv, TypeOK
  <2>5. TypeOK'
    BY <2>1, <2>2, <2>4 DEF CallsInv, TypeOK
  <2>6. NumberInv'
    BY <2>1, <2>2 DEF CallsInv, TypeOK, NumberInv
  <2>7. OrderInv'
    BY <2>1, <2>2, <2>3 DEF CallsInv, OrderInv, QueueInv, SentInv, QuietInv,
       WireWellFormed
  <2>8. FlushInv'
    BY <2>1 DEF CallsInv, FlushInv, FlushMeansSent
  <2> QED
    BY <2>5, <2>6, <2>7, <2>8 DEF CallsInv
<1> USE DEF CallsInv, Calls, Closure, Kinds, KindAt, Sends, At, envoyVars, bodyVars, handlerVars
<1>4. ASSUME NEW id \in Calls, OnHttpCalloutDone(id) PROVE CallsInv'
  BY <1>4, SMTT(30) DEF OnHttpCalloutDone, TypeOK, NumberInv, OrderInv, QueueInv, SentInv,
     QuietInv, WireWellFormed, FlushInv, FlushMeansSent
<1>5. CASE OnRequestBody
  BY <1>5, SMTT(30) DEF OnRequestBody, TypeOK, NumberInv, OrderInv, QueueInv, SentInv,
     QuietInv, WireWellFormed, FlushInv, FlushMeansSent
<1>6. CASE SendReturns
  BY <1>6, SMTT(30) DEF SendReturns, TypeOK, NumberInv, OrderInv, QueueInv, SentInv,
     QuietInv, WireWellFormed, FlushInv, FlushMeansSent
<1>7. CASE OnStreamComplete
  BY <1>7, SMTT(30) DEF OnStreamComplete, TypeOK, NumberInv, OrderInv, QueueInv, SentInv,
     QuietInv, WireWellFormed, FlushInv, FlushMeansSent
<1> HIDE DEF CallsInv, Calls, Closure, Kinds, KindAt, Sends, At, envoyVars, bodyVars, handlerVars
<1> QED
  BY <1>1, <1>2, <1>3, <1>4, <1>5, <1>6, <1>7, Zenon DEF RunScheduled,
     CalloutDone, Sends

LEMMA CallsInvCorrect == Spec => []CallsInv
<1>1. CallsInv /\ UNCHANGED vars => CallsInv'
  BY DEF vars, envoyVars, bodyVars, handlerVars, CallsInv, TypeOK, NumberInv,
     OrderInv, QueueInv, SentInv, QuietInv,
      WireWellFormed, FlushInv, FlushMeansSent
<1>2. CallsInv /\ [Next]_vars => CallsInv'
  BY <1>1, HandlerKeepsCalls, WorkerKeepsCalls, Zenon DEF Next
<1> QED
  BY <1>2, InitCalls, PTL DEF Spec

\* Every variable has its type, whatever calls the handler makes.
THEOREM TypeCorrect == Spec => []TypeOK
  BY CallsInvCorrect, PTL DEF CallsInv

\* The client gets headers, data in the order of the Flush calls and at most one
\* end, whatever calls fail or time out; and the closure of run() does not
\* continue a streamed request (stream.go, filter.go run).
THEOREM WireWellFormedCorrect == Spec => []WireWellFormed
<1>1. CallsInv => WireWellFormed
  BY DEF CallsInv, OrderInv
<1> QED
  BY <1>1, CallsInvCorrect, PTL

\* A Flush that returned nil has handed its data to Envoy (stream.go, Flush).
THEOREM FlushMeansSentCorrect == Spec => []FlushMeansSent
<1>1. CallsInv => FlushMeansSent
  BY DEF CallsInv, FlushInv
<1> QED
  BY <1>1, CallsInvCorrect, PTL

-----------------------------------------------------------------------------

\* The handler has skipped the body before its first call.
AnswerInv == NoAnswerLost /\ (go.at # "start" => skipped)

Pending == \E i \in 1..Len(sched) : sched[i].id = go.id

LEMMA NextAnswerInv == CallsInv /\ AnswerInv /\ [Next]_vars => AnswerInv'
<1> SUFFICES ASSUME CallsInv, AnswerInv, [Next]_vars PROVE AnswerInv'
  OBVIOUS
<1>1. TypeOK /\ NumberInv /\ sched \in Seq(Closure)
  BY DEF CallsInv, TypeOK
<1>2. ASSUME NEW place \in {"stream", "flush", "close", "do"},
             NEW kind \in Sends \cup {"callout"}, Blocks(place, kind)
      PROVE  AnswerInv'
  <2> DEFINE e == [kind |-> kind, id |-> calls + 1]
  <2>1. /\ go.at = "run" /\ go' = [at |-> place, id |-> calls + 1]
        /\ sched' = Append(sched, e)
        /\ UNCHANGED <<cancelled, wk, skipped>>
    BY <1>2 DEF Blocks, bodyVars
  <2>2. Len(sched') = Len(sched) + 1 /\ sched'[Len(sched) + 1] = e /\ Len(sched) \in Nat
    BY <1>1, <2>1
  <2>3. Len(sched) + 1 \in 1..Len(sched') /\ sched'[Len(sched) + 1].id = go'.id
    BY <2>1, <2>2
  <2> HIDE DEF e
  <2>4. \E i \in 1..Len(sched') : sched'[i].id = go'.id
    BY <2>3
  <2> QED
    BY <2>1, <2>4 DEF AnswerInv, NoAnswerLost
<1>3. CASE CallStream \/ CallFlush \/ CallClose \/ CallDo
  BY <1>2, <1>3 DEF CallStream, CallFlush, CallClose, CallDo, Sends
<1>4. CASE SkipBody
  BY <1>4 DEF SkipBody, At, AnswerInv, NoAnswerLost
<1>5. CASE Acknowledged \/ CalloutReturns \/ TimesOut
  BY <1>5 DEF Acknowledged, CalloutReturns, TimesOut, At, bodyVars, AnswerInv,
              NoAnswerLost
<1>6. CASE Return
  BY <1>6 DEF Return, At, bodyVars, AnswerInv, NoAnswerLost
<1>7. ASSUME NEW kind \in Sends \cup {"callout", "finish"}, Runs(kind)
      PROVE  /\ UNCHANGED <<cancelled, wk, skipped, go>>
             /\ Pending => Pending' \/ go.id = Head(sched).id
             /\ go.at \in {"stream", "flush", "close", "do"} /\ go.id = Head(sched).id
                  => kind = KindAt[go.at]
  <2>1. /\ sched # <<>> /\ Head(sched).kind = kind /\ sched' = Tail(sched)
        /\ UNCHANGED <<cancelled, wk, skipped, go>>
    BY <1>7 DEF Runs, bodyVars, handlerVars
  <2>2. /\ Len(sched') = Len(sched) - 1 /\ Len(sched) \in Nat \ {0}
        /\ Head(sched) = sched[1]
        /\ \A i \in 1..Len(sched') : sched'[i] = sched[i + 1]
    BY <1>1, <2>1, Tailed
  <2>3. ASSUME NEW i \in 1..Len(sched), sched[i].id = go.id, go.id # sched[1].id
        PROVE  Pending'
    <3>1. i - 1 \in 1..Len(sched') /\ sched'[i - 1] = sched[(i - 1) + 1]
      BY <2>2, <2>3
    <3>2. (i - 1) + 1 = i
      OBVIOUS
    <3> QED
      BY <2>1, <2>3, <3>1, <3>2 DEF Pending
  <2>4. 1 \in 1..Len(sched)
    BY <2>2
  <2>5. go.at \in {"stream", "flush", "close", "do"} /\ go.id = sched[1].id
          => sched[1].kind = KindAt[go.at]
    BY <1>1, <2>4 DEF NumberInv
  <2> QED
    BY <2>1, <2>2, <2>3, <2>5 DEF Pending
<1>8. ASSUME NEW kind \in Sends, RunSend(kind) PROVE AnswerInv'
  <2>1. Runs(kind) /\ acks' = acks \cup {Head(sched).id}
        /\ UNCHANGED <<results, callouts>>
    BY <1>8 DEF RunSend
  <2>2. kind # "callout" /\ kind # "finish"
    BY DEF Sends
  <2> QED
    BY <1>7, <2>1, <2>2 DEF AnswerInv, NoAnswerLost, Pending, KindAt
<1>9. CASE RunCallout
  <2>1. /\ Runs("callout") /\ acks' = acks
        /\ results' \cup callouts' = results \cup callouts \cup {Head(sched).id}
    BY <1>9 DEF RunCallout
  <2>2. /\ UNCHANGED <<cancelled, wk, skipped, go>>
        /\ Pending => Pending' \/ go.id = Head(sched).id
        /\ go.at \in {"stream", "flush", "close", "do"} /\ go.id = Head(sched).id
             => "callout" = KindAt[go.at]
    BY <1>7, <2>1
  <2>3. go.at \in {"stream", "flush", "close"} /\ Pending => Pending'
    BY <2>2 DEF KindAt
  <2>4. go.at = "do" /\ Pending => Pending' \/ go.id \in results' \cup callouts'
    BY <2>1, <2>2
  <2> QED
    BY <2>1, <2>2, <2>3, <2>4 DEF AnswerInv, NoAnswerLost, Pending
<1>10. CASE RunFinish
  <2>1. Runs("finish") /\ UNCHANGED <<acks, results, callouts>>
    BY <1>10 DEF RunFinish
  <2>2. /\ UNCHANGED <<cancelled, wk, skipped, go>>
        /\ Pending => Pending' \/ go.id = Head(sched).id
        /\ go.at \in {"stream", "flush", "close", "do"} /\ go.id = Head(sched).id
             => "finish" = KindAt[go.at]
    BY <1>7, <2>1
  <2>3. go.at \in {"stream", "flush", "close", "do"} /\ Pending => Pending'
    BY <2>2 DEF KindAt
  <2> QED
    BY <2>1, <2>2, <2>3 DEF AnswerInv, NoAnswerLost, Pending
<1>11. ASSUME NEW id \in Calls, OnHttpCalloutDone(id) PROVE AnswerInv'
  BY <1>11 DEF OnHttpCalloutDone, bodyVars, handlerVars, AnswerInv, NoAnswerLost
<1>12. CASE OnRequestBody \/ SendReturns
  <2>1. /\ wk' # "gone" \/ wk' = wk
        /\ UNCHANGED <<cancelled, sched, skipped, go, acks, results, callouts>>
    BY <1>12 DEF OnRequestBody, SendReturns, handlerVars, envoyVars
  <2> QED
    BY <2>1 DEF AnswerInv, NoAnswerLost
<1>13. CASE OnStreamComplete
  BY <1>13 DEF OnStreamComplete, bodyVars, handlerVars, envoyVars, AnswerInv,
               NoAnswerLost
<1>14. CASE UNCHANGED vars
  BY <1>14 DEF vars, bodyVars, handlerVars, envoyVars, AnswerInv, NoAnswerLost
<1> QED
  BY <1>3, <1>4, <1>5, <1>6, <1>8, <1>9, <1>10, <1>11, <1>12, <1>13, <1>14
     DEF Next, Handler, ContextDone, RunScheduled, CalloutDone, Sends

\* No answer to a blocking call is lost, for any number of calls and chunks: it
\* is in the call's channel, or Envoy's to give, or its closure is scheduled on a
\* worker that is not waiting for the handler (stream.go, callout.go).
THEOREM NoAnswerLostCorrect == Spec => []NoAnswerLost
<1>1. Init => AnswerInv
  BY DEF Init, AnswerInv, NoAnswerLost
<1>2. AnswerInv => NoAnswerLost
  BY DEF AnswerInv
<1> QED
  BY <1>1, <1>2, NextAnswerInv, CallsInvCorrect, PTL DEF Spec
===============================================================================
