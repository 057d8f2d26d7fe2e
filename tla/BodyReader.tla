------------------------------ MODULE BodyReader ------------------------------
(***************************************************************************)
(* body.go: the bodyPipe between Envoy's worker thread, which sends chunks *)
(* inside body callbacks and closes the pipe at the end of the body, and   *)
(* the handler's goroutine, which calls bodyReader.Read.  Whoever calls    *)
(* SkipBody, or OnStreamComplete, closes the pipe at any other time.       *)
(*                                                                         *)
(* The bytes of a body are numbered from 0 in the order Envoy delivers     *)
(* them; a chunk is the interval [lo, hi).  Read's steps are those between *)
(* which another thread can act: serving from the current chunk, and the   *)
(* three selects.                                                          *)
(***************************************************************************)
EXTENDS Naturals, Sequences

CONSTANTS
  Cap,       \* capacity of the channel
  MaxBytes,  \* bound: bytes of a body
  MaxChunk,  \* bound: bytes of a chunk
  Batch,     \* bound: chunks one callback carries
  MaxRead,   \* bound: length of the slice given to Read
  Limits     \* limits a handler may set; 0 stands for none

ASSUME CapAssumption    == Cap \in Nat \ {0}
ASSUME BoundAssumption  == /\ MaxBytes \in Nat /\ MaxChunk \in Nat
                           /\ Batch \in Nat /\ MaxRead \in Nat \ {0}
ASSUME LimitsAssumption == Limits \subseteq Nat

VARIABLES
  limit,     \* bodyReader.limit
  ch, done,  \* bodyPipe: queued chunks; is done closed
  sent,      \* bytes Envoy has got into the channel
  snd,       \* the callback on the worker thread: is it sending, chunks left
             \* of it, and is its last chunk the body's
  ended,     \* the worker has closed the pipe at the end of the body
  givenUp,   \* SkipBody or OnStreamComplete has closed it
  cur, off, eof, read, armed,  \* bodyReader; armed: onLimit is set
  fired,     \* how often onLimit was called
  rd         \* the reader: where it is in Read, and len(p)

pipeVars == <<ch, done>>
sendVars == <<sent, snd, ended, givenUp>>
readVars == <<cur, off, eof, read, armed, fired, rd>>
vars == <<limit, pipeVars, sendVars, readVars>>

Chunk   == [lo : Nat, hi : Nat]
NoChunk == [lo |-> 0, hi |-> 0]
Size(c) == c.hi - c.lo

Quiet == [busy |-> FALSE, left |-> 0, end |-> FALSE]
AtRest == [at |-> "idle", p |-> 0]

Init ==
  /\ limit \in Limits
  /\ ch = <<>> /\ done = FALSE
  /\ sent = 0 /\ snd = Quiet /\ ended = FALSE /\ givenUp = FALSE
  /\ cur = NoChunk /\ off = 0 /\ eof = FALSE /\ read = 0
  /\ armed = (limit > 0) /\ fired = 0
  /\ rd = AtRest

-----------------------------------------------------------------------------
(***************************************************************************)
(* The worker thread.                                                      *)
(***************************************************************************)

\* A callback with n chunks.  Once the pipe is closed the filter's flags keep
\* later callbacks from sending.
Callback(n, endStream) ==
  /\ ~snd.busy /\ ~done
  /\ snd' = [busy |-> TRUE, left |-> n, end |-> endStream]
  /\ UNCHANGED <<limit, pipeVars, sent, ended, givenUp, readVars>>

\* A mutant: the channel has no capacity limit.
SendWithoutRoom(k) ==
  /\ snd.busy /\ snd.left > 0
  /\ sent + k <= MaxBytes
  /\ ch' = Append(ch, [lo |-> sent, hi |-> sent + k])
  /\ sent' = sent + k
  /\ snd' = [snd EXCEPT !.left = @ - 1]
  /\ UNCHANGED <<limit, done, ended, givenUp, readVars>>
\* The channel takes a chunk of k bytes; it may even if done is closed.
Send(k) ==
  /\ snd.busy /\ snd.left > 0
  /\ Len(ch) < Cap
  /\ sent + k <= MaxBytes
  /\ ch' = Append(ch, [lo |-> sent, hi |-> sent + k])
  /\ sent' = sent + k
  /\ snd' = [snd EXCEPT !.left = @ - 1]
  /\ UNCHANGED <<limit, done, ended, givenUp, readVars>>

\* send returns false, and the callback at once.
SendRefused ==
  /\ snd.busy /\ snd.left > 0
  /\ done
  /\ snd' = Quiet
  /\ UNCHANGED <<limit, pipeVars, sent, ended, givenUp, readVars>>

CallbackReturns ==
  /\ snd.busy /\ snd.left = 0
  /\ ended' = (ended \/ snd.end)
  /\ done' = (done \/ snd.end)
  /\ snd' = Quiet
  /\ UNCHANGED <<limit, ch, sent, givenUp, readVars>>

\* SkipBody on some goroutine, or OnStreamComplete: close once.
GiveUp ==
  /\ ~givenUp
  /\ givenUp' = TRUE
  /\ done' = TRUE
  /\ UNCHANGED <<limit, ch, sent, snd, ended, readVars>>

-----------------------------------------------------------------------------
(***************************************************************************)
(* bodyReader.Read on the handler's goroutine.                             *)
(***************************************************************************)

\* Read(p) with len(p) = k; Read of an empty slice returns at once.
Call(k) ==
  /\ rd.at = "idle"
  /\ rd' = [at |-> "serve", p |-> k]
  /\ UNCHANGED <<limit, pipeVars, sendVars, cur, off, eof, read, armed, fired>>

Smaller(a, b) == IF a < b THEN a ELSE b

\* A mutant: the read is not capped at what the limit allows.
ServableUncapped == Smaller(rd.p, Size(cur) - off)
\* How many bytes of the current chunk this Read may copy.
Servable ==
  LET fits == Smaller(rd.p, Size(cur) - off)
  IN  IF limit > 0 THEN Smaller(fits, limit - read) ELSE fits

\* A mutant: the limit is reached, and nobody is told.
LimitForgotten == eof' = TRUE /\ UNCHANGED <<armed, fired, done>>
\* fireLimit: onLimit, which closes the pipe, is called once and cleared.
ReachLimit ==
  /\ eof' = TRUE
  /\ armed' = FALSE
  /\ fired' = IF armed THEN fired + 1 ELSE fired
  /\ done' = (done \/ armed)

LimitSpent == limit > 0 /\ read >= limit

\* A mutant: a short read drops the rest of the chunk.
ServeDropsRest ==
  /\ rd.at = "serve" /\ off < Size(cur) /\ ~LimitSpent
  /\ off' = Size(cur)
  /\ read' = read + Servable
  /\ IF limit > 0 /\ read' >= limit
     THEN ReachLimit
     ELSE UNCHANGED <<eof, armed, fired, done>>
  /\ rd' = AtRest
  /\ UNCHANGED <<limit, ch, sendVars, cur>>
\* Bytes of the current chunk are copied and Read returns.
Serve ==
  /\ rd.at = "serve" /\ off < Size(cur) /\ ~LimitSpent
  /\ off' = off + Servable
  /\ read' = read + Servable
  /\ IF limit > 0 /\ read' >= limit
     THEN ReachLimit
     ELSE UNCHANGED <<eof, armed, fired, done>>
  /\ rd' = AtRest
  /\ UNCHANGED <<limit, ch, sendVars, cur>>

\* The limit was reached by an earlier Read: EOF without bytes.
ServePastLimit ==
  /\ rd.at = "serve" /\ off < Size(cur) /\ LimitSpent
  /\ ReachLimit
  /\ rd' = AtRest
  /\ UNCHANGED <<limit, ch, sendVars, cur, off, read>>

\* The current chunk is used up and let go; after EOF there is only EOF.
Release ==
  /\ rd.at = "serve" /\ off >= Size(cur)
  /\ cur' = NoChunk /\ off' = 0
  /\ rd' = IF eof THEN AtRest ELSE [rd EXCEPT !.at = "recv"]
  /\ UNCHANGED <<limit, pipeVars, sendVars, eof, read, armed, fired>>

\* Each of the three selects takes a queued chunk: the first one and the drain
\* prefer it, the second takes it or done, whichever is ready.
Receive ==
  /\ rd.at \in {"recv", "wait", "drain"} /\ ch # <<>>
  /\ cur' = Head(ch) /\ off' = 0
  /\ ch' = Tail(ch)
  /\ rd' = [rd EXCEPT !.at = "serve"]
  /\ UNCHANGED <<limit, done, sendVars, eof, read, armed, fired>>

NothingQueued ==
  /\ rd.at = "recv" /\ ch = <<>>
  /\ rd' = [rd EXCEPT !.at = "wait"]
  /\ UNCHANGED <<limit, pipeVars, sendVars, cur, off, eof, read, armed, fired>>

\* A mutant: done is taken for EOF although a chunk may just have been queued.
ObserveDoneAsEOF ==
  /\ rd.at = "wait" /\ done
  /\ eof' = TRUE
  /\ rd' = AtRest
  /\ UNCHANGED <<limit, pipeVars, sendVars, cur, off, read, armed, fired>>
ObserveDone ==
  /\ rd.at = "wait" /\ done
  /\ rd' = [rd EXCEPT !.at = "drain"]
  /\ UNCHANGED <<limit, pipeVars, sendVars, cur, off, eof, read, armed, fired>>

ReportEOF ==
  /\ rd.at = "drain" /\ ch = <<>>
  /\ eof' = TRUE
  /\ rd' = AtRest
  /\ UNCHANGED <<limit, pipeVars, sendVars, cur, off, read, armed, fired>>

-----------------------------------------------------------------------------

Sender == (\E k \in 0..MaxChunk : Send(k)) \/ SendRefused \/ CallbackReturns

\* A mutant: Read has no case for done.
ReaderWithoutDone ==
  Serve \/ ServePastLimit \/ Release \/ Receive \/ NothingQueued
Reader ==
  \/ Serve \/ ServePastLimit \/ Release \/ Receive \/ NothingQueued
  \/ ObserveDone \/ ReportEOF

Next ==
  \/ \E n \in 0..Batch, endStream \in BOOLEAN : Callback(n, endStream)
  \/ Sender
  \/ GiveUp
  \/ \E k \in 1..MaxRead : Call(k)
  \/ Reader

\* A callback on the worker and a Read in progress go on when they can.  The
\* peer need not send more and the handler need not read on.
Fairness == WF_vars(Sender) /\ WF_vars(Reader)

Spec == Init /\ [][Next]_vars
FairSpec == Spec /\ Fairness

-----------------------------------------------------------------------------
(***************************************************************************)
(* Properties.                                                             *)
(***************************************************************************)

\* Every variable has its type, and the channel its capacity.
TypeOK ==
  /\ limit \in Limits
  /\ ch \in Seq(Chunk) /\ Len(ch) <= Cap /\ done \in BOOLEAN
  /\ sent \in Nat /\ ended \in BOOLEAN /\ givenUp \in BOOLEAN
  /\ snd \in [busy : BOOLEAN, left : Nat, end : BOOLEAN]
  /\ cur \in Chunk /\ off \in Nat /\ eof \in BOOLEAN /\ read \in Nat
  /\ armed \in BOOLEAN /\ fired \in Nat
  /\ rd \in [at : {"idle", "serve", "recv", "wait", "drain"}, p : Nat]

\* The byte the reader will hand out next, if it hands out any more.
NextByte ==
  IF off < Size(cur) THEN cur.lo + off
  ELSE IF ch # <<>> THEN Head(ch).lo ELSE sent

\* The handler gets the bytes of the body in order, none twice and none left
\* out, across chunk borders, short reads and the reader's three selects.
InOrder == NextByte = read

\* onLimit, which makes the filter stream the rest of the body, is called when
\* exactly limit bytes were read, never before and never a second time.
LimitExact ==
  /\ fired = (IF limit > 0 /\ read = limit THEN 1 ELSE 0)
  /\ limit > 0 => read <= limit

\* r.Body as a handler may rely on it.
Stream == INSTANCE ByteStream WITH
  lim <- limit, offered <- sent, delivered <- read
ImplementsStream == Stream!Spec

\* Whoever waits has reason to: a Read parked in its select has had every byte
\* that was sent, of a body that goes on; a callback parked on a full channel
\* has a handler that may still ask for more.
NobodyParked ==
  /\ rd.at = "wait" /\ ch = <<>> /\ ~done => read = sent /\ ~ended /\ ~givenUp
  /\ snd.busy /\ snd.left > 0 /\ Len(ch) = Cap /\ ~done => ~eof /\ ~givenUp

\* A Read in progress returns if there is a byte for it or the pipe is closed.
ReadReturns == (rd.at # "idle" /\ (done \/ read < sent)) ~> rd.at = "idle"

\* A callback blocked on a full channel returns once the handler has reached
\* its limit or given the body up, or the stream has gone (RATIONALE.md, "Why
\* bodyPipe Uses a Separate Done Signal").
GivingUpFreesSender == (snd.busy /\ (givenUp \/ eof)) ~> ~snd.busy
===============================================================================
