------------------------- MODULE HandlerFilterProofs -------------------------
(***************************************************************************)
(* Proofs about HandlerFilter, for every capacity, bound, limit and set of *)
(* plans: bodies are complete; a request is forwarded or answered once,    *)
(* whatever the order in which the worker runs its callbacks and the       *)
(* closures of the goroutine; what is queued for it is applied in time,    *)
(* and nothing is left held for good; and so the filter keeps the contract *)
(* of StreamContract.                                                      *)
(***************************************************************************)
EXTENDS HandlerFilter, TLAPS

-----------------------------------------------------------------------------
(***************************************************************************)
(* The operators on pipes, halves, the worker's state and the closures.    *)
(***************************************************************************)

\* A pipe stays a pipe: a chunk is put where there is room, taken where there
\* is one.
LEMMA PipeOps ==
  ASSUME NEW p \in Pipe
  PROVE  /\ Close(p) \in Pipe
         /\ p.len < Cap => Put(p) \in Pipe
         /\ p.len > 0 => Take(p) \in Pipe
<1>1. Close(p) \in Pipe
  BY DEF Pipe, Close
<1>2. p.len < Cap => Put(p) \in Pipe
  BY CapAssumption DEF Pipe, Put
<1>3. p.len > 0 => Take(p) \in Pipe
  BY CapAssumption DEF Pipe, Take
<1> QED
  BY <1>1, <1>2, <1>3

\* Envoy's reactions keep a half a half.
LEMMA HalfOps ==
  ASSUME NEW h \in Half
  PROVE  /\ Continue(h) \in Half
         /\ StopAndBuffer(h) \in Half
         /\ Resume(h) \in Half
         /\ \A n \in Nat, e \in BOOLEAN : Deliver(h, n, e) \in Half
         /\ \A d \in {"held", "sent"}, e \in BOOLEAN : Announce(h, d, e) \in Half
<1>1. Continue(h) \in Half /\ StopAndBuffer(h) \in Half
  BY DEF Half, Continue, StopAndBuffer
<1>2. Resume(h) \in Half
  <2>1. \A g \in Half : [g EXCEPT !.cont = @ + 1] \in Half
    BY DEF Half
  <2> QED
    BY <1>1, <2>1 DEF Resume
<1>3. ASSUME NEW n \in Nat, NEW e \in BOOLEAN PROVE Deliver(h, n, e) \in Half
  <2>1. [h EXCEPT !.in = @ + n] \in Half
    BY DEF Half
  <2>2. \A g \in Half : [g EXCEPT !.end = e] \in Half
    BY DEF Half
  <2>3. Deliver(h, n, e) = [[h EXCEPT !.in = @ + n] EXCEPT !.end = e]
    BY DEF Deliver, Half
  <2> QED
    BY <2>1, <2>2, <2>3
<1>4. ASSUME NEW d \in {"held", "sent"}, NEW e \in BOOLEAN
      PROVE  Announce(h, d, e) \in Half
  BY DEF Half, Announce
<1> QED
  BY <1>1, <1>2, <1>3, <1>4

\* The places of the worker thread.
LEMMA WorkerOps ==
  /\ Idle \in Worker
  /\ \A at \in {"reqSend", "respSend", "complete", "gone"}, n \in Nat, e \in BOOLEAN :
       Sending(at, n, e) \in Worker
  /\ \A w \in Worker : w.left > 0 => OneSent(w) \in Worker
  BY DEF Idle, Worker, Sending, OneSent

\* The queue of closures stays one.
LEMMA SchedOps ==
  ASSUME NEW s \in Seq(Closures)
  PROVE  /\ \A c \in Closures : Append(s, c) \in Seq(Closures)
         /\ s # <<>> => Tail(s) \in Seq(Closures)
<1>1. ASSUME NEW c \in Closures PROVE Append(s, c) \in Seq(Closures)
  OBVIOUS
<1>2. s # <<>> => Tail(s) \in Seq(Closures)
  OBVIOUS
<1> QED
  BY <1>1, <1>2

-----------------------------------------------------------------------------
(***************************************************************************)
(* Types.                                                                  *)
(***************************************************************************)

\* Response headers are announced once, so the one place in the channel is
\* enough.
HeadersOnce == resp.hdr = "idle" => respHeadersCh = 0

TypeInv == TypeOK /\ HeadersOnce

\* The initial state is well typed.
LEMMA InitTypeInv == Init => TypeInv
<1> SUFFICES ASSUME Init PROVE TypeInv
  OBVIOUS
<1>1. Booleans
  BY Zenon DEF Init, Booleans
<1>2. NoHalf \in Half /\ [len |-> 0, closed |-> FALSE] \in Pipe
  BY CapAssumption DEF NoHalf, Half, Pipe
<1>3. pc \in Places /\ sched \in Seq(Closures)
  BY DEF Init, Places, ReadingReq
<1> QED
  BY <1>1, <1>2, <1>3, WorkerOps DEF Init, TypeInv, TypeOK, HeadersOnce, NoHalf

\* No step gives a flag a value that is none.
LEMMA NextBooleans == TypeOK /\ [Next]_vars => Booleans'
<1> SUFFICES ASSUME TypeOK, [Next]_vars PROVE Booleans'
  OBVIOUS
<1> USE DEF TypeOK, Booleans, vars, envoyVars, flagVars, pipeVars, goVars
<1>1. CASE Callback
  <2>1. PICK e \in BOOLEAN :
          \/ OnRequestHeaders(e) \/ OnResponseHeaders(e)
          \/ \E n \in 0..Batch : OnRequestBody(n, e) \/ OnResponseBody(n, e)
    BY <1>1, Zenon DEF Callback
  <2> QED
    BY <2>1, Zenon DEF OnRequestHeaders, OnResponseHeaders, OnRequestBody, OnResponseBody
<1>2. CASE WorkerStep
  <2>1. wk.end \in BOOLEAN
    BY DEF Worker
  <2> QED
    BY <1>2, <2>1, Zenon DEF WorkerStep, SendRequestChunk, RequestSendRefused,
       RequestBodyReturns, SendResponseChunk, ResponseSendRefused,
       ResponseBodyReturns, OnStreamComplete
<1>3. CASE Cancel \/ RunScheduled \/ Terminated
  BY <1>3, Zenon DEF Cancel, RunScheduled, FinishRequest, SendLocalResponse,
     RecoverRequest, FinishResponse, NextClosure, Terminated
<1>4. CASE Goroutine
  BY <1>4, Zenon DEF Goroutine, ReadRequest, LimitReached, RequestEOF,
     StopReading, SkipBody, SkipCloses, HandlerActs, ScheduleFinish, Recover,
     HeadersArrive, AwaitCancelled, ReadResponse, ResponseEOF,
     SkipResponseBody, SkipResponseCloses, ResponseHandlerActs,
     ScheduleResponse
<1>5. CASE UNCHANGED vars
  BY <1>5, Zenon
<1> QED
  BY <1>1, <1>2, <1>3, <1>4, <1>5, Zenon DEF Next

\* Nor any other variable a value outside its type.
LEMMA NextTypeInv == TypeInv /\ [Next]_vars => TypeInv'
<1> SUFFICES ASSUME TypeInv, [Next]_vars PROVE TypeInv'
  OBVIOUS
<1>0. Booleans'
  BY NextBooleans DEF TypeInv
<1> USE WorkerOps, BoundAssumption
    DEF TypeInv, TypeOK, HeadersOnce, vars, envoyVars, flagVars, pipeVars, goVars
<1>1. ASSUME NEW e \in BOOLEAN, OnRequestHeaders(e) PROVE TypeInv'
  <2>1. plan.body \in Places /\ req'.hdr = "held"
    BY <1>1, PlansAssumption DEF OnRequestHeaders, Plan, Places, ReadingReq,
       Announce, Half
  <2> QED
    BY <1>0, <1>1, <2>1, PipeOps, HalfOps DEF OnRequestHeaders
<1>2. ASSUME NEW e \in BOOLEAN, NEW n \in 0..Batch, OnRequestBody(n, e)
      PROVE  TypeInv'
  <2>1. n \in Nat
    OBVIOUS
  <2>2. Deliver(req, n, e) \in Half /\ Continue(Deliver(req, n, e)) \in Half
    BY <2>1, HalfOps
  <2>3. req' \in Half /\ wk' \in Worker
    BY <1>2, <2>1, <2>2 DEF OnRequestBody
  <2> QED
    BY <1>0, <1>2, <2>3 DEF OnRequestBody
<1>3. ASSUME NEW e \in BOOLEAN, OnResponseHeaders(e) PROVE TypeInv'
  <2>1. resp'.hdr # "idle"
    BY <1>3 DEF OnResponseHeaders, Announce, Half
  <2>2. resp' \in Half
    BY <1>3, HalfOps DEF OnResponseHeaders
  <2>3. respPipe' \in Pipe
    BY <1>3, PipeOps DEF OnResponseHeaders
  <2>4. respHeadersCh' \in 0..1
    BY <1>3 DEF OnResponseHeaders
  <2> QED
    BY <1>0, <1>3, <2>1, <2>2, <2>3, <2>4 DEF OnResponseHeaders
<1>4. ASSUME NEW e \in BOOLEAN, NEW n \in 0..Batch, OnResponseBody(n, e)
      PROVE  TypeInv'
  <2>1. resp'.hdr # "idle"
    BY <1>4 DEF OnResponseBody, MayDeliver, Deliver, Continue, Half
  <2>2. n \in Nat
    OBVIOUS
  <2>3. Deliver(resp, n, e) \in Half /\ Continue(Deliver(resp, n, e)) \in Half
    BY <2>2, HalfOps
  <2>4. resp' \in Half /\ wk' \in Worker
    BY <1>4, <2>2, <2>3 DEF OnResponseBody
  <2> QED
    BY <1>0, <1>4, <2>1, <2>4 DEF OnResponseBody
<1>5. CASE SendRequestChunk \/ SendResponseChunk
  BY <1>0, <1>5, PipeOps DEF SendRequestChunk, SendResponseChunk
<1>6. CASE RequestSendRefused \/ RequestBodyReturns
  BY <1>0, <1>6, PipeOps, HalfOps DEF RequestSendRefused, RequestBodyReturns
<1>7. CASE ResponseSendRefused \/ ResponseBodyReturns
  <2>1. resp.hdr = "idle" => resp'.hdr = "idle" \/ respHeadersCh = 0
    OBVIOUS
  <2>2. resp'.hdr = "idle" => resp.hdr = "idle"
    BY <1>7 DEF ResponseSendRefused, ResponseBodyReturns, Continue, StopAndBuffer, Half
  <2> QED
    BY <1>0, <1>7, <2>2, PipeOps, HalfOps DEF ResponseSendRefused, ResponseBodyReturns
<1>8. CASE Cancel \/ OnStreamComplete
  BY <1>0, <1>8, PipeOps DEF Cancel, OnStreamComplete
<1>9. CASE RunScheduled
  <2>1. resp'.hdr = "idle" => resp.hdr = "idle"
    BY <1>9 DEF RunScheduled, FinishRequest, SendLocalResponse, RecoverRequest,
       FinishResponse, Resume, Continue, Half
  <2>2. emitted' \in Nat
    BY <1>9 DEF RunScheduled, FinishRequest, SendLocalResponse, RecoverRequest,
       FinishResponse
  <2>3. req' \in Half /\ resp' \in Half
    BY <1>9, HalfOps DEF RunScheduled, FinishRequest, SendLocalResponse,
       RecoverRequest, FinishResponse
  <2>4. sched' \in Seq(Closures)
    BY <1>9, SchedOps DEF RunScheduled, FinishRequest, SendLocalResponse, RecoverRequest,
       FinishResponse, NextClosure
  <2> QED
    BY <1>0, <1>9, <2>1, <2>2, <2>3, <2>4 DEF RunScheduled, FinishRequest,
       SendLocalResponse, RecoverRequest, FinishResponse, NextClosure
<1>10. CASE ReadRequest \/ ReadResponse
  BY <1>0, <1>10, PipeOps DEF ReadRequest, ReadResponse, Places, ReadingReq
<1>11. CASE LimitReached \/ SkipBody \/ SkipCloses
  BY <1>0, <1>11, PipeOps DEF LimitReached, SkipBody, SkipCloses, Places
<1>12. CASE SkipResponseBody \/ SkipResponseCloses
  BY <1>0, <1>12, PipeOps DEF SkipResponseBody, SkipResponseCloses, Places,
     ResponsePhase
<1>13. CASE RequestEOF \/ StopReading \/ ResponseEOF \/ AwaitCancelled
  BY <1>0, <1>13 DEF RequestEOF, StopReading, ResponseEOF, AwaitCancelled,
     Places, ResponsePhase
<1>14. CASE HandlerActs \/ ResponseHandlerActs
  <2>1. rw' \in [responded : BOOLEAN, metrics : Nat]
    <3>1. \A b \in BOOLEAN, m \in Nat :
            [responded |-> b, metrics |-> m] \in [responded : BOOLEAN, metrics : Nat]
      OBVIOUS
    <3>2. rw.metrics + 1 \in Nat
      OBVIOUS
    <3>3. CASE HandlerActs
      BY <3>1, <3>2, <3>3, Zenon DEF HandlerActs
    <3>4. CASE ResponseHandlerActs
      BY <3>2, <3>4 DEF ResponseHandlerActs
    <3> QED
      BY <1>14, <3>3, <3>4
  <2>2. sched' \in Seq(Closures)
    <3>1. "local" \in Closures
      BY DEF Closures
    <3> QED
      BY <1>14, <3>1, SchedOps DEF HandlerActs, ResponseHandlerActs
  <2>3. pc' \in Places
    BY <1>14 DEF HandlerActs, ResponseHandlerActs, Places, ResponsePhase
  <2> QED
    BY <1>0, <1>14, <2>1, <2>2, <2>3 DEF HandlerActs, ResponseHandlerActs
<1>15. CASE ScheduleFinish \/ Recover \/ ScheduleResponse
  <2>1. sched' \in Seq(Closures)
    <3>1. {"finish", "recover", "resp"} \subseteq Closures
      BY DEF Closures
    <3> QED
      BY <1>15, <3>1, SchedOps DEF ScheduleFinish, Recover, ScheduleResponse
  <2>2. pc' \in Places
    BY <1>15 DEF ScheduleFinish, Recover, ScheduleResponse, Places
  <2> QED
    BY <1>0, <1>15, <2>1, <2>2 DEF ScheduleFinish, Recover, ScheduleResponse
<1>16. CASE HeadersArrive
  BY <1>0, <1>16 DEF HeadersArrive, Places, ResponsePhase, ReadingResp
<1>17. CASE Terminated \/ UNCHANGED vars
  BY <1>0, <1>17 DEF Terminated
<1> QED
  BY <1>1, <1>2, <1>3, <1>4, <1>5, <1>6, <1>7, <1>8, <1>9, <1>10, <1>11,
     <1>12, <1>13, <1>14, <1>15, <1>16, <1>17
     DEF Next, Callback, WorkerStep, Goroutine

\* The variables keep their types: in particular neither pipe ever holds more
\* than Cap chunks and never two header maps wait for the goroutine.
THEOREM TypeCorrect == Spec => []TypeOK
<1>1. TypeInv => TypeOK
  BY DEF TypeInv
<1> QED
  BY InitTypeInv, NextTypeInv, <1>1, PTL DEF Spec

-----------------------------------------------------------------------------
(***************************************************************************)
(* A handler that reads r.Body to EOF on a live stream gets the whole      *)
(* body, of the request or of the response, for every capacity, bound,     *)
(* batch and set of plans.                                                 *)
(***************************************************************************)

\* Of every chunk Envoy has delivered it is known where it is: with the
\* handler, in the pipe, or still in the worker's hands.  The pipe is closed
\* only when the last one has been pushed.
LiveBody ==
  /\ ~bodySkip /\ ~headDone
  /\ reqPipe.closed => bodyDone
  /\ bodyDone => req.end /\ wk.at # "reqSend"
  /\ reqGot + reqPipe.len + Unsent("reqSend") = req.in
  /\ pc \notin {"none", "read"} => req.end /\ reqGot = req.in

\* Places a handler that reads to the end never comes to.
StreamingPlaces == {"skip", "skipClose", "limit", "limitClose", "partial"}

BodyInv ==
  /\ cancelled <=> wk.at \in {"complete", "gone"}
  /\ req.hdr = "idle" =>
       /\ pc = "none" /\ ~reqPipe.closed
       /\ wk.at \notin {"reqSend", "complete", "gone"}
  /\ wk.at = "reqSend" => wk.end = req.end
  /\ plan.body = "read" => pc \notin StreamingPlaces
  /\ plan.body = "read" /\ ~cancelled => LiveBody

-----------------------------------------------------------------------------

\* What the operators on pipes, halves and the worker do to the fields the
\* invariant speaks of.
LEMMA PipeFields ==
  ASSUME NEW p \in Pipe
  PROVE  /\ Close(p).len = p.len /\ Close(p).closed = TRUE
         /\ Put(p).len = p.len + 1 /\ Put(p).closed = p.closed
         /\ Take(p).len = p.len - 1 /\ Take(p).closed = p.closed
  BY DEF Pipe, Close, Put, Take

LEMMA HalfFields ==
  ASSUME NEW h \in Half
  PROVE  /\ Continue(h).hdr = "sent" /\ Resume(h).hdr = "sent"
         /\ StopAndBuffer(h).hdr = h.hdr
         /\ \A f \in {Continue(h), StopAndBuffer(h), Resume(h)} :
              f.in = h.in /\ f.end = h.end
         /\ \A n \in Nat, e \in BOOLEAN :
              /\ Deliver(h, n, e).in = h.in + n /\ Deliver(h, n, e).end = e
              /\ Deliver(h, n, e).hdr = h.hdr
         /\ \A d \in {"held", "sent"}, e \in BOOLEAN :
              /\ Announce(h, d, e).hdr = d /\ Announce(h, d, e).end = e
              /\ Announce(h, d, e).in = h.in
  BY DEF Half, Continue, StopAndBuffer, Resume, Deliver, Announce

LEMMA WorkerFields ==
  /\ Idle.at = "idle"
  /\ \A at, n, e : Sending(at, n, e).at = at /\ Sending(at, n, e).left = n
                   /\ Sending(at, n, e).end = e
  /\ \A w \in Worker : OneSent(w).at = w.at /\ OneSent(w).left = w.left - 1
                       /\ OneSent(w).end = w.end
  BY DEF Idle, Sending, OneSent, Worker

\* Nothing has happened to the body initially.
LEMMA InitBodyInv == Init => BodyInv
  BY DEF Init, BodyInv, LiveBody, NoHalf, Idle, Unsent, StreamingPlaces

\* Every step of the system keeps the account.
LEMMA NextBodyInv == TypeInv /\ BodyInv /\ [Next]_vars => BodyInv'
<1> SUFFICES ASSUME TypeInv, BodyInv, [Next]_vars PROVE BodyInv'
  OBVIOUS
<1> USE DEF TypeInv, TypeOK, BodyInv, LiveBody, Unsent, StreamingPlaces,
        vars, envoyVars, flagVars, pipeVars, goVars
<1>0. reqPipe.len \in Nat /\ wk.left \in Nat /\ req.in \in Nat
  BY CapAssumption DEF Pipe, Worker, Half
<1>1. ASSUME NEW e \in BOOLEAN, OnRequestHeaders(e) PROVE BodyInv'
  <2>1. req'.hdr = "held" /\ req'.end = e /\ req'.in = req.in
    BY <1>1, HalfFields DEF OnRequestHeaders
  <2>2. reqPipe'.len = reqPipe.len /\ (reqPipe'.closed => e)
    BY <1>1, PipeFields DEF OnRequestHeaders
  <2>3. bodyDone' = e
    BY <1>1 DEF OnRequestHeaders
  <2>4. ~reqPipe.closed /\ wk.at # "reqSend" /\ wk' = wk /\ pc = "none"
    BY <1>1 DEF OnRequestHeaders
  <2> QED
    BY <1>0, <1>1, <2>1, <2>2, <2>3, <2>4 DEF OnRequestHeaders
<1>2. ASSUME NEW e \in BOOLEAN, NEW n \in 0..Batch, OnRequestBody(n, e)
      PROVE  BodyInv'
  <2>1. n \in Nat
    BY BoundAssumption
  <2>2. /\ req'.hdr # "idle" /\ req'.in = req.in + n /\ req'.end = e
        /\ req.hdr # "idle" /\ ~req.end /\ wk.at = "idle"
    <3>1. /\ req' \in {Deliver(req, n, e), Continue(Deliver(req, n, e))}
          /\ req.hdr # "idle" /\ ~req.end /\ wk.at = "idle"
      BY <1>2 DEF OnRequestBody, MayDeliver
    <3>2. /\ Deliver(req, n, e) \in Half /\ Deliver(req, n, e).in = req.in + n
          /\ Deliver(req, n, e).end = e /\ Deliver(req, n, e).hdr = req.hdr
      BY <2>1, HalfOps, HalfFields
    <3>3. LET d == Continue(Deliver(req, n, e)) IN
          d.hdr = "sent" /\ d.in = req.in + n /\ d.end = e
      BY <3>2, HalfFields
    <3> QED
      BY <3>1, <3>2, <3>3
  <2>3. CASE bodyDone \/ bodySkip \/ headDone
    BY <1>0, <1>2, <2>1, <2>2, <2>3 DEF OnRequestBody
  <2>4. CASE ~(bodyDone \/ bodySkip \/ headDone)
    <3>1. wk' = Sending("reqSend", n, e) /\ bodyDone' = bodyDone
      BY <1>2, <2>4 DEF OnRequestBody
    <3>2. wk'.at = "reqSend" /\ wk'.left = n /\ wk'.end = e
      BY <3>1, WorkerFields
    <3> QED
      BY <1>0, <1>2, <2>1, <2>2, <2>4, <3>1, <3>2 DEF OnRequestBody
  <2> QED
    BY <2>3, <2>4
<1>3. CASE SendRequestChunk
  <2>1. reqPipe'.len = reqPipe.len + 1 /\ reqPipe'.closed = reqPipe.closed
    BY <1>3, PipeFields DEF SendRequestChunk
  <2>2. wk'.at = wk.at /\ wk'.left = wk.left - 1 /\ wk'.end = wk.end
    BY <1>3, WorkerFields DEF SendRequestChunk
  <2>3. reqGot' + reqPipe'.len + wk'.left = reqGot + reqPipe.len + wk.left
    BY <1>0, <1>3, <2>1, <2>2 DEF SendRequestChunk
  <2>4. wk.at = "reqSend"
    BY <1>3 DEF SendRequestChunk
  <2> QED
    BY <1>3, <2>1, <2>2, <2>3, <2>4 DEF SendRequestChunk
<1>4. CASE RequestSendRefused
  BY <1>4, HalfFields, WorkerFields DEF RequestSendRefused
<1>5. CASE RequestBodyReturns
  <2>1. req'.hdr = req.hdr /\ req'.in = req.in /\ req'.end = req.end
    BY <1>5, HalfFields DEF RequestBodyReturns
  <2>2. /\ reqPipe'.len = reqPipe.len
        /\ reqPipe'.closed => reqPipe.closed \/ wk.end
    BY <1>5, PipeFields DEF RequestBodyReturns
  <2>3. wk'.at = "idle"
    BY <1>5, WorkerFields DEF RequestBodyReturns
  <2>4. bodyDone' <=> bodyDone \/ wk.end
    BY <1>5, Zenon DEF RequestBodyReturns
  <2> QED
    BY <1>0, <1>5, <2>1, <2>2, <2>3, <2>4 DEF RequestBodyReturns
<1>6. ASSUME NEW e \in BOOLEAN, NEW n \in 0..Batch,
             OnResponseHeaders(e) \/ OnResponseBody(n, e)
      PROVE  BodyInv'
  BY <1>6, WorkerFields DEF OnResponseHeaders, OnResponseBody, MayDeliver
<1>7. CASE SendResponseChunk \/ ResponseSendRefused \/ ResponseBodyReturns
  BY <1>7, WorkerFields DEF SendResponseChunk, ResponseSendRefused, ResponseBodyReturns
<1>8. CASE Cancel \/ OnStreamComplete
  <2>1. wk'.at \in {"complete", "gone"}
    BY <1>8 DEF Cancel, OnStreamComplete, Sending
  <2>2. cancelled'
    <3>1. Cancel => cancelled'
      BY Zenon DEF Cancel
    <3>2. OnStreamComplete => cancelled /\ (cancelled' <=> cancelled)
      <4>1. wk.at = "complete" => cancelled
        OBVIOUS
      <4>2. OnStreamComplete => wk.at = "complete" /\ cancelled' = cancelled
        BY DEF OnStreamComplete
      <4> QED
        BY <4>1, <4>2
    <3> QED
      BY <1>8, <3>1, <3>2
  <2>3. req.hdr # "idle"
    BY <1>8 DEF Cancel, OnStreamComplete
  <2> QED
    BY <1>8, <2>1, <2>2, <2>3 DEF Cancel, OnStreamComplete
<1>9. CASE RunScheduled
  <2>1. /\ req'.in = req.in /\ req'.end = req.end
        /\ req'.hdr = "idle" => req.hdr = "idle"
    BY <1>9, HalfFields DEF RunScheduled, FinishRequest, SendLocalResponse,
       RecoverRequest, FinishResponse
  <2> QED
    BY <1>9, <2>1 DEF RunScheduled, FinishRequest, SendLocalResponse,
       RecoverRequest, FinishResponse, NextClosure
<1>10. CASE ReadRequest
  <2>1. reqPipe'.len = reqPipe.len - 1 /\ reqPipe'.closed = reqPipe.closed
    BY <1>10, PipeFields DEF ReadRequest
  <2>2. plan.body = "read" => pc = "read"
    BY <1>10 DEF ReadRequest, ReadingReq
  <2>3. pc = "read" => pc' = "read" /\ (headDone' <=> headDone)
    BY <1>10, Zenon DEF ReadRequest
  <2>4. reqGot' + reqPipe'.len = reqGot + reqPipe.len
    BY <1>0, <1>10, <2>1, SMTT(30) DEF ReadRequest
  <2>5. pc # "none"
    BY <1>10 DEF ReadRequest, ReadingReq
  <2>6. pc' \notin StreamingPlaces \/ plan.body # "read"
    BY <2>2, <2>3
  <2> QED
    BY <1>10, <2>1, <2>2, <2>3, <2>4, <2>5, <2>6 DEF ReadRequest
<1>11. CASE RequestEOF
  BY <1>11 DEF RequestEOF, ReadingReq, AtEOF, Pipe, Worker, Half
<1>12. CASE LimitReached \/ StopReading \/ SkipBody \/ SkipCloses
  BY <1>12 DEF LimitReached, StopReading, SkipBody, SkipCloses
<1>13. CASE HandlerActs \/ ScheduleFinish \/ Recover \/ AwaitCancelled
  BY <1>13 DEF HandlerActs, ScheduleFinish, Recover, AwaitCancelled
<1>14. CASE HeadersArrive \/ ReadResponse \/ ResponseEOF \/ SkipResponseBody
  BY <1>14 DEF HeadersArrive, ReadResponse, ResponseEOF, SkipResponseBody, ReadingResp
<1>15. CASE SkipResponseCloses \/ ResponseHandlerActs \/ ScheduleResponse
  BY <1>15 DEF SkipResponseCloses, ResponseHandlerActs, ScheduleResponse
<1>16. CASE Terminated \/ UNCHANGED vars
  BY <1>16 DEF Terminated
<1> QED
  BY <1>1, <1>2, <1>3, <1>4, <1>5, <1>6, <1>7, <1>8, <1>9, <1>10, <1>11,
     <1>12, <1>13, <1>14, <1>15, <1>16, BoundAssumption
     DEF Next, Callback, WorkerStep, Goroutine

\* A handler that reads r.Body to EOF on a live stream has received every chunk
\* of the whole body (filter.go OnRequestBody, body.go).
THEOREM BodyCompleteCorrect == Spec => []BodyComplete
<1>1. Init => TypeInv /\ BodyInv
  BY InitTypeInv, InitBodyInv
<1>2. TypeInv /\ BodyInv /\ [Next]_vars => TypeInv' /\ BodyInv'
  BY NextTypeInv, NextBodyInv
<1>3. BodyInv => BodyComplete
  BY DEF BodyInv, LiveBody, BodyComplete
<1> QED
  BY <1>1, <1>2, <1>3, PTL DEF Spec

-----------------------------------------------------------------------------
(***************************************************************************)
(* The same for the response: a ResponseFunc that reads r.Body to EOF.     *)
(***************************************************************************)

LiveRespBody ==
  /\ respPipe.closed => respBodyDone
  /\ respBodyDone => resp.end /\ wk.at # "respSend"
  /\ respGot + respPipe.len + Unsent("respSend") = resp.in
  /\ pc \in {"respAct", "respFinish"} => resp.end /\ respGot = resp.in

RespBodyInv ==
  /\ cancelled <=> wk.at \in {"complete", "gone"}
  /\ resp.hdr = "idle" => ~resp.end /\ wk.at # "respSend"
  /\ wk.at = "respSend" => wk.end = resp.end
  /\ plan.resp = "read" => pc \notin {"respSkip", "respSkipClose", "respPartial"}
  /\ plan.resp = "read" /\ plan.mode # "passthrough" /\ ~cancelled => LiveRespBody

LEMMA InitRespBodyInv == Init => RespBodyInv
  BY DEF Init, RespBodyInv, LiveRespBody, NoHalf, Idle, Unsent

LEMMA NextRespBodyInv == TypeInv /\ RespBodyInv /\ [Next]_vars => RespBodyInv'
<1> SUFFICES ASSUME TypeInv, RespBodyInv, [Next]_vars PROVE RespBodyInv'
  OBVIOUS
<1> USE DEF TypeInv, TypeOK, RespBodyInv, LiveRespBody, Unsent,
        vars, envoyVars, flagVars, pipeVars, goVars
<1>0. respPipe.len \in Nat /\ wk.left \in Nat /\ resp.in \in Nat /\ respGot \in Nat
  BY CapAssumption DEF Pipe, Worker, Half
<1>1. ASSUME NEW e \in BOOLEAN, OnResponseHeaders(e) PROVE RespBodyInv'
  <2>1. resp'.hdr # "idle" /\ resp'.end = e /\ resp'.in = resp.in
    BY <1>1, HalfFields DEF OnResponseHeaders
  <2>2. /\ wk.at = "idle" /\ wk' = wk /\ resp.hdr = "idle" /\ ~resp.end
        /\ UNCHANGED <<plan, cancelled, pc, respGot>>
    BY <1>1 DEF OnResponseHeaders
  <2>3. respPipe'.len = respPipe.len
    BY <1>1, PipeFields DEF OnResponseHeaders
  <2>4. ASSUME plan.resp = "read", plan.mode # "passthrough", ~cancelled
        PROVE  /\ respPipe'.closed => respBodyDone'
               /\ respBodyDone' => e
    <3>1. ~respBodyDone /\ ~respPipe.closed
      BY <2>2, <2>4
    <3>2. respBodyDone' <=> e
      BY <1>1, <2>4, <3>1 DEF OnResponseHeaders
    <3>3. respPipe'.closed => e
      BY <1>1, <3>1 DEF OnResponseHeaders
    <3> QED
      BY <3>2, <3>3
  <2> QED
    BY <1>0, <2>1, <2>2, <2>3, <2>4
<1>2. ASSUME NEW e \in BOOLEAN, NEW n \in 0..Batch, OnResponseBody(n, e)
      PROVE  RespBodyInv'
  <2>1. n \in Nat
    BY BoundAssumption
  <2>2. /\ resp.hdr # "idle" /\ ~resp.end /\ wk.at = "idle"
        /\ UNCHANGED <<plan, cancelled, respPipe, pc, respGot>>
    BY <1>2 DEF OnResponseBody, MayDeliver
  <2>3. resp'.hdr # "idle" /\ resp'.in = resp.in + n /\ resp'.end = e
    <3>1. resp' \in {Deliver(resp, n, e), Continue(Deliver(resp, n, e))}
      BY <1>2 DEF OnResponseBody
    <3>2. /\ Deliver(resp, n, e) \in Half /\ Deliver(resp, n, e).in = resp.in + n
          /\ Deliver(resp, n, e).end = e /\ Deliver(resp, n, e).hdr = resp.hdr
      BY <2>1, HalfOps, HalfFields
    <3>3. LET d == Continue(Deliver(resp, n, e)) IN
          d.hdr = "sent" /\ d.in = resp.in + n /\ d.end = e
      BY <3>2, HalfFields
    <3> QED
      BY <2>2, <3>1, <3>2, <3>3
  <2>4. CASE plan.resp = "none" \/ respBodyDone \/ plan.mode = "passthrough"
    <3>1. wk' = wk
      BY <1>2, <2>4 DEF OnResponseBody
    <3>2. ~(plan.resp = "read" /\ plan.mode # "passthrough" /\ ~cancelled)
      BY <2>2, <2>4
    <3> QED
      BY <2>2, <2>3, <3>1, <3>2
  <2>5. CASE ~(plan.resp = "none" \/ respBodyDone \/ plan.mode = "passthrough")
    <3>1. wk' = Sending("respSend", n, e) /\ respBodyDone' = respBodyDone
      BY <1>2, <2>5 DEF OnResponseBody
    <3>2. wk'.at = "respSend" /\ wk'.left = n /\ wk'.end = e
      BY <3>1, WorkerFields
    <3> QED
      BY <1>0, <2>1, <2>2, <2>3, <2>5, <3>1, <3>2
  <2> QED
    BY <2>4, <2>5
<1>3. CASE SendResponseChunk
  <2>1. respPipe'.len = respPipe.len + 1 /\ respPipe'.closed = respPipe.closed
    BY <1>3, PipeFields DEF SendResponseChunk
  <2>2. wk'.at = wk.at /\ wk'.left = wk.left - 1 /\ wk'.end = wk.end
    BY <1>3, WorkerFields DEF SendResponseChunk
  <2>3. respGot' + respPipe'.len + wk'.left = respGot + respPipe.len + wk.left
    BY <1>0, <1>3, <2>1, <2>2 DEF SendResponseChunk
  <2>4. wk.at = "respSend"
    BY <1>3 DEF SendResponseChunk
  <2> QED
    BY <1>3, <2>1, <2>2, <2>3, <2>4 DEF SendResponseChunk
<1>4. CASE ResponseSendRefused
  BY <1>4, HalfFields, WorkerFields DEF ResponseSendRefused
<1>5. CASE ResponseBodyReturns
  <2>1. resp'.in = resp.in /\ resp'.end = resp.end /\ (resp'.hdr = "idle" => resp.hdr = "idle")
    BY <1>5, HalfFields DEF ResponseBodyReturns
  <2>2. /\ respPipe'.len = respPipe.len
        /\ respPipe'.closed => respPipe.closed \/ wk.end
    BY <1>5, PipeFields DEF ResponseBodyReturns
  <2>3. wk'.at = "idle"
    BY <1>5, WorkerFields DEF ResponseBodyReturns
  <2>4. respBodyDone' <=> respBodyDone \/ wk.end
    BY <1>5, Zenon DEF ResponseBodyReturns
  <2> QED
    BY <1>0, <1>5, <2>1, <2>2, <2>3, <2>4 DEF ResponseBodyReturns
<1>6. ASSUME NEW e \in BOOLEAN, NEW n \in 0..Batch,
             OnRequestHeaders(e) \/ OnRequestBody(n, e)
      PROVE  RespBodyInv'
  <2>1. UNCHANGED <<plan, resp, cancelled, respBodyDone, respPipe, respGot>>
    BY <1>6 DEF OnRequestHeaders, OnRequestBody
  <2>2. pc' = pc \/ pc' \in {"read", "skip", "limit", "partial"}
    BY <1>6, PlansAssumption DEF OnRequestHeaders, OnRequestBody, Plan
  <2>3. wk' = wk \/ (wk.at = "idle" /\ wk'.at = "reqSend")
    BY <1>6, WorkerFields DEF OnRequestHeaders, OnRequestBody, MayDeliver
  <2> QED
    BY <2>1, <2>2, <2>3
<1>7. CASE SendRequestChunk \/ RequestSendRefused \/ RequestBodyReturns
  BY <1>7, WorkerFields DEF SendRequestChunk, RequestSendRefused, RequestBodyReturns
<1>8. CASE Cancel \/ OnStreamComplete
  <2>1. wk'.at \in {"complete", "gone"}
    BY <1>8 DEF Cancel, OnStreamComplete, Sending
  <2>2. cancelled'
    <3>1. Cancel => cancelled'
      BY Zenon DEF Cancel
    <3>2. OnStreamComplete => cancelled /\ (cancelled' <=> cancelled)
      <4>1. wk.at = "complete" => cancelled
        OBVIOUS
      <4>2. OnStreamComplete => wk.at = "complete" /\ cancelled' = cancelled
        BY DEF OnStreamComplete
      <4> QED
        BY <4>1, <4>2
    <3> QED
      BY <1>8, <3>1, <3>2
  <2> QED
    BY <1>8, <2>1, <2>2 DEF Cancel, OnStreamComplete
<1>9. CASE RunScheduled
  <2>1. /\ resp'.in = resp.in /\ resp'.end = resp.end
        /\ resp'.hdr = "idle" => resp.hdr = "idle"
    BY <1>9, HalfFields DEF RunScheduled, FinishRequest, SendLocalResponse,
       RecoverRequest, FinishResponse
  <2> QED
    BY <1>9, <2>1 DEF RunScheduled, FinishRequest, SendLocalResponse,
       RecoverRequest, FinishResponse, NextClosure
<1>10. CASE ReadResponse
  <2>1. respPipe'.len = respPipe.len - 1 /\ respPipe'.closed = respPipe.closed
    BY <1>10, PipeFields DEF ReadResponse
  <2>2. respGot' + respPipe'.len = respGot + respPipe.len
    BY <1>0, <1>10, <2>1 DEF ReadResponse
  <2>3. pc \notin {"respAct", "respFinish"}
    BY <1>10 DEF ReadResponse, ReadingResp
  <2> QED
    BY <1>10, <2>1, <2>2, <2>3 DEF ReadResponse
<1>11. CASE ResponseEOF
  BY <1>11 DEF ResponseEOF, ReadingResp, AtEOF, Pipe, Worker, Half
<1>12. CASE ReadRequest \/ RequestEOF \/ LimitReached \/ StopReading
  BY <1>12 DEF ReadRequest, RequestEOF, LimitReached, StopReading, ReadingReq
<1>13. CASE SkipBody \/ SkipCloses \/ HandlerActs \/ ScheduleFinish \/ Recover
  BY <1>13 DEF SkipBody, SkipCloses, HandlerActs, ScheduleFinish, Recover
<1>14. CASE HeadersArrive \/ AwaitCancelled
  BY <1>14 DEF HeadersArrive, AwaitCancelled
<1>15. CASE SkipResponseBody \/ SkipResponseCloses
  BY <1>15 DEF SkipResponseBody, SkipResponseCloses
<1>16. CASE ResponseHandlerActs \/ ScheduleResponse
  BY <1>16 DEF ResponseHandlerActs, ScheduleResponse
<1>17. CASE Terminated \/ UNCHANGED vars
  BY <1>17 DEF Terminated
<1> QED
  BY <1>1, <1>2, <1>3, <1>4, <1>5, <1>6, <1>7, <1>8, <1>9, <1>10, <1>11,
     <1>12, <1>13, <1>14, <1>15, <1>16, <1>17, BoundAssumption
     DEF Next, Callback, WorkerStep, Goroutine

\* A response handler that reads r.Body to EOF in Observe or Buffer mode has
\* received every chunk of the response (filter.go OnResponseBody).
THEOREM RespBodyCompleteCorrect == Spec => []RespBodyComplete
<1>1. Init => TypeInv /\ RespBodyInv
  BY InitTypeInv, InitRespBodyInv
<1>2. TypeInv /\ RespBodyInv /\ [Next]_vars => TypeInv' /\ RespBodyInv'
  BY NextTypeInv, NextRespBodyInv
<1>3. RespBodyInv => RespBodyComplete
  BY DEF RespBodyInv, LiveRespBody, RespBodyComplete
<1> QED
  BY <1>1, <1>2, <1>3, PTL DEF Spec
-----------------------------------------------------------------------------
(***************************************************************************)
(* The request pipe, which this module fills and drains by the chunk, is   *)
(* the stream that BodyReader is: both implement ByteStream.               *)
(***************************************************************************)

\* The whole body has been pushed or let past.
Ended == req.end /\ wk.at # "reqSend"

\* Places at which the handler has yet to hear of the body's end.  A handler
\* that stops reading never hears of it.
BeforeEOF == {"none", "read", "limit", "partial", "skip", "skipClose"}

RequestBody == INSTANCE ByteStream WITH
  lim       <- IF plan.body = "limit" THEN Limit ELSE 0,
  offered   <- reqGot + reqPipe.len,
  ended     <- Ended,
  givenUp   <- bodySkip,
  delivered <- reqGot,
  eof       <- plan.body # "partial" /\ pc \notin BeforeEOF

\* Each place of a Read belongs to its plan, and the pipe it reads is closed only
\* after the last chunk or once the body is given up.
BodyStreamInv ==
  /\ req.hdr = "idle" => ~req.end /\ reqGot = 0
  /\ pc \in ReadingReq => plan.body = pc
  /\ pc \in {"skip", "skipClose"} => plan.body = "skip"
  /\ pc = "limit" => reqGot < Limit
  /\ pc = "skipClose" => bodySkip
  /\ pc \in ReadingReq /\ reqPipe.closed => bodySkip \/ Ended

\* A step of the stream, and what it leaves of the invariant.
StreamStep == [RequestBody!Next]_(RequestBody!bvars) /\ BodyStreamInv'

LEMMA WorkerStreams ==
  ASSUME TypeInv, BodyInv, BodyStreamInv, Callback \/ WorkerStep \/ Cancel
  PROVE  StreamStep
<1>0. /\ req \in Half /\ resp \in Half /\ wk \in Worker /\ reqPipe \in Pipe
      /\ plan \in Plan /\ reqGot \in Nat /\ Booleans
  BY PlansAssumption DEF TypeInv, TypeOK
<1> USE DEF RequestBody!bvars, RequestBody!Next, ReadingReq, BeforeEOF
<1>1. ASSUME NEW e \in BOOLEAN, OnRequestHeaders(e) PROVE StreamStep
  <2>1. /\ req.hdr = "idle" /\ pc = "none" /\ reqGot' = reqGot /\ plan' = plan
        /\ pc' = plan.body /\ plan.body \in {"read", "skip", "limit", "partial"}
        /\ bodySkip' = bodySkip /\ wk' = wk /\ wk.at # "reqSend"
        /\ req'.hdr = "held" /\ req'.end = e
        /\ reqPipe' = IF e THEN Close(reqPipe) ELSE reqPipe
    BY <1>0, <1>1, HalfFields DEF OnRequestHeaders, BodyInv, Plan
  <2>a. reqPipe'.len = reqPipe.len /\ (reqPipe'.closed => e)
    <3>1. ~reqPipe.closed
      BY <2>1 DEF BodyInv
    <3> QED
      BY <1>0, <2>1, <3>1, PipeFields
  <2>2. Ended = FALSE /\ Ended' = e /\ reqGot = 0
    BY <2>1 DEF BodyStreamInv, Ended
  <2>3. BodyStreamInv'
    BY <2>1, <2>a, <2>2, LimitAssumption DEF BodyStreamInv
  <2>4. RequestBody!Finish \/ UNCHANGED RequestBody!bvars
    BY <2>1, <2>a, <2>2 DEF RequestBody!Finish
  <2> QED
    BY <2>3, <2>4 DEF StreamStep
<1>2. ASSUME NEW n \in 0..Batch, NEW e \in BOOLEAN, OnRequestBody(n, e)
      PROVE  StreamStep
  <2>0. n \in Nat
    BY BoundAssumption
  <2>1. /\ UNCHANGED <<plan, bodySkip, reqPipe, pc, reqGot>>
        /\ ~req.end /\ req.hdr # "idle" /\ wk.at = "idle"
        /\ req'.hdr # "idle"
        /\ req'.end = e
    <3>1. /\ Deliver(req, n, e) \in Half /\ Deliver(req, n, e).hdr = req.hdr
          /\ Deliver(req, n, e).end = e
      BY <1>0, <2>0, HalfOps, HalfFields
    <3>2. /\ Continue(Deliver(req, n, e)).hdr = "sent"
          /\ Continue(Deliver(req, n, e)).end = e
      BY <3>1, HalfFields
    <3> QED
      BY <1>2, <3>1, <3>2 DEF OnRequestBody, MayDeliver, pipeVars, goVars
  <2>2. Ended = FALSE /\ Ended' \in BOOLEAN
    BY <2>1 DEF Ended
  <2>3. BodyStreamInv'
    BY <2>1, <2>2 DEF BodyStreamInv
  <2>4. RequestBody!Finish \/ UNCHANGED RequestBody!bvars
    BY <2>1, <2>2 DEF RequestBody!Finish
  <2> QED
    BY <2>3, <2>4 DEF StreamStep
<1>3. CASE SendRequestChunk
  <2>1. /\ UNCHANGED <<plan, req, bodySkip, pc, reqGot>>
        /\ reqPipe'.len = reqPipe.len + 1 /\ reqPipe'.closed = reqPipe.closed
        /\ wk.at = "reqSend" /\ wk'.at = "reqSend"
    BY <1>0, <1>3, PipeFields, WorkerFields, CapAssumption
       DEF SendRequestChunk, envoyVars, flagVars, goVars
  <2>2. Ended = FALSE /\ Ended' = FALSE
    BY <2>1 DEF Ended
  <2>3. BodyStreamInv'
    BY <2>1, <2>2 DEF BodyStreamInv
  <2>4. reqGot' + reqPipe'.len \in {m \in Nat : m >= reqGot + reqPipe.len}
    <3>1. reqPipe.len \in Nat
      BY <1>0, CapAssumption DEF Pipe
    <3> QED
      BY <1>0, <2>1, <3>1
  <2>5. RequestBody!Offer
    BY <2>1, <2>2, <2>4 DEF RequestBody!Offer
  <2> QED
    BY <2>3, <2>5 DEF StreamStep
<1>4. CASE RequestSendRefused \/ RequestBodyReturns
  <2>1. /\ UNCHANGED <<plan, bodySkip, pc, reqGot>>
        /\ wk.at = "reqSend" /\ wk'.at = "idle" /\ req'.hdr # "idle"
        /\ req'.end = req.end
    BY <1>0, <1>4, HalfFields DEF RequestSendRefused, RequestBodyReturns, Idle,
       flagVars, pipeVars, goVars, BodyInv
  <2>a. reqPipe'.len = reqPipe.len
    <3>1. reqPipe' = reqPipe \/ reqPipe' = Close(reqPipe)
      BY <1>4, Zenon DEF RequestSendRefused, RequestBodyReturns, pipeVars
    <3> QED
      BY <1>0, <3>1, PipeFields
  <2>2. reqPipe'.closed => reqPipe.closed \/ req.end
    <3>1. reqPipe' = reqPipe \/ req.end
      BY <1>4, Zenon DEF RequestSendRefused, RequestBodyReturns, pipeVars, BodyInv
    <3> QED
      BY <3>1
  <2>3. Ended = FALSE /\ Ended' = req.end
    BY <1>0, <2>1 DEF Ended, Half
  <2>4. BodyStreamInv'
    BY <2>1, <2>2, <2>3 DEF BodyStreamInv
  <2>5. RequestBody!Finish \/ UNCHANGED RequestBody!bvars
    BY <1>0, <2>1, <2>a, <2>3 DEF RequestBody!Finish, Half
  <2> QED
    BY <2>4, <2>5 DEF StreamStep
<1>5. CASE OnStreamComplete
  <2>1. /\ UNCHANGED <<plan, req, pc, reqGot>> /\ wk.at = "complete" /\ wk'.at = "gone"
        /\ bodySkip' = (bodySkip \/ ~bodyDone)
        /\ reqPipe'.len = reqPipe.len
    BY <1>0, <1>5, PipeFields DEF OnStreamComplete, Sending, envoyVars, goVars
  <2>2. Ended' = Ended /\ (bodySkip => bodySkip')
    BY <2>1 DEF Ended
  <2>3. reqPipe'.closed => reqPipe.closed \/ bodySkip'
    <3>1. reqPipe' = reqPipe \/ bodySkip'
      BY <1>5, Zenon DEF OnStreamComplete
    <3> QED
      BY <3>1
  <2>4. BodyStreamInv'
    BY <2>1, <2>2, <2>3 DEF BodyStreamInv
  <2>5. RequestBody!GiveUp \/ UNCHANGED RequestBody!bvars
    <3>1. bodySkip' = TRUE \/ bodySkip' = bodySkip
      BY <1>0, <2>1 DEF Booleans
    <3> QED
      BY <2>1, <2>2, <3>1 DEF RequestBody!GiveUp
  <2> QED
    BY <2>4, <2>5 DEF StreamStep
<1>6. ASSUME UNCHANGED <<plan, req, bodySkip, reqPipe, pc, reqGot>>,
             wk.at # "reqSend" /\ wk'.at # "reqSend"
      PROVE  StreamStep
  <2>1. Ended' = Ended
    BY <1>6 DEF Ended
  <2> QED
    BY <1>6, <2>1 DEF StreamStep, BodyStreamInv
<1>7. CASE SendResponseChunk \/ ResponseSendRefused \/ ResponseBodyReturns \/ Cancel
  <2>1. UNCHANGED <<plan, req, bodySkip, reqPipe, pc, reqGot>>
    BY <1>7 DEF SendResponseChunk, ResponseSendRefused, ResponseBodyReturns, Cancel,
       envoyVars, flagVars, pipeVars, goVars
  <2>2. wk.at # "reqSend" /\ wk'.at # "reqSend"
    BY <1>0, <1>7, WorkerFields DEF SendResponseChunk, ResponseSendRefused,
       ResponseBodyReturns, Cancel, Sending
  <2> QED
    BY <1>6, <2>1, <2>2
<1>8. ASSUME NEW n \in 0..Batch, NEW e \in BOOLEAN,
             OnResponseHeaders(e) \/ OnResponseBody(n, e)
      PROVE  StreamStep
  <2>1. UNCHANGED <<plan, req, bodySkip, reqPipe, pc, reqGot>>
    BY <1>8 DEF OnResponseHeaders, OnResponseBody, pipeVars, goVars
  <2>2. wk.at # "reqSend" /\ wk'.at # "reqSend"
    BY <1>8 DEF OnResponseHeaders, OnResponseBody, MayDeliver, Sending
  <2> QED
    BY <1>6, <2>1, <2>2
<1>9. CASE Callback
  <2>1. PICK e \in BOOLEAN :
          \/ OnRequestHeaders(e) \/ OnResponseHeaders(e)
          \/ \E n \in 0..Batch : OnRequestBody(n, e) \/ OnResponseBody(n, e)
    BY <1>9, Zenon DEF Callback
  <2>2. 0 \in 0..Batch
    BY BoundAssumption
  <2> QED
    BY <1>1, <1>2, <1>8, <2>1, <2>2, Zenon
<1> QED
  BY <1>3, <1>4, <1>5, <1>7, <1>9, Zenon DEF WorkerStep

\* Closures leave the body alone.
LEMMA ClosureStreams ==
  ASSUME TypeInv, BodyStreamInv, BodyInv, RunScheduled
  PROVE  StreamStep
<1>1. /\ UNCHANGED <<plan, bodySkip, reqPipe, pc, reqGot, wk>>
      /\ req' = req \/ req' = Resume(req)
  BY DEF RunScheduled, FinishRequest, SendLocalResponse, RecoverRequest,
     FinishResponse, NextClosure, flagVars, pipeVars, goVars, envoyVars
<1>2. req'.end = req.end /\ (req'.hdr = "idle" => req.hdr = "idle")
  BY <1>1, HalfFields DEF TypeInv, TypeOK
<1>3. Ended' = Ended
  BY <1>1, <1>2 DEF Ended
<1> QED
  BY <1>1, <1>2, <1>3 DEF StreamStep, BodyStreamInv, RequestBody!bvars

LEMMA GoroutineStreams ==
  ASSUME TypeInv, BodyInv, BodyStreamInv, Goroutine
  PROVE  StreamStep
<1>0. /\ wk \in Worker /\ reqPipe \in Pipe /\ plan \in Plan /\ reqGot \in Nat
      /\ bodySkip \in BOOLEAN /\ Limit \in Nat \ {0} /\ reqPipe.len \in Nat
  BY PlansAssumption, LimitAssumption, CapAssumption
     DEF TypeInv, TypeOK, Booleans, Pipe
<1>1. UNCHANGED <<plan, req, wk>> /\ Ended' = Ended
  BY DEF Goroutine, ReadRequest, LimitReached, RequestEOF, StopReading,
     SkipBody, SkipCloses, HandlerActs, ScheduleFinish, Recover, HeadersArrive,
     AwaitCancelled, ReadResponse, ResponseEOF, SkipResponseBody,
     SkipResponseCloses, ResponseHandlerActs, ScheduleResponse, envoyVars, Ended
<1> USE DEF RequestBody!bvars, RequestBody!Next, ReadingReq, BeforeEOF
<1>2. CASE ReadRequest
  <2> DEFINE lim == IF plan.body = "limit" THEN Limit ELSE 0
  <2>1. /\ pc \in ReadingReq /\ plan.body = pc /\ bodySkip' = bodySkip
        /\ reqPipe.len > 0 /\ reqPipe'.len = reqPipe.len - 1
        /\ reqPipe'.closed = reqPipe.closed /\ reqGot' = reqGot + 1
        /\ pc' = IF pc = "limit" /\ reqGot + 1 = Limit THEN "limitClose" ELSE pc
    BY <1>0, <1>2, PipeFields DEF ReadRequest, BodyStreamInv
  <2>2. pc = "limit" => reqGot < Limit
    BY DEF BodyStreamInv
  <2>3. BodyStreamInv'
    <3>1. req.hdr # "idle"
      BY <2>1 DEF BodyInv
    <3> QED
      BY <1>0, <1>1, <2>1, <2>2, <3>1 DEF BodyStreamInv
  <2>4. /\ reqGot' > reqGot /\ reqGot' <= reqGot + reqPipe.len
        /\ lim > 0 => reqGot' <= lim
        /\ reqGot' + reqPipe'.len = reqGot + reqPipe.len
    BY <1>0, <2>1, <2>2
  <2>5. (plan.body # "partial" /\ pc' \notin BeforeEOF) = (lim > 0 /\ reqGot' = lim)
    BY <1>0, <2>1
  <2>6. RequestBody!Deliver
    BY <1>1, <2>1, <2>4, <2>5 DEF RequestBody!Deliver
  <2> QED
    BY <2>3, <2>6 DEF StreamStep
<1>3. CASE RequestEOF
  <2>1. /\ pc \in ReadingReq /\ plan.body = pc /\ pc' = "act"
        /\ UNCHANGED <<bodySkip, reqPipe, reqGot>>
        /\ reqPipe.closed /\ reqPipe.len = 0
    BY <1>3 DEF RequestEOF, AtEOF, BodyStreamInv, flagVars, pipeVars
  <2>2. bodySkip \/ Ended
    BY <2>1 DEF BodyStreamInv
  <2>3. BodyStreamInv'
    BY <1>1, <2>1 DEF BodyStreamInv
  <2>4. RequestBody!EndOfStream \/ UNCHANGED RequestBody!bvars
    BY <1>0, <1>1, <2>1, <2>2 DEF RequestBody!EndOfStream
  <2> QED
    BY <2>3, <2>4 DEF StreamStep
<1>4. CASE SkipBody
  <2>1. /\ pc = "skip" /\ plan.body = "skip" /\ UNCHANGED <<reqPipe, reqGot>>
        /\ bodySkip' = TRUE
        /\ pc' = IF bodySkip THEN "act" ELSE "skipClose"
    BY <1>4 DEF SkipBody, BodyStreamInv, pipeVars
  <2>2. BodyStreamInv'
    BY <1>0, <1>1, <2>1 DEF BodyStreamInv
  <2>3. RequestBody!EndOfStream \/ RequestBody!GiveUp
    <3>1. CASE bodySkip
      BY <1>0, <1>1, <2>1, <3>1 DEF RequestBody!EndOfStream
    <3>2. CASE ~bodySkip
      BY <1>0, <1>1, <2>1, <3>2 DEF RequestBody!GiveUp
    <3> QED
      BY <3>1, <3>2
  <2> QED
    BY <2>2, <2>3 DEF StreamStep
<1>5. CASE SkipCloses
  <2>1. /\ pc = "skipClose" /\ plan.body = "skip" /\ bodySkip
        /\ UNCHANGED <<bodySkip, reqGot>>
        /\ pc' = "act" /\ reqPipe'.len = reqPipe.len
    BY <1>0, <1>5, PipeFields DEF SkipCloses, BodyStreamInv
  <2>2. BodyStreamInv'
    BY <1>1, <2>1 DEF BodyStreamInv
  <2>3. RequestBody!EndOfStream
    BY <1>1, <2>1 DEF RequestBody!EndOfStream
  <2> QED
    BY <2>2, <2>3 DEF StreamStep
<1>6. CASE LimitReached
  <2>1. /\ pc = "limitClose" /\ UNCHANGED <<bodySkip, reqGot>>
        /\ pc' = "act" /\ reqPipe'.len = reqPipe.len
    BY <1>0, <1>6, PipeFields DEF LimitReached, flagVars
  <2> QED
    BY <1>1, <2>1 DEF StreamStep, BodyStreamInv
<1>7. CASE StopReading
  <2>1. /\ UNCHANGED <<bodySkip, reqPipe, reqGot>>
        /\ (pc = "partial" /\ plan.body = "partial") \/ pc = "respPartial"
        /\ pc' = IF pc = "partial" THEN "act" ELSE "respAct"
    BY <1>7 DEF StopReading, flagVars, pipeVars, BodyStreamInv
  <2> QED
    BY <1>1, <2>1 DEF StreamStep, BodyStreamInv
<1>8. CASE ~(ReadRequest \/ RequestEOF \/ SkipBody \/ SkipCloses \/ LimitReached
             \/ StopReading)
  <2>1. /\ UNCHANGED <<bodySkip, reqPipe, reqGot>>
        /\ pc \notin BeforeEOF /\ pc' \notin BeforeEOF
    BY <1>8 DEF Goroutine, HandlerActs, ScheduleFinish, Recover, HeadersArrive,
       AwaitCancelled, ReadResponse, ResponseEOF, SkipResponseBody, ReadingResp,
       SkipResponseCloses, ResponseHandlerActs, ScheduleResponse, flagVars, pipeVars
  <2> QED
    BY <1>1, <2>1 DEF StreamStep, BodyStreamInv
<1> QED
  BY <1>2, <1>3, <1>4, <1>5, <1>6, <1>7, <1>8

\* r.Body of a handler in this module is the stream BodyReader is shown to be,
\* whatever its plan: chunks in order, an honest and final EOF (filter.go 292-
\* 346, body.go).
THEOREM RequestBodyIsStream == Spec => RequestBody!Spec
<1> DEFINE Inv == TypeInv /\ BodyInv /\ BodyStreamInv
<1>1. Init => Inv /\ RequestBody!Init
  <2>1. Init => BodyStreamInv
    BY DEF Init, BodyStreamInv, NoHalf, ReadingReq
  <2>2. Init => RequestBody!Init
    BY LimitAssumption DEF Init, RequestBody!Init, NoHalf, Ended, BeforeEOF
  <2> QED
    BY <2>1, <2>2, InitTypeInv, InitBodyInv
<1>2. Inv /\ [Next]_vars => BodyStreamInv' /\ [RequestBody!Next]_(RequestBody!bvars)
  <2> SUFFICES ASSUME Inv, [Next]_vars PROVE StreamStep
    BY DEF StreamStep
  <2>1. CASE Terminated \/ UNCHANGED vars
    BY <2>1 DEF Terminated, vars, envoyVars, flagVars, pipeVars, goVars, StreamStep,
       BodyStreamInv, Ended, RequestBody!bvars
  <2> QED
    BY <2>1, WorkerStreams, ClosureStreams, GoroutineStreams DEF Next
<1>3. Inv /\ [Next]_vars => Inv'
  BY <1>2, NextTypeInv, NextBodyInv
<1> QED
  BY <1>1, <1>2, <1>3, PTL DEF Spec, RequestBody!Spec

-----------------------------------------------------------------------------
(***************************************************************************)
(* Queues of closures in which none occurs twice.                          *)
(***************************************************************************)

In(s, c) == \E i \in 1..Len(s) : s[i] = c
Distinct(s) == \A i, j \in 1..Len(s) : s[i] = s[j] => i = j

\* Appending adds the one closure.
LEMMA InAppend ==
  ASSUME NEW s \in Seq(Closures), NEW c \in Closures
  PROVE  /\ \A d : In(Append(s, c), d) <=> In(s, d) \/ d = c
         /\ Distinct(s) /\ ~In(s, c) => Distinct(Append(s, c))
<1> DEFINE t == Append(s, c)
<1>1. /\ Len(t) = Len(s) + 1 /\ Len(s) \in Nat
      /\ \A i \in 1..Len(s) : t[i] = s[i]
      /\ t[Len(s) + 1] = c
  OBVIOUS
<1> HIDE DEF t
<1>2. ASSUME NEW d PROVE In(t, d) <=> In(s, d) \/ d = c
  <2>1. In(s, d) => In(t, d)
    BY <1>1 DEF In
  <2>2. d = c => In(t, d)
    BY <1>1 DEF In
  <2>3. ASSUME In(t, d) PROVE In(s, d) \/ d = c
    <3>1. PICK i \in 1..Len(t) : t[i] = d
      BY <2>3 DEF In
    <3>2. i \in 1..Len(s) \/ i = Len(s) + 1
      BY <1>1
    <3> QED
      BY <1>1, <3>1, <3>2 DEF In
  <2> QED
    BY <2>1, <2>2, <2>3
<1>3. ASSUME Distinct(s), ~In(s, c) PROVE Distinct(t)
  <2> SUFFICES ASSUME NEW i \in 1..Len(t), NEW j \in 1..Len(t), t[i] = t[j]
               PROVE  i = j
    BY DEF Distinct
  <2>1. /\ i \in 1..Len(s) \/ i = Len(s) + 1
        /\ j \in 1..Len(s) \/ j = Len(s) + 1
    BY <1>1
  <2> QED
    BY <1>1, <1>3, <2>1 DEF Distinct, In
<1> QED
  BY <1>2, <1>3 DEF t

\* Taking the head off removes it, and nothing else.
LEMMA InTail ==
  ASSUME NEW s \in Seq(Closures), s # <<>>, Distinct(s)
  PROVE  /\ In(s, Head(s)) /\ ~In(Tail(s), Head(s))
         /\ \A d : d # Head(s) => (In(Tail(s), d) <=> In(s, d))
         /\ Distinct(Tail(s))
<1> DEFINE t == Tail(s)
<1>1. /\ Len(s) \in Nat \ {0} /\ Len(t) = Len(s) - 1
      /\ \A i \in 1..Len(t) : t[i] = s[i + 1]
      /\ Head(s) = s[1]
  OBVIOUS
<1> HIDE DEF t
<1>2. In(s, Head(s))
  BY <1>1 DEF In
<1>3. ~In(t, Head(s))
  <2> SUFFICES ASSUME NEW i \in 1..Len(t), t[i] = s[1] PROVE FALSE
    BY <1>1 DEF In
  <2>1. i + 1 \in 1..Len(s) /\ 1 \in 1..Len(s) /\ i + 1 # 1
    BY <1>1
  <2> QED
    BY <1>1, <2>1 DEF Distinct
<1>4. ASSUME NEW d, d # Head(s) PROVE In(t, d) <=> In(s, d)
  <2>1. ASSUME In(t, d) PROVE In(s, d)
    <3>1. PICK i \in 1..Len(t) : t[i] = d
      BY <2>1 DEF In
    <3>2. i + 1 \in 1..Len(s) /\ s[i + 1] = d
      BY <1>1, <3>1
    <3> QED
      BY <3>2 DEF In
  <2>2. ASSUME In(s, d) PROVE In(t, d)
    <3>1. PICK i \in 1..Len(s) : s[i] = d
      BY <2>2 DEF In
    <3>2. i # 1
      BY <1>1, <1>4, <3>1
    <3>3. i - 1 \in 1..Len(t) /\ t[i - 1] = s[(i - 1) + 1]
      BY <1>1, <3>2
    <3>4. (i - 1) + 1 = i
      OBVIOUS
    <3> QED
      BY <3>1, <3>3, <3>4 DEF In
  <2> QED
    BY <2>1, <2>2
<1>5. Distinct(t)
  <2> SUFFICES ASSUME NEW i \in 1..Len(t), NEW j \in 1..Len(t), t[i] = t[j]
               PROVE  i = j
    BY DEF Distinct
  <2>1. i + 1 \in 1..Len(s) /\ j + 1 \in 1..Len(s) /\ s[i + 1] = s[j + 1]
    BY <1>1
  <2>2. i + 1 = j + 1
    BY <2>1 DEF Distinct
  <2> QED
    BY <2>2
<1> QED
  BY <1>2, <1>3, <1>4, <1>5 DEF t

-----------------------------------------------------------------------------
(***************************************************************************)
(* The request is settled once.                                            *)
(***************************************************************************)

Pending(c) == In(sched, c)
Owed(c) == IF Pending(c) THEN 1 ELSE 0

\* The places before the request handler returns.
BeforeReturn == ReadingReq \cup {"none", "skip", "skipClose", "limitClose", "act"}

\* Of forwarding and answering, what has been done excludes the other.
Exclusive ==
  /\ rw.responded => req.cont = 0
  /\ ~rw.responded => ~local /\ Owed("local") = 0
  /\ pc \in BeforeReturn => ~rw.responded

\* What has been resumed together with what a pending closure will resume stays
\* within what the goroutine may ask for at its place.
Counts ==
  /\ pc \in BeforeReturn \cup {"finish"} => req.cont = 0 /\ Owed("finish") = 0
  /\ pc # "done" => /\ Owed("recover") = 0 /\ req.cont + Owed("finish") <= 1
                    /\ resp.cont = 0 /\ Owed("resp") = 0
  /\ pc = "panicked" => plan.panic # "no"
  /\ plan.panic = "request" /\ pc # "done" =>
       pc \in BeforeReturn \cup {"panicked"} /\ req.cont = 0 /\ Owed("finish") = 0
  /\ req.cont + Owed("finish") + Owed("recover") <=
       (IF plan.panic = "response" THEN 2 ELSE 1)
  /\ resp.cont + Owed("resp") <= 1

SettledInv == Distinct(sched) /\ Exclusive /\ Counts

\* A closure is pending or not.
LEMMA OwedType ==
  /\ \A c : Owed(c) \in {0, 1} /\ (Pending(c) <=> Owed(c) = 1)
  /\ (\A c : Owed(c) \in {0, 1} /\ (Pending(c) <=> Owed(c) = 1))'
<1>1. \A c : Owed(c) \in {0, 1} /\ (Pending(c) <=> Owed(c) = 1)
  BY DEF Owed
<1> QED
  BY <1>1, PTL

\* How often a half was resumed changes only when it is.
LEMMA ContField ==
  ASSUME NEW h \in Half
  PROVE  /\ Resume(h).cont = h.cont + 1
         /\ Continue(h).cont = h.cont /\ StopAndBuffer(h).cont = h.cont
         /\ \A n \in Nat, e \in BOOLEAN : Deliver(h, n, e).cont = h.cont
         /\ \A d \in {"held", "sent"}, e \in BOOLEAN : Announce(h, d, e).cont = h.cont
  BY DEF Half, Resume, Continue, StopAndBuffer, Deliver, Announce

\* Nothing is settled or pending initially.
LEMMA InitSettledInv == Init => SettledInv
<1> SUFFICES ASSUME Init PROVE SettledInv
  OBVIOUS
<1>1. sched = <<>> /\ req.cont = 0 /\ resp.cont = 0 /\ pc = "none"
  BY DEF Init, NoHalf
<1>2. ~rw.responded /\ ~local
  BY DEF Init
<1>3. Distinct(sched) /\ \A c : ~In(sched, c)
  BY <1>1 DEF Distinct, In
<1>4. \A c : Owed(c) = 0
  BY <1>3 DEF Owed, Pending
<1> QED
  BY <1>1, <1>2, <1>3, <1>4 DEF SettledInv, Exclusive, Counts, BeforeReturn

\* The steps that neither schedule nor run a closure: the counts stay, and pc
\* moves within a phase.
LEMMA QuietStep ==
  ASSUME TypeOK, SettledInv, UNCHANGED <<plan, sched, local>>,
         rw'.responded = rw.responded, req'.cont = req.cont, resp'.cont = resp.cont,
         \/ pc' = pc
         \/ pc \in BeforeReturn \ {"act"} /\ pc' \in BeforeReturn
         \/ pc \notin BeforeReturn \cup {"finish", "panicked", "done"}
            /\ pc' \notin BeforeReturn \cup {"finish", "panicked"}
         \/ pc \notin BeforeReturn \cup {"finish", "panicked", "done"}
            /\ pc' = "panicked" /\ plan.panic = "response"
  PROVE  SettledInv'
<1>1. Distinct(sched)' /\ \A c : Owed(c)' = Owed(c)
  BY DEF SettledInv, Distinct, Owed, Pending, In
<1>2. pc' \in BeforeReturn => pc \in BeforeReturn
  BY DEF BeforeReturn, ReadingReq
<1>3. Exclusive'
  BY <1>1, <1>2 DEF SettledInv, Exclusive
<1>4. Counts'
  BY <1>1, <1>2 DEF SettledInv, Counts, BeforeReturn, ReadingReq
<1> QED
  BY <1>1, <1>3, <1>4 DEF SettledInv

\* The places of a plan's body are all before the return.
LEMMA PlanBody == TypeOK => plan.body \in BeforeReturn
  BY PlansAssumption DEF TypeOK, Plan, BeforeReturn, ReadingReq

\* Nor do the callbacks of Envoy, whichever way they return.
LEMMA WorkerQuiet ==
  ASSUME TypeOK, BodyInv, SettledInv, Callback \/ WorkerStep \/ Cancel
  PROVE  SettledInv'
<1> USE DEF TypeOK, envoyVars, flagVars, pipeVars, goVars
<1>1. ASSUME NEW e \in BOOLEAN, OnRequestHeaders(e) PROVE SettledInv'
  <2>1. req'.cont = req.cont
    BY <1>1, ContField DEF OnRequestHeaders
  <2>2. pc' \in BeforeReturn
    BY <1>1, PlanBody DEF OnRequestHeaders
  <2>3. pc = "none"
    BY <1>1 DEF OnRequestHeaders, BodyInv
  <2>4. pc \in BeforeReturn \ {"act"}
    BY <2>3 DEF BeforeReturn, ReadingReq
  <2>5. UNCHANGED <<plan, sched, local, rw, resp>>
    BY <1>1 DEF OnRequestHeaders
  <2> QED
    BY <2>1, <2>2, <2>4, <2>5, QuietStep
<1>2. ASSUME NEW e \in BOOLEAN, OnResponseHeaders(e) PROVE SettledInv'
  <2>1. resp'.cont = resp.cont
    BY <1>2, ContField DEF OnResponseHeaders
  <2>2. UNCHANGED <<plan, sched, local, rw, req, pc>>
    BY <1>2 DEF OnResponseHeaders
  <2> QED
    BY <2>1, <2>2, QuietStep
<1>3. ASSUME NEW e \in BOOLEAN, NEW n \in 0..Batch,
             OnRequestBody(n, e) \/ OnResponseBody(n, e)
      PROVE  SettledInv'
  <2>1. n \in Nat
    BY BoundAssumption
  <2>2. ASSUME NEW h \in Half
        PROVE  Deliver(h, n, e).cont = h.cont /\ Continue(Deliver(h, n, e)).cont = h.cont
    BY <2>1, HalfOps, ContField
  <2>3. req'.cont = req.cont /\ resp'.cont = resp.cont
    BY <1>3, <2>2 DEF OnRequestBody, OnResponseBody
  <2>4. UNCHANGED <<plan, sched, local, rw, pc>>
    BY <1>3 DEF OnRequestBody, OnResponseBody
  <2> QED
    BY <2>3, <2>4, QuietStep
<1>4. ASSUME WorkerStep PROVE SettledInv'
  <2>1. req'.cont = req.cont /\ resp'.cont = resp.cont
    BY <1>4, ContField DEF WorkerStep, SendRequestChunk, RequestSendRefused,
       RequestBodyReturns, SendResponseChunk, ResponseSendRefused,
       ResponseBodyReturns, OnStreamComplete
  <2>2. UNCHANGED <<plan, sched, local, rw, pc>>
    BY <1>4 DEF WorkerStep, SendRequestChunk, RequestSendRefused,
       RequestBodyReturns, SendResponseChunk, ResponseSendRefused,
       ResponseBodyReturns, OnStreamComplete
  <2> QED
    BY <2>1, <2>2, QuietStep
<1>5. ASSUME Cancel PROVE SettledInv'
  BY <1>5, QuietStep DEF Cancel
<1>6. CASE Callback
  <2>1. PICK e \in BOOLEAN :
          \/ OnRequestHeaders(e) \/ OnResponseHeaders(e)
          \/ \E n \in 0..Batch : OnRequestBody(n, e) \/ OnResponseBody(n, e)
    BY <1>6, Zenon DEF Callback
  <2> QED
    BY <2>1, <1>1, <1>2, <1>3, Zenon
<1> QED
  BY <1>4, <1>5, <1>6

\* A closure that runs turns its place in the queue into what it does.
LEMMA ClosureSettles ==
  ASSUME TypeOK, SettledInv, RunScheduled
  PROVE  SettledInv'
<1> DEFINE c == Head(sched)
<1>1. /\ sched # <<>> /\ sched' = Tail(sched)
      /\ UNCHANGED <<plan, pc, rw>>
  BY DEF RunScheduled, FinishRequest, SendLocalResponse, RecoverRequest,
     FinishResponse, NextClosure, goVars
<1>2. /\ Distinct(sched)' /\ Pending(c) /\ ~In(sched', c)
      /\ \A d : d # c => (In(sched', d) <=> Pending(d))
  BY <1>1, InTail DEF TypeOK, SettledInv, Pending, Distinct
<1>3. /\ Owed(c) = 1 /\ \A d : d = c => Owed(d)' = 0
      /\ \A d : d # c => Owed(d)' = Owed(d)
  BY <1>2 DEF Owed, Pending
<1>4. /\ req.cont \in Nat /\ resp.cont \in Nat
      /\ \A d : Owed(d) \in {0, 1}
  BY OwedType DEF TypeOK, Half
<1> HIDE DEF c
<1>5. CASE FinishRequest
  <2>1. c = "finish" /\ UNCHANGED <<resp, local>>
    BY <1>5 DEF FinishRequest, NextClosure, c
  <2>2. /\ rw.responded => req' = req
        /\ ~rw.responded => req'.cont = req.cont + 1
    BY <1>5, ContField DEF FinishRequest, TypeOK
  <2>3. Owed("finish") = 1 /\ Owed("finish")' = 0
    BY <1>3, <2>1
  <2>4. Owed("recover")' = Owed("recover") /\ Owed("resp")' = Owed("resp")
        /\ Owed("local")' = Owed("local")
    BY <1>3, <2>1
  <2>5. Exclusive'
    BY <1>1, <2>1, <2>2, <2>4 DEF SettledInv, Exclusive
  <2>6. req'.cont <= req.cont + 1 /\ req'.cont \in Nat
    BY <1>4, <2>2
  <2>7. Counts'
    BY <1>1, <1>4, <2>1, <2>3, <2>4, <2>6 DEF SettledInv, Counts
  <2> QED
    BY <1>2, <2>5, <2>7 DEF SettledInv
<1>6. CASE SendLocalResponse
  <2>1. c = "local" /\ UNCHANGED <<req, resp>>
    BY <1>6 DEF SendLocalResponse, NextClosure, c
  <2>2. Owed("finish")' = Owed("finish") /\ Owed("recover")' = Owed("recover")
        /\ Owed("resp")' = Owed("resp") /\ Owed("local") = 1
    BY <1>3, <2>1
  <2>3. rw.responded
    BY <2>2 DEF SettledInv, Exclusive
  <2>4. Exclusive'
    BY <1>1, <2>1, <2>3 DEF SettledInv, Exclusive
  <2>5. Counts'
    BY <1>1, <2>1, <2>2 DEF SettledInv, Counts
  <2> QED
    BY <1>2, <2>4, <2>5 DEF SettledInv
<1>7. CASE RecoverRequest
  <2>1. c = "recover" /\ UNCHANGED <<resp, local>>
    BY <1>7 DEF RecoverRequest, NextClosure, c
  <2>2. /\ rw.responded => req' = req
        /\ ~rw.responded => req'.cont = req.cont + 1
    BY <1>7, ContField DEF RecoverRequest, TypeOK
  <2>3. Owed("recover") = 1 /\ Owed("recover")' = 0
    BY <1>3, <2>1
  <2>4. Owed("finish")' = Owed("finish") /\ Owed("resp")' = Owed("resp")
        /\ Owed("local")' = Owed("local")
    BY <1>3, <2>1
  <2>5. Exclusive'
    BY <1>1, <2>1, <2>2, <2>4 DEF SettledInv, Exclusive
  <2>6. req'.cont <= req.cont + 1 /\ req'.cont \in Nat
    BY <1>4, <2>2
  <2>7. pc = "done"
    BY <2>3 DEF SettledInv, Counts
  <2>8. Counts'
    BY <1>1, <1>4, <2>1, <2>3, <2>4, <2>6, <2>7 DEF SettledInv, Counts, BeforeReturn,
       ReadingReq
  <2> QED
    BY <1>2, <2>5, <2>8 DEF SettledInv
<1>8. CASE FinishResponse
  <2>1. c = "resp" /\ UNCHANGED <<req, local>>
    BY <1>8 DEF FinishResponse, NextClosure, c
  <2>2. resp'.cont = resp.cont + 1
    BY <1>8, ContField DEF FinishResponse, TypeOK
  <2>3. Owed("resp") = 1 /\ Owed("resp")' = 0
    BY <1>3, <2>1
  <2>4. Owed("finish")' = Owed("finish") /\ Owed("recover")' = Owed("recover")
        /\ Owed("local")' = Owed("local")
    BY <1>3, <2>1
  <2>5. Exclusive'
    BY <1>1, <2>1, <2>4 DEF SettledInv, Exclusive
  <2>6. Counts'
    BY <1>1, <1>4, <2>1, <2>2, <2>3, <2>4 DEF SettledInv, Counts
  <2> QED
    BY <1>2, <2>5, <2>6 DEF SettledInv
<1> QED
  BY <1>5, <1>6, <1>7, <1>8 DEF RunScheduled
-----------------------------------------------------------------------------

\* Scheduling a closure that is not pending adds it to what is owed.
LEMMA Schedules ==
  ASSUME TypeOK, SettledInv, NEW c \in Closures, sched' = Append(sched, c), Owed(c) = 0
  PROVE  /\ Distinct(sched)'
         /\ \A d : d = c => Owed(d)' = 1
         /\ \A d : d # c => Owed(d)' = Owed(d)
<1>1. ~In(sched, c)
  BY OwedType DEF Pending
<1>2. /\ Distinct(sched')
      /\ \A d : In(sched', d) <=> In(sched, d) \/ d = c
  BY <1>1, InAppend DEF TypeOK, SettledInv
<1> QED
  BY <1>2 DEF Owed, Pending, Distinct

\* The request handler acts: with w.Send it schedules the answer.
LEMMA HandlerSettles ==
  ASSUME TypeOK, SettledInv, HandlerActs
  PROVE  SettledInv'
<1>1. /\ pc = "act" /\ UNCHANGED <<plan, req, resp, local>>
      /\ pc' = IF plan.panic = "request" THEN "panicked" ELSE "finish"
  BY DEF HandlerActs, envoyVars
<1>2. pc \in BeforeReturn /\ ~rw.responded
  BY <1>1 DEF BeforeReturn, SettledInv, Exclusive
<1>3. Owed("local") = 0 /\ ~local /\ req.cont = 0
  BY <1>1, <1>2 DEF SettledInv, Exclusive, Counts
<1>4. rw'.responded <=> plan.out = "send"
  BY DEF HandlerActs
<1>5. /\ Distinct(sched)'
      /\ plan.out # "send" => Owed("local")' = 0
      /\ Owed("finish")' = Owed("finish") /\ Owed("recover")' = Owed("recover")
      /\ Owed("resp")' = Owed("resp")
  <2>1. CASE plan.out = "send"
    <3>1. sched' = Append(sched, "local") /\ "local" \in Closures
      BY <2>1 DEF HandlerActs, Closures
    <3> QED
      BY <1>3, <2>1, <3>1, Schedules
  <2>2. CASE plan.out # "send"
    <3>1. sched' = sched
      BY <2>2 DEF HandlerActs
    <3> QED
      BY <1>3, <3>1 DEF SettledInv, Distinct, Owed, Pending
  <2> QED
    BY <2>1, <2>2
<1>6. pc' \in {"panicked", "finish"} /\ pc' \notin BeforeReturn
  BY <1>1 DEF BeforeReturn, ReadingReq
<1>7. Exclusive'
  BY <1>1, <1>3, <1>4, <1>5, <1>6 DEF Exclusive
<1>8. Counts'
  BY <1>1, <1>2, <1>5, <1>6 DEF SettledInv, Counts
<1> QED
  BY <1>5, <1>7, <1>8 DEF SettledInv

\* The goroutine schedules the end of a phase, once for each.
LEMMA EndSettles ==
  ASSUME TypeOK, SettledInv, ScheduleFinish \/ Recover \/ ScheduleResponse
  PROVE  SettledInv'
<1>0. /\ UNCHANGED <<plan, req, resp, local, rw>>
      /\ req.cont \in Nat /\ resp.cont \in Nat /\ \A d : Owed(d) \in {0, 1}
      /\ {"finish", "recover", "resp"} \subseteq Closures
  BY OwedType DEF ScheduleFinish, Recover, ScheduleResponse, envoyVars, TypeOK, Half,
     Closures
<1>1. CASE ScheduleFinish
  <2>1. /\ pc = "finish" /\ pc' \in {"done", "await"}
        /\ sched' = Append(sched, "finish")
    BY <1>1 DEF ScheduleFinish
  <2>2. Owed("finish") = 0 /\ req.cont = 0 /\ plan.panic # "request"
    BY <2>1 DEF SettledInv, Counts, BeforeReturn, ReadingReq
  <2>3. /\ Distinct(sched)' /\ Owed("finish")' = 1
        /\ Owed("recover")' = Owed("recover") /\ Owed("resp")' = Owed("resp")
        /\ Owed("local")' = Owed("local")
    BY <1>0, <2>1, <2>2, Schedules
  <2>4. pc' \notin BeforeReturn \cup {"finish", "panicked"} /\ pc # "done"
    BY <2>1 DEF BeforeReturn, ReadingReq
  <2>5. Exclusive'
    BY <1>0, <2>3, <2>4 DEF SettledInv, Exclusive
  <2>6. Counts'
    BY <1>0, <2>2, <2>3, <2>4 DEF SettledInv, Counts
  <2> QED
    BY <2>3, <2>5, <2>6 DEF SettledInv
<1>2. CASE Recover
  <2>1. pc = "panicked" /\ pc' = "done" /\ sched' = Append(sched, "recover")
    BY <1>2 DEF Recover
  <2>2. /\ Owed("recover") = 0 /\ req.cont + Owed("finish") <= 1
        /\ plan.panic = "request" => req.cont = 0 /\ Owed("finish") = 0
        /\ plan.panic \in {"request", "response"}
    <3>1. plan.panic \in {"no", "request", "response"}
      BY PlansAssumption DEF TypeOK, Plan
    <3> QED
      BY <2>1, <3>1 DEF SettledInv, Counts
  <2>3. /\ Distinct(sched)' /\ Owed("recover")' = 1
        /\ Owed("finish")' = Owed("finish") /\ Owed("resp")' = Owed("resp")
        /\ Owed("local")' = Owed("local")
    BY <1>0, <2>1, <2>2, Schedules
  <2>4. pc' \notin BeforeReturn \cup {"finish", "panicked"} /\ pc # "done"
    BY <2>1 DEF BeforeReturn, ReadingReq
  <2>5. Exclusive'
    BY <1>0, <2>3, <2>4 DEF SettledInv, Exclusive
  <2>6. req'.cont + Owed("finish")' + Owed("recover")' <=
          (IF plan'.panic = "response" THEN 2 ELSE 1)
    <3>1. Owed("finish") \in {0, 1}
      BY <1>0
    <3>2. /\ req'.cont + Owed("finish")' + Owed("recover")' <= 2
          /\ plan.panic = "request" =>
               req'.cont + Owed("finish")' + Owed("recover")' <= 1
      BY <1>0, <2>2, <2>3, <3>1
    <3>3. plan' = plan
      BY <1>0
    <3> QED
      BY <2>2, <3>2, <3>3
  <2>7. Counts'
    BY <1>0, <2>1, <2>3, <2>4, <2>6 DEF SettledInv, Counts
  <2> QED
    BY <2>3, <2>5, <2>7 DEF SettledInv
<1>3. CASE ScheduleResponse
  <2>1. pc = "respFinish" /\ pc' = "done" /\ sched' = Append(sched, "resp")
    BY <1>3 DEF ScheduleResponse
  <2>2. Owed("resp") = 0 /\ resp.cont = 0
    BY <2>1 DEF SettledInv, Counts
  <2>3. /\ Distinct(sched)' /\ Owed("resp")' = 1
        /\ Owed("finish")' = Owed("finish") /\ Owed("recover")' = Owed("recover")
        /\ Owed("local")' = Owed("local")
    BY <1>0, <2>1, <2>2, Schedules
  <2>4. pc' \notin BeforeReturn \cup {"finish", "panicked"}
    BY <2>1 DEF BeforeReturn, ReadingReq
  <2>5. Exclusive'
    BY <1>0, <2>3, <2>4 DEF SettledInv, Exclusive
  <2>6. Counts'
    BY <1>0, <2>1, <2>2, <2>3, <2>4 DEF SettledInv, Counts
  <2> QED
    BY <2>3, <2>5, <2>6 DEF SettledInv
<1> QED
  BY <1>1, <1>2, <1>3

\* The rest of what the goroutine does is quiet.
LEMMA GoroutineSettles ==
  ASSUME TypeOK, SettledInv, Goroutine
  PROVE  SettledInv'
<1> USE DEF envoyVars
<1>1. CASE ReadRequest \/ LimitReached \/ RequestEOF \/ SkipBody \/ SkipCloses
  <2>1. UNCHANGED <<plan, sched, local, rw, req, resp>>
    BY <1>1 DEF ReadRequest, LimitReached, RequestEOF, SkipBody, SkipCloses
  <2>2. pc \in BeforeReturn \ {"act"} /\ pc' \in BeforeReturn
    BY <1>1 DEF ReadRequest, LimitReached, RequestEOF, SkipBody, SkipCloses,
       BeforeReturn, ReadingReq
  <2> QED
    BY <2>1, <2>2, QuietStep
<1>2. CASE StopReading
  <2>1. UNCHANGED <<plan, sched, local, rw, req, resp>>
    BY <1>2 DEF StopReading
  <2>2. \/ pc \in BeforeReturn \ {"act"} /\ pc' \in BeforeReturn
        \/ /\ pc \notin BeforeReturn \cup {"finish", "panicked", "done"}
           /\ pc' \notin BeforeReturn \cup {"finish", "panicked"}
    BY <1>2 DEF StopReading, BeforeReturn, ReadingReq
  <2> QED
    BY <2>1, <2>2, QuietStep
<1>3. CASE \/ HeadersArrive \/ AwaitCancelled \/ ReadResponse \/ ResponseEOF
           \/ SkipResponseBody \/ SkipResponseCloses
  <2>1. UNCHANGED <<plan, sched, local, rw, req, resp>>
    BY <1>3 DEF HeadersArrive, AwaitCancelled, ReadResponse, ResponseEOF,
       SkipResponseBody, SkipResponseCloses
  <2>2. \/ pc' = pc
        \/ /\ pc \notin BeforeReturn \cup {"finish", "panicked", "done"}
           /\ pc' \notin BeforeReturn \cup {"finish", "panicked"}
    BY <1>3 DEF HeadersArrive, AwaitCancelled, ReadResponse, ResponseEOF,
       SkipResponseBody, SkipResponseCloses, BeforeReturn, ReadingReq, ReadingResp
  <2> QED
    BY <2>1, <2>2, QuietStep
<1>4. CASE ResponseHandlerActs
  <2>1. UNCHANGED <<plan, sched, local, req, resp>>
    BY <1>4 DEF ResponseHandlerActs
  <2>2. rw'.responded = rw.responded
    BY <1>4 DEF ResponseHandlerActs, TypeOK
  <2>3. /\ pc \notin BeforeReturn \cup {"finish", "panicked", "done"}
        /\ \/ pc' \notin BeforeReturn \cup {"finish", "panicked"}
           \/ pc' = "panicked" /\ plan.panic = "response"
    BY <1>4 DEF ResponseHandlerActs, BeforeReturn, ReadingReq
  <2> QED
    BY <2>1, <2>2, <2>3, QuietStep
<1>5. CASE HandlerActs
  BY <1>5, HandlerSettles
<1>6. CASE ScheduleFinish \/ Recover \/ ScheduleResponse
  BY <1>6, EndSettles
<1> QED
  BY <1>1, <1>2, <1>3, <1>4, <1>5, <1>6 DEF Goroutine

\* Every step of the system keeps the account.
LEMMA NextSettledInv == TypeOK /\ BodyInv /\ SettledInv /\ [Next]_vars => SettledInv'
<1> SUFFICES ASSUME TypeOK, BodyInv, SettledInv, [Next]_vars PROVE SettledInv'
  OBVIOUS
<1>1. CASE Terminated \/ UNCHANGED vars
  BY <1>1, QuietStep DEF Terminated, vars, envoyVars, goVars
<1> QED
  BY <1>1, WorkerQuiet, ClosureSettles, GoroutineSettles DEF Next

\* A request is not both forwarded by the filter and answered by it, nor resumed
\* twice, in whatever order the worker comes to the closures of run() and Send
\* (filter.go 491-513, 205-214); only the recovery of a panic of the response
\* handler resumes a request once more.
THEOREM SettledOnceCorrect == Spec => []SettledOnce
<1>1. Init => TypeInv /\ BodyInv /\ SettledInv
  BY InitTypeInv, InitBodyInv, InitSettledInv
<1>2. TypeInv /\ BodyInv /\ SettledInv /\ [Next]_vars
        => TypeInv' /\ BodyInv' /\ SettledInv'
  BY NextTypeInv, NextBodyInv, NextSettledInv DEF TypeInv
<1>3. TypeInv /\ SettledInv => SettledOnce
  <2> SUFFICES ASSUME TypeOK, SettledInv PROVE SettledOnce
    BY DEF TypeInv
  <2>1. /\ req.cont \in Nat /\ resp.cont \in Nat
        /\ \A d : Owed(d) \in {0, 1}
    BY OwedType DEF TypeOK, Half
  <2>2. local => req.cont = 0
    BY DEF SettledInv, Exclusive
  <2> QED
    BY <2>1, <2>2 DEF SettledInv, Counts, SettledOnce
<1> QED
  BY <1>1, <1>2, <1>3, PTL DEF Spec
-----------------------------------------------------------------------------
(***************************************************************************)
(* The response handler has the response writer to itself.                 *)
(***************************************************************************)

\* A request whose body is read to its end goes on only by ContinueRequest, and
\* what comes back follows it.
ResponseInv ==
  /\ plan.body = "read" /\ req.hdr = "sent" => req.cont > 0
  /\ resp.hdr # "idle" => req.hdr = "sent"
  /\ respHeadersCh > 0 \/ pc \in ResponsePhase => resp.hdr # "idle"
  /\ wk.at = "respSend" \/ Pending("resp") => resp.hdr # "idle"

\* No headers have been sent on initially.
LEMMA InitResponseInv == Init => ResponseInv
  BY DEF Init, ResponseInv, NoHalf, ResponsePhase, ReadingResp, Idle, Pending, In

\* Only ScheduleResponse asks for the response to be resumed.
LEMMA RespScheduled ==
  ASSUME TypeOK, Goroutine
  PROVE  Pending("resp")' => Pending("resp") \/ pc = "respFinish"
<1>1. /\ \/ sched' = sched
         \/ \E c \in Closures \ {"resp"} : sched' = Append(sched, c)
         \/ pc = "respFinish"
      /\ sched \in Seq(Closures)
  BY DEF Goroutine, ReadRequest, LimitReached, RequestEOF, StopReading, SkipBody,
     SkipCloses, HandlerActs, ScheduleFinish, Recover, HeadersArrive,
     AwaitCancelled, ReadResponse, ResponseEOF, SkipResponseBody,
     SkipResponseCloses, ResponseHandlerActs, ScheduleResponse, TypeOK, Closures
<1>2. \A c \in Closures \ {"resp"} :
        In(Append(sched, c), "resp") <=> In(sched, "resp")
  BY <1>1, InAppend
<1>3. In(sched', "resp") => In(sched, "resp") \/ pc = "respFinish"
  BY <1>1, <1>2
<1> QED
  BY <1>3 DEF Pending, In

\* The goroutine enters the response phase with headers from the channel.
LEMMA GoroutineResponse ==
  ASSUME TypeOK, ResponseInv, Goroutine
  PROVE  ResponseInv'
<1> USE DEF ResponseInv
<1>1. UNCHANGED <<plan, req, resp>>
  BY DEF Goroutine, ReadRequest, LimitReached, RequestEOF, StopReading, SkipBody,
     SkipCloses, HandlerActs, ScheduleFinish, Recover, HeadersArrive,
     AwaitCancelled, ReadResponse, ResponseEOF, SkipResponseBody,
     SkipResponseCloses, ResponseHandlerActs, ScheduleResponse, envoyVars
<1>2. respHeadersCh' > 0 => respHeadersCh > 0
  BY DEF Goroutine, ReadRequest, LimitReached, RequestEOF, StopReading, SkipBody,
     SkipCloses, HandlerActs, ScheduleFinish, Recover, HeadersArrive,
     AwaitCancelled, ReadResponse, ResponseEOF, SkipResponseBody,
     SkipResponseCloses, ResponseHandlerActs, ScheduleResponse, pipeVars, TypeOK
<1>3. pc' \in ResponsePhase => pc \in ResponsePhase \/ respHeadersCh > 0
  BY DEF Goroutine, ReadRequest, LimitReached, RequestEOF, StopReading, SkipBody,
     SkipCloses, HandlerActs, ScheduleFinish, Recover, HeadersArrive,
     AwaitCancelled, ReadResponse, ResponseEOF, SkipResponseBody,
     SkipResponseCloses, ResponseHandlerActs, ScheduleResponse, ResponsePhase,
     ReadingReq, ReadingResp
<1>4. wk' = wk
  BY DEF Goroutine, ReadRequest, LimitReached, RequestEOF, StopReading, SkipBody,
     SkipCloses, HandlerActs, ScheduleFinish, Recover, HeadersArrive,
     AwaitCancelled, ReadResponse, ResponseEOF, SkipResponseBody,
     SkipResponseCloses, ResponseHandlerActs, ScheduleResponse
<1>5. Pending("resp")' => Pending("resp") \/ pc = "respFinish"
  BY RespScheduled
<1>6. pc = "respFinish" => pc \in ResponsePhase
  BY DEF ResponsePhase
<1> QED
  BY <1>1, <1>2, <1>3, <1>4, <1>5, <1>6

\* Every step of the system keeps the order of the headers.
LEMMA NextResponseInv ==
  TypeInv /\ BodyInv /\ SettledInv /\ ResponseInv /\ [Next]_vars => ResponseInv'
<1> SUFFICES ASSUME TypeInv, BodyInv, SettledInv, ResponseInv, [Next]_vars
             PROVE  ResponseInv'
  OBVIOUS
<1> USE DEF TypeInv, TypeOK, ResponseInv, vars, envoyVars, flagVars, pipeVars, goVars
<1>0. req.cont \in Nat
  BY DEF Half
<1>1. ASSUME NEW e \in BOOLEAN, OnRequestHeaders(e) PROVE ResponseInv'
  <2>1. req'.hdr = "held" /\ req.hdr = "idle"
    BY <1>1, HalfFields DEF OnRequestHeaders
  <2>2. resp' = resp /\ respHeadersCh' = respHeadersCh /\ pc' = plan.body
    BY <1>1 DEF OnRequestHeaders
  <2>3. pc' \notin ResponsePhase
    BY <2>2, PlansAssumption DEF Plan, ResponsePhase, ReadingResp
  <2>4. wk' = wk /\ (Pending("resp")' <=> Pending("resp"))
    BY <1>1 DEF OnRequestHeaders, Pending
  <2> QED
    BY <2>1, <2>2, <2>3, <2>4
<1>2. ASSUME NEW e \in BOOLEAN, OnResponseHeaders(e) PROVE ResponseInv'
  <2>1. /\ req' = req /\ plan' = plan /\ pc' = pc
        /\ req.hdr = "sent"
    BY <1>2 DEF OnResponseHeaders
  <2>2. resp'.hdr \in {"held", "sent"}
    BY <1>2, HalfFields DEF OnResponseHeaders
  <2> QED
    BY <2>1, <2>2
<1>3. ASSUME NEW e \in BOOLEAN, NEW n \in 0..Batch, OnRequestBody(n, e)
      PROVE  ResponseInv'
  <2>0. n \in Nat
    BY BoundAssumption
  <2>1. n \in Nat /\ Deliver(req, n, e) \in Half
    BY <2>0, HalfOps
  <2>2. /\ UNCHANGED <<plan, resp, respHeadersCh, pc, sched>>
        /\ req.hdr # "idle" /\ ~req.end /\ wk.at = "idle"
    BY <1>3 DEF OnRequestBody, MayDeliver
  <2>3. plan.body = "read" => ~(bodyDone \/ bodySkip \/ headDone)
    BY <2>2 DEF BodyInv, LiveBody
  <2>4. req' \in {Deliver(req, n, e), Continue(Deliver(req, n, e))}
        /\ (plan.body = "read" => req' = Deliver(req, n, e))
    BY <1>3, <2>3 DEF OnRequestBody
  <2>5. Deliver(req, n, e).hdr = req.hdr /\ Deliver(req, n, e).cont = req.cont
        /\ Continue(Deliver(req, n, e)).hdr = "sent"
    BY <2>1, HalfFields, ContField
  <2>6. wk'.at # "respSend"
    BY <1>3, <2>2, WorkerFields DEF OnRequestBody
  <2>7. Pending("resp")' <=> Pending("resp")
    BY <2>2 DEF Pending
  <2> QED
    BY <2>2, <2>4, <2>5, <2>6, <2>7
<1>4. ASSUME NEW e \in BOOLEAN, NEW n \in 0..Batch, OnResponseBody(n, e)
      PROVE  ResponseInv'
  <2>0. n \in Nat
    BY BoundAssumption
  <2>1. Deliver(resp, n, e) \in Half
    BY <2>0, HalfOps
  <2>2. /\ Deliver(resp, n, e).hdr = resp.hdr
        /\ Continue(Deliver(resp, n, e)).hdr = "sent"
    BY <2>0, <2>1, HalfFields
  <2>3. /\ UNCHANGED <<plan, req, respHeadersCh, pc, sched>>
        /\ resp.hdr # "idle"
        /\ resp' \in {Deliver(resp, n, e), Continue(Deliver(resp, n, e))}
    BY <1>4 DEF OnResponseBody, MayDeliver
  <2> QED
    BY <2>2, <2>3
<1>5. CASE WorkerStep
  <2>1. /\ UNCHANGED <<plan, respHeadersCh, pc>>
        /\ Pending("resp")' <=> Pending("resp")
    BY <1>5 DEF WorkerStep, SendRequestChunk, RequestSendRefused,
       RequestBodyReturns, SendResponseChunk, ResponseSendRefused,
       ResponseBodyReturns, OnStreamComplete, Pending
  <2>2. CASE RequestSendRefused
    <3>1. plan.body # "read"
      BY <2>2 DEF RequestSendRefused, BodyInv, LiveBody
    <3>2. req'.hdr = "sent" /\ resp' = resp /\ wk'.at = "idle"
      BY <2>2, HalfFields, WorkerFields DEF RequestSendRefused
    <3> QED
      BY <2>1, <3>1, <3>2
  <2>3. CASE RequestBodyReturns
    <3>1. /\ req'.hdr = req.hdr /\ req'.cont = req.cont /\ resp' = resp
          /\ wk'.at = "idle"
      BY <2>3, HalfFields, ContField, WorkerFields DEF RequestBodyReturns
    <3> QED
      BY <2>1, <3>1
  <2>4. CASE ResponseSendRefused \/ ResponseBodyReturns
    <3>1. req' = req /\ wk.at = "respSend"
      BY <2>4 DEF ResponseSendRefused, ResponseBodyReturns
    <3>2. resp'.hdr = resp.hdr \/ resp'.hdr = "sent"
      BY <2>4, HalfFields DEF ResponseSendRefused, ResponseBodyReturns
    <3> QED
      BY <2>1, <3>1, <3>2
  <2>5. CASE SendRequestChunk \/ SendResponseChunk
    <3>1. req' = req /\ resp' = resp /\ wk'.at = wk.at
      BY <2>5, WorkerFields DEF SendRequestChunk, SendResponseChunk
    <3> QED
      BY <2>1, <3>1
  <2>6. CASE OnStreamComplete
    <3>1. req' = req /\ resp' = resp /\ wk'.at # "respSend"
      BY <2>6 DEF OnStreamComplete, Sending
    <3> QED
      BY <2>1, <3>1
  <2> QED
    BY <1>5, <2>2, <2>3, <2>4, <2>5, <2>6 DEF WorkerStep
<1>6. CASE RunScheduled
  <2>1. UNCHANGED <<plan, respHeadersCh, pc, wk>> /\ wk.at = "idle"
    BY <1>6 DEF RunScheduled, FinishRequest, SendLocalResponse, RecoverRequest,
       FinishResponse, NextClosure
  <2>2. req' = req \/ (req'.hdr = "sent" /\ req'.cont > 0)
    BY <1>0, <1>6, HalfFields, ContField DEF RunScheduled, FinishRequest,
       SendLocalResponse, RecoverRequest, FinishResponse
  <2>3. /\ sched # <<>> /\ sched' = Tail(sched)
        /\ resp' = resp \/ (resp'.hdr = "sent" /\ Head(sched) = "resp")
    BY <1>6, HalfFields DEF RunScheduled, FinishRequest, SendLocalResponse,
       RecoverRequest, FinishResponse, NextClosure
  <2>4. /\ In(sched, Head(sched))
        /\ In(sched', "resp") => In(sched, "resp")
    BY <2>3, InTail DEF SettledInv
  <2>5. Pending("resp")' => Pending("resp")
    BY <2>4 DEF Pending, In
  <2>6. resp' # resp => Pending("resp")
    BY <2>3, <2>4 DEF Pending
  <2>7. req.hdr = "sent" => req'.hdr = "sent"
    BY <2>2
  <2> QED
    BY <2>1, <2>2, <2>3, <2>5, <2>6, <2>7
<1>7. CASE Cancel \/ Terminated \/ UNCHANGED vars
  <2>1. UNCHANGED <<plan, req, resp, respHeadersCh, pc, sched>>
    BY <1>7 DEF Cancel, Terminated
  <2>2. wk'.at = "respSend" => wk.at = "respSend"
    BY <1>7 DEF Cancel, Terminated, Sending
  <2>3. Pending("resp")' <=> Pending("resp")
    BY <2>1 DEF Pending
  <2> QED
    BY <2>1, <2>2, <2>3
<1>8. CASE Goroutine
  BY <1>8, GoroutineResponse
<1>9. CASE Callback
  <2>1. PICK e \in BOOLEAN :
          \/ OnRequestHeaders(e) \/ OnResponseHeaders(e)
          \/ \E n \in 0..Batch : OnRequestBody(n, e) \/ OnResponseBody(n, e)
    BY <1>9, Zenon DEF Callback
  <2> QED
    BY <2>1, <1>1, <1>2, <1>3, <1>4, Zenon
<1> QED
  BY <1>5, <1>6, <1>7, <1>8, <1>9 DEF Next

\* The closure of the request phase has run before the goroutine enters the
\* response phase, so the two never use the response writer's mutation lists at
\* the same time (filter.go 491-513, 556-566).
THEOREM RwNotSharedCorrect == Spec => []RwNotShared
<1> DEFINE Inv == TypeInv /\ BodyInv /\ SettledInv /\ ResponseInv
<1>1. Init => Inv
  BY InitTypeInv, InitBodyInv, InitSettledInv, InitResponseInv
<1>2. Inv /\ [Next]_vars => Inv'
  BY NextTypeInv, NextBodyInv, NextSettledInv, NextResponseInv DEF TypeInv
<1>3. Inv => RwNotShared
  <2> SUFFICES ASSUME Inv, plan.body = "read", pc \in ResponsePhase
               PROVE  ~\E i \in 1..Len(sched) : sched[i] = "finish"
    BY DEF RwNotShared
  <2>1. req.cont > 0 /\ req.cont \in Nat
    BY DEF ResponseInv, TypeInv, TypeOK, Half
  <2>2. pc # "done"
    BY DEF ResponsePhase, ReadingResp
  <2>3. Owed("finish") = 0
    BY <2>1, <2>2, OwedType DEF SettledInv, Counts
  <2> QED
    BY <2>3, OwedType DEF Pending, In
<1> QED
  BY <1>1, <1>2, <1>3, PTL DEF Spec

-----------------------------------------------------------------------------
(***************************************************************************)
(* Mutations are applied while they still can be.                          *)
(***************************************************************************)

\* The worker runs closures in the order they were scheduled in, and only a
\* recovery that follows the finish closure can resume the request after it.
Fifo(s) ==
  \A i, j \in 1..Len(s) : s[i] = "recover" /\ s[j] = "finish" => j < i

\* A response held for a Buffer mode handler that reads all of it.
BufferInv ==
  /\ resp.cont = 0 => resp.hdr # "sent"
  /\ resp.cont = 0 /\ resp.in > 0 /\ wk.at # "respSend" => resp.buf
  /\ Pending("resp") => resp.end

TimelyInv ==
  /\ Fifo(sched)
  /\ Pending("finish") => req.cont = 0
  /\ plan.mode = "buffer" /\ plan.resp = "read" /\ ~cancelled => BufferInv

\* Everything that is known of a reachable state.
StreamInv == TypeInv /\ BodyInv /\ RespBodyInv /\ SettledInv /\ ResponseInv /\ TimelyInv

\* Appending keeps the order unless a recovery is pending; a head that is one
\* has no finish closure behind it.
LEMMA FifoOps ==
  ASSUME NEW s \in Seq(Closures), Fifo(s)
  PROVE  /\ \A c \in Closures :
              (c = "finish" => ~In(s, "recover")) => Fifo(Append(s, c))
         /\ s # <<>> => Fifo(Tail(s)) /\ (Head(s) = "recover" => ~In(s, "finish"))
<1>1. ASSUME NEW c \in Closures, c = "finish" => ~In(s, "recover")
      PROVE  Fifo(Append(s, c))
  <2> DEFINE t == Append(s, c)
  <2>1. /\ Len(t) = Len(s) + 1 /\ Len(s) \in Nat
        /\ \A i \in 1..Len(s) : t[i] = s[i]
        /\ t[Len(s) + 1] = c
    OBVIOUS
  <2> HIDE DEF t
  <2> SUFFICES ASSUME NEW i \in 1..Len(t), NEW j \in 1..Len(t),
                      t[i] = "recover", t[j] = "finish"
               PROVE  j < i
    BY DEF Fifo, t
  <2>2. /\ i \in 1..Len(s) \/ i = Len(s) + 1
        /\ j \in 1..Len(s) \/ j = Len(s) + 1
    BY <2>1
  <2>3. j \in 1..Len(s)
    BY <1>1, <2>1, <2>2 DEF In
  <2> QED
    BY <2>1, <2>2, <2>3 DEF Fifo
<1>2. ASSUME s # <<>>
      PROVE  Fifo(Tail(s)) /\ (Head(s) = "recover" => ~In(s, "finish"))
  <2> DEFINE t == Tail(s)
  <2>1. /\ Len(s) \in Nat \ {0} /\ Len(t) = Len(s) - 1
        /\ \A i \in 1..Len(t) : t[i] = s[i + 1]
        /\ Head(s) = s[1]
    BY <1>2
  <2> HIDE DEF t
  <2>2. ASSUME NEW i \in 1..Len(t), NEW j \in 1..Len(t),
               t[i] = "recover", t[j] = "finish"
        PROVE  j < i
    <3>1. i + 1 \in 1..Len(s) /\ j + 1 \in 1..Len(s)
      BY <2>1
    <3>2. j + 1 < i + 1
      BY <2>1, <2>2, <3>1 DEF Fifo
    <3> QED
      BY <3>2
  <2>3. ASSUME Head(s) = "recover", NEW j \in 1..Len(s), s[j] = "finish"
        PROVE  FALSE
    <3>1. 1 \in 1..Len(s) /\ s[1] = "recover"
      BY <2>1, <2>3
    <3>2. j < 1
      BY <2>3, <3>1 DEF Fifo
    <3> QED
      BY <3>2
  <2> QED
    BY <2>2, <2>3 DEF Fifo, In, t
<1> QED
  BY <1>1, <1>2

LEMMA InitTimelyInv == Init => TimelyInv
  BY DEF Init, TimelyInv, BufferInv, Fifo, Pending, In, NoHalf

\* What the operators on halves do to the other fields.
LEMMA BufField ==
  ASSUME NEW h \in Half
  PROVE  /\ StopAndBuffer(h).buf = TRUE
         /\ \A d \in {"held", "sent"}, e \in BOOLEAN : Announce(h, d, e).buf = h.buf
  BY DEF Half, StopAndBuffer, Announce

\* The goroutine asks for the request to be resumed before anything else can
\* have resumed it, and for the response when all of it is there.
LEMMA GoroutineTimely ==
  ASSUME StreamInv, Goroutine
  PROVE  TimelyInv'
<1> USE DEF StreamInv, TypeInv
<1>1. UNCHANGED <<plan, req, resp, cancelled, wk>>
  BY DEF Goroutine, ReadRequest, LimitReached, RequestEOF, StopReading, SkipBody,
     SkipCloses, HandlerActs, ScheduleFinish, Recover, HeadersArrive,
     AwaitCancelled, ReadResponse, ResponseEOF, SkipResponseBody,
     SkipResponseCloses, ResponseHandlerActs, ScheduleResponse, envoyVars
<1>2. /\ \/ sched' = sched
         \/ \E c \in Closures \ {"finish"} : sched' = Append(sched, c)
         \/ pc = "finish" /\ sched' = Append(sched, "finish")
      /\ sched \in Seq(Closures) /\ "finish" \in Closures
  BY DEF Goroutine, ReadRequest, LimitReached, RequestEOF, StopReading, SkipBody,
     SkipCloses, HandlerActs, ScheduleFinish, Recover, HeadersArrive,
     AwaitCancelled, ReadResponse, ResponseEOF, SkipResponseBody,
     SkipResponseCloses, ResponseHandlerActs, ScheduleResponse, TypeOK, Closures
<1>3. pc = "finish" => req.cont = 0 /\ ~In(sched, "recover")
  BY OwedType DEF SettledInv, Counts, Pending
<1>4. Fifo(sched')
  BY <1>2, <1>3, FifoOps DEF TimelyInv
<1>5. Pending("finish")' => req'.cont = 0
  <2>1. \A c \in Closures :
          In(Append(sched, c), "finish") => In(sched, "finish") \/ c = "finish"
    BY <1>2, InAppend
  <2>2. In(sched', "finish") => In(sched, "finish") \/ pc = "finish"
    BY <1>2, <2>1
  <2> QED
    BY <1>1, <1>3, <2>2 DEF TimelyInv, Pending, In
<1>6. ASSUME plan.mode = "buffer", plan.resp = "read", ~cancelled
      PROVE  BufferInv'
  <2>1. BufferInv /\ (pc = "respFinish" => resp.end)
    BY <1>6 DEF TimelyInv, RespBodyInv, LiveRespBody
  <2>2. Pending("resp")' => Pending("resp") \/ pc = "respFinish"
    BY RespScheduled
  <2> QED
    BY <1>1, <2>1, <2>2 DEF BufferInv
<1> QED
  BY <1>1, <1>4, <1>5, <1>6 DEF TimelyInv, Fifo

\* A closure that runs is the oldest one.
LEMMA ClosureTimely ==
  ASSUME StreamInv, RunScheduled
  PROVE  TimelyInv'
<1> USE DEF StreamInv, TypeInv
<1> DEFINE c == Head(sched)
<1>1. /\ sched # <<>> /\ sched' = Tail(sched) /\ sched \in Seq(Closures)
      /\ UNCHANGED <<plan, cancelled, wk>>
  BY DEF RunScheduled, FinishRequest, SendLocalResponse, RecoverRequest,
     FinishResponse, NextClosure, TypeOK
<1>2. /\ ~In(sched', c)
      /\ \A d : d # c => (In(sched', d) <=> In(sched, d))
  BY <1>1, InTail DEF SettledInv
<1>3. Fifo(sched') /\ (c = "recover" => ~In(sched, "finish"))
  BY <1>1, FifoOps DEF TimelyInv
<1>4. /\ req' = req \/ c \in {"finish", "recover"}
      /\ resp' = resp \/ (c = "resp" /\ resp'.cont = resp.cont + 1)
      /\ req \in Half /\ resp \in Half /\ resp.cont \in Nat
  BY ContField DEF RunScheduled, FinishRequest, SendLocalResponse, RecoverRequest,
     FinishResponse, NextClosure, TypeOK, Half
<1> HIDE DEF c
<1>5. ASSUME Pending("finish")' PROVE req'.cont = 0
  <2>1. In(sched', "finish")
    BY <1>5 DEF Pending, In
  <2>2. c # "finish" /\ In(sched, "finish")
    BY <1>2, <2>1
  <2>3. c # "recover"
    BY <1>3, <2>2
  <2> QED
    BY <1>4, <2>2, <2>3 DEF TimelyInv, Pending
<1>6. ASSUME plan.mode = "buffer", plan.resp = "read", ~cancelled
      PROVE  BufferInv'
  <2>1. BufferInv
    BY <1>6 DEF TimelyInv
  <2>2. CASE c = "resp"
    <3>1. ~Pending("resp")'
      BY <1>2, <2>2 DEF Pending, In
    <3>2. resp' = resp \/ resp'.cont # 0
      BY <1>4
    <3> QED
      BY <1>1, <2>1, <3>1, <3>2 DEF BufferInv
  <2>3. CASE c # "resp"
    <3>1. Pending("resp")' => Pending("resp")
      BY <1>2, <2>3 DEF Pending, In
    <3> QED
      BY <1>1, <1>4, <2>1, <2>3, <3>1 DEF BufferInv
  <2> QED
    BY <2>2, <2>3
<1> QED
  BY <1>1, <1>3, <1>5, <1>6 DEF TimelyInv, Fifo

\* Callbacks and what they go on with keep a live response held and buffered.
LEMMA WorkerTimely ==
  ASSUME StreamInv, Callback \/ WorkerStep \/ Cancel
  PROVE  TimelyInv'
<1> USE DEF StreamInv, TypeInv, TypeOK, envoyVars, flagVars, pipeVars, goVars
<1>1. UNCHANGED <<plan, sched>>
  BY DEF Callback, OnRequestHeaders, OnResponseHeaders, OnRequestBody, OnResponseBody,
     WorkerStep, SendRequestChunk, RequestSendRefused, RequestBodyReturns,
     SendResponseChunk, ResponseSendRefused, ResponseBodyReturns, OnStreamComplete, Cancel
<1>2. req'.cont = req.cont
  <2>1. ASSUME NEW n \in 0..Batch, NEW e \in BOOLEAN, OnRequestBody(n, e)
        PROVE  req'.cont = req.cont
    <3>1. n \in Nat
      BY BoundAssumption
    <3>2. Deliver(req, n, e) \in Half /\ Deliver(req, n, e).cont = req.cont
      BY <3>1, HalfOps, ContField
    <3>3. Continue(Deliver(req, n, e)).cont = req.cont
      BY <3>2, ContField
    <3> QED
      BY <2>1, <3>2, <3>3 DEF OnRequestBody
  <2>2. ASSUME NEW n \in 0..Batch, NEW e \in BOOLEAN,
               OnRequestHeaders(e) \/ OnResponseHeaders(e) \/ OnResponseBody(n, e)
        PROVE  req'.cont = req.cont
    BY <2>2, ContField DEF OnRequestHeaders, OnResponseHeaders, OnResponseBody
  <2>3. CASE WorkerStep \/ Cancel
    BY <2>3, ContField DEF WorkerStep, SendRequestChunk, RequestSendRefused,
       RequestBodyReturns, SendResponseChunk, ResponseSendRefused,
       ResponseBodyReturns, OnStreamComplete, Cancel
  <2>4. CASE Callback
    <3>1. PICK e \in BOOLEAN :
            \/ OnRequestHeaders(e) \/ OnResponseHeaders(e)
            \/ \E n \in 0..Batch : OnRequestBody(n, e) \/ OnResponseBody(n, e)
      BY <2>4, Zenon DEF Callback
    <3>2. 0 \in 0..Batch
      BY BoundAssumption
    <3> QED
      BY <2>1, <2>2, <3>1, <3>2, Zenon
  <2> QED
    BY <2>3, <2>4
<1>3. Fifo(sched)' /\ (Pending("finish")' => req'.cont = 0)
  BY <1>1, <1>2 DEF TimelyInv, Fifo, Pending, In
<1>4. ASSUME plan.mode = "buffer", plan.resp = "read", ~cancelled', cancelled' = cancelled
      PROVE  BufferInv'
  <2>0. /\ BufferInv /\ LiveRespBody
        /\ (Pending("resp")' <=> Pending("resp"))
    BY <1>1, <1>4 DEF TimelyInv, RespBodyInv, Pending
  <2>1. ASSUME resp' = resp, wk'.at = "respSend" <=> wk.at = "respSend" PROVE BufferInv'
    BY <2>0, <2>1 DEF BufferInv
  <2>2. ASSUME NEW e \in BOOLEAN, OnResponseHeaders(e) PROVE BufferInv'
    <3>1. /\ resp'.hdr = "held" /\ resp'.in = resp.in /\ resp'.cont = resp.cont
          /\ resp'.buf = resp.buf /\ wk' = wk
      <4>1. resp' = Announce(resp, "held", e) /\ wk' = wk
        BY <1>4, <2>2 DEF OnResponseHeaders
      <4>2. "held" \in {"held", "sent"}
        OBVIOUS
      <4>3. resp \in Half
        OBVIOUS
      <4>4. /\ Announce(resp, "held", e).hdr = "held"
            /\ Announce(resp, "held", e).in = resp.in
        BY <2>2, <4>2, <4>3, HalfFields
      <4>5. Announce(resp, "held", e).cont = resp.cont
        BY <2>2, <4>2, <4>3, ContField
      <4>6. Announce(resp, "held", e).buf = resp.buf
        BY <2>2, <4>2, <4>3, BufField
      <4> QED
        BY <4>1, <4>4, <4>5, <4>6
    <3>2. ~Pending("resp")
      BY <2>2 DEF OnResponseHeaders, ResponseInv
    <3> QED
      BY <2>0, <3>1, <3>2 DEF BufferInv
  <2>3. ASSUME NEW n \in 0..Batch, NEW e \in BOOLEAN, OnResponseBody(n, e) PROVE BufferInv'
    <3>1. n \in Nat
      BY BoundAssumption
    <3>2. ~resp.end /\ ~respBodyDone /\ ~Pending("resp")
      BY <2>0, <2>3 DEF OnResponseBody, MayDeliver, LiveRespBody, BufferInv
    <3>3. resp' = Deliver(resp, n, e) /\ wk' = Sending("respSend", n, e)
      BY <1>4, <2>3, <3>2 DEF OnResponseBody
    <3>4. /\ resp'.hdr = resp.hdr /\ resp'.cont = resp.cont
          /\ wk'.at = "respSend"
      BY <3>1, <3>3, HalfFields, ContField, WorkerFields
    <3> QED
      BY <2>0, <3>2, <3>4 DEF BufferInv
  <2>4. CASE ResponseBodyReturns
    <3>1. resp' = StopAndBuffer(resp)
      BY <1>4, <2>4 DEF ResponseBodyReturns
    <3>2. /\ resp'.hdr = resp.hdr /\ resp'.cont = resp.cont /\ resp'.buf = TRUE
          /\ resp'.end = resp.end
      BY <3>1, HalfFields, ContField, BufField
    <3> QED
      BY <2>0, <3>2 DEF BufferInv
  <2>5. CASE ResponseSendRefused
    BY <1>4, <2>0, <2>5 DEF ResponseSendRefused, LiveRespBody
  <2>6. CASE SendResponseChunk \/ SendRequestChunk
    BY <2>1, <2>6, WorkerFields DEF SendResponseChunk, SendRequestChunk
  <2>7. CASE RequestSendRefused \/ RequestBodyReturns
    BY <2>1, <2>7, WorkerFields DEF RequestSendRefused, RequestBodyReturns
  <2>8. ASSUME NEW n \in 0..Batch, NEW e \in BOOLEAN,
               OnRequestHeaders(e) \/ OnRequestBody(n, e)
        PROVE  BufferInv'
    <3>1. resp' = resp
      BY <2>8 DEF OnRequestHeaders, OnRequestBody
    <3>2. wk' = wk \/ (wk.at = "idle" /\ wk'.at = "reqSend")
      BY <2>8, WorkerFields DEF OnRequestHeaders, OnRequestBody, MayDeliver
    <3> QED
      BY <2>1, <3>1, <3>2
  <2>9. CASE OnStreamComplete
    BY <1>4, <2>9 DEF OnStreamComplete, BodyInv
  <2>10. CASE Cancel
    BY <2>1, <2>10 DEF Cancel, Sending
  <2>11. CASE Callback
    <3>1. PICK e \in BOOLEAN :
            \/ OnRequestHeaders(e) \/ OnResponseHeaders(e)
            \/ \E n \in 0..Batch : OnRequestBody(n, e) \/ OnResponseBody(n, e)
      BY <2>11, Zenon DEF Callback
    <3>2. 0 \in 0..Batch
      BY BoundAssumption
    <3> QED
      BY <2>2, <2>3, <2>8, <3>1, <3>2, Zenon
  <2> HIDE DEF StreamInv
  <2> QED
    BY <2>4, <2>5, <2>6, <2>7, <2>9, <2>10, <2>11 DEF WorkerStep
<1>5. ~cancelled' => cancelled' = cancelled
  <2>1. Cancel => cancelled'
    BY Zenon DEF Cancel
  <2>2. ~Cancel => cancelled' = cancelled
    BY DEF Callback, OnRequestHeaders, OnResponseHeaders, OnRequestBody, OnResponseBody,
       WorkerStep, SendRequestChunk, RequestSendRefused, RequestBodyReturns,
       SendResponseChunk, ResponseSendRefused, ResponseBodyReturns, OnStreamComplete
  <2> QED
    BY <2>1, <2>2
<1> QED
  BY <1>1, <1>3, <1>4, <1>5 DEF TimelyInv

LEMMA StreamInvCorrect ==
  /\ Init => StreamInv
  /\ StreamInv /\ [Next]_vars => StreamInv'
<1>1. Init => StreamInv
  BY InitTypeInv, InitBodyInv, InitRespBodyInv, InitSettledInv, InitResponseInv,
     InitTimelyInv DEF StreamInv
<1>2. ASSUME StreamInv, [Next]_vars PROVE TimelyInv'
  <2>1. CASE Terminated \/ UNCHANGED vars
    BY <1>2, <2>1 DEF Terminated, vars, envoyVars, StreamInv, TimelyInv, BufferInv,
       Fifo, Pending, In
  <2> QED
    BY <1>2, <2>1, GoroutineTimely, ClosureTimely, WorkerTimely DEF Next
<1> QED
  BY <1>1, <1>2, NextTypeInv, NextBodyInv, NextRespBodyInv, NextSettledInv,
     NextResponseInv DEF StreamInv, TypeInv

\* Header mutations are applied to headers that are still held, and ReplaceBody
\* to a response that is buffered from its first chunk to its last (filter.go
\* 491-513, 594-638).
THEOREM MutationsInTimeCorrect == Spec => MutationsInTime
<1> DEFINE InTime ==
      /\ (Ran("finish") /\ ~rw.responded /\ plan.body = "read") => req.hdr = "held"
      /\ (Ran("resp") /\ plan.mode = "buffer" /\ plan.resp = "read") =>
           /\ resp.hdr = "held" /\ resp.end
           /\ resp.in > 0 => resp.buf
<1>1. ASSUME StreamInv, [Next]_vars, NEW c, Ran(c)
      PROVE  wk.at = "idle" /\ ~cancelled /\ Pending(c)
  <2>1. /\ sched \in Seq(Closures) /\ sched # <<>> /\ Head(sched) = c
        /\ sched' = Tail(sched) /\ Distinct(sched)
    BY <1>1 DEF Ran, StreamInv, TypeInv, TypeOK, SettledInv
  <2>2. sched' # sched /\ \A d \in Closures : sched' # Append(sched, d)
    BY <2>1
  <2>3. ~(Goroutine \/ Callback \/ WorkerStep \/ Cancel \/ Terminated \/ UNCHANGED vars)
    <3>1. ~(Callback \/ WorkerStep \/ Cancel \/ Terminated \/ UNCHANGED vars)
      BY <2>2 DEF Callback, OnRequestHeaders, OnResponseHeaders, OnRequestBody,
         OnResponseBody, WorkerStep, SendRequestChunk, RequestSendRefused,
         RequestBodyReturns, SendResponseChunk, ResponseSendRefused,
         ResponseBodyReturns, OnStreamComplete, Cancel, Terminated, vars
    <3>2. ~Goroutine
      BY <2>2 DEF Goroutine, ReadRequest, LimitReached, RequestEOF, StopReading,
         SkipBody, SkipCloses, HandlerActs, ScheduleFinish, Recover, HeadersArrive,
         AwaitCancelled, ReadResponse, ResponseEOF, SkipResponseBody,
         SkipResponseCloses, ResponseHandlerActs, ScheduleResponse, Closures
    <3> QED
      BY <3>1, <3>2
  <2>4. wk.at = "idle"
    BY <1>1, <2>3 DEF Next, RunScheduled, FinishRequest, SendLocalResponse,
       RecoverRequest, FinishResponse, NextClosure
  <2>5. ~cancelled
    BY <1>1, <2>4 DEF StreamInv, BodyInv
  <2> QED
    BY <2>1, <2>4, <2>5, InTail DEF Pending
<1>2. ASSUME StreamInv, [Next]_vars PROVE InTime
  <2>1. req \in Half /\ resp \in Half /\ req.cont \in Nat /\ resp.cont \in Nat
    BY <1>2 DEF StreamInv, TypeInv, TypeOK, Half
  <2>2. ASSUME Ran("finish"), plan.body = "read" PROVE req.hdr = "held"
    <3>1. Pending("finish")
      BY <1>1, <1>2, <2>2
    <3>2. req.hdr # "sent"
      BY <1>2, <2>1, <2>2, <3>1 DEF StreamInv, TimelyInv, ResponseInv
    <3>3. pc # "none"
      BY <1>2, <3>1, OwedType DEF StreamInv, SettledInv, Counts, BeforeReturn
    <3>4. req.hdr # "idle"
      BY <1>2, <3>3 DEF StreamInv, BodyInv
    <3> QED
      BY <2>1, <3>2, <3>4 DEF Half
  <2>3. ASSUME Ran("resp"), plan.mode = "buffer", plan.resp = "read"
        PROVE  /\ resp.hdr = "held" /\ resp.end
               /\ resp.in > 0 => resp.buf
    <3>1. Pending("resp") /\ ~cancelled /\ wk.at = "idle"
      BY <1>1, <1>2, <2>3
    <3>2. BufferInv
      BY <1>2, <2>3, <3>1 DEF StreamInv, TimelyInv
    <3>3. resp.cont = 0
      BY <1>2, <2>1, <3>1, OwedType DEF StreamInv, SettledInv, Counts
    <3>4. resp.hdr # "idle"
      BY <1>2, <3>1 DEF StreamInv, ResponseInv
    <3> QED
      BY <2>1, <3>1, <3>2, <3>3, <3>4 DEF BufferInv, Half
  <2> QED
    BY <2>2, <2>3
<1>3. StreamInv /\ [Next]_vars => [InTime]_vars
  BY <1>2
<1> QED
  BY <1>3, StreamInvCorrect, PTL DEF Spec, MutationsInTime

-----------------------------------------------------------------------------
(***************************************************************************)
(* The rest of the chain sees one decision about a request.                *)
(***************************************************************************)

\* Handlers that hold the request until they have decided: they read the whole
\* body, or they never answer.
Holding == plan.body = "read" \/ plan.out = "forward"

AnswerInv == Holding /\ (rw.responded => plan.out = "send")

\* The plan is chosen at the start and never changed.
LEMMA PlanFixed == [Next]_vars => plan' = plan
  BY DEF Next, Callback, OnRequestHeaders, OnResponseHeaders, OnRequestBody,
     OnResponseBody, WorkerStep, SendRequestChunk, RequestSendRefused,
     RequestBodyReturns, SendResponseChunk, ResponseSendRefused,
     ResponseBodyReturns, OnStreamComplete, Cancel, RunScheduled, FinishRequest,
     SendLocalResponse, RecoverRequest, FinishResponse, NextClosure, Goroutine,
     ReadRequest, LimitReached, RequestEOF, StopReading, SkipBody, SkipCloses,
     HandlerActs, ScheduleFinish, Recover, HeadersArrive, AwaitCancelled,
     ReadResponse, ResponseEOF, SkipResponseBody, SkipResponseCloses,
     ResponseHandlerActs, ScheduleResponse, Terminated, vars

LEMMA NextAnswerInv == TypeOK /\ AnswerInv /\ [Next]_vars => AnswerInv'
<1> SUFFICES ASSUME TypeOK, AnswerInv, [Next]_vars PROVE AnswerInv'
  OBVIOUS
<1>1. plan' = plan
  BY PlanFixed
<1>2. rw'.responded => rw.responded \/ plan.out = "send"
  <2>1. CASE HandlerActs
    BY <2>1 DEF HandlerActs
  <2>2. CASE ResponseHandlerActs
    BY <2>2 DEF ResponseHandlerActs, TypeOK
  <2>3. CASE rw' = rw
    BY <2>3
  <2>4. HandlerActs \/ ResponseHandlerActs \/ rw' = rw
    BY DEF Next, Callback, OnRequestHeaders, OnResponseHeaders, OnRequestBody,
       OnResponseBody, WorkerStep, SendRequestChunk, RequestSendRefused,
       RequestBodyReturns, SendResponseChunk, ResponseSendRefused,
       ResponseBodyReturns, OnStreamComplete, Cancel, RunScheduled, FinishRequest,
       SendLocalResponse, RecoverRequest, FinishResponse, NextClosure, Goroutine,
       ReadRequest, LimitReached, RequestEOF, StopReading, SkipBody, SkipCloses,
       ScheduleFinish, Recover, HeadersArrive, AwaitCancelled,
       ReadResponse, ResponseEOF, SkipResponseBody, SkipResponseCloses,
       ScheduleResponse, Terminated, vars, goVars
  <2> QED
    BY <2>1, <2>2, <2>3, <2>4
<1> QED
  BY <1>1, <1>2 DEF AnswerInv, Holding

\* What the rest of the chain sees of a step is what it does to the two headers,
\* to local and to cancelled.
LEMMA OutsideView ==
  ASSUME TypeOK, TypeOK'
  PROVE  /\ UNCHANGED <<req.hdr, resp.hdr, local, cancelled>> =>
              UNCHANGED Contract!cvars
         /\ (/\ req.hdr # "idle" /\ req'.hdr = "sent" /\ ~cancelled
             /\ UNCHANGED <<resp.hdr, local, cancelled>>) =>
              Contract!Forward \/ UNCHANGED Contract!cvars
         /\ (/\ resp.hdr # "idle" /\ resp'.hdr = "sent" /\ ~cancelled
             /\ UNCHANGED <<req.hdr, local, cancelled>>) =>
              Contract!DeliverResponse \/ UNCHANGED Contract!cvars
<1>1. /\ req \in Half /\ resp \in Half /\ req' \in Half /\ resp' \in Half
      /\ local \in BOOLEAN /\ cancelled \in BOOLEAN
      /\ local' \in BOOLEAN /\ cancelled' \in BOOLEAN
  BY DEF TypeOK, Booleans
<1>2. ASSUME UNCHANGED <<req.hdr, resp.hdr, local, cancelled>>
      PROVE  UNCHANGED Contract!cvars
  BY <1>2 DEF Contract!cvars
<1>3. ASSUME req.hdr # "idle", req'.hdr = "sent", ~cancelled,
             UNCHANGED <<resp.hdr, local, cancelled>>
      PROVE  Contract!Forward \/ UNCHANGED Contract!cvars
  BY <1>1, <1>3 DEF Contract!cvars, Contract!Forward, Half
<1>4. ASSUME resp.hdr # "idle", resp'.hdr = "sent", ~cancelled,
             UNCHANGED <<req.hdr, local, cancelled>>
      PROVE  Contract!DeliverResponse \/ UNCHANGED Contract!cvars
  BY <1>1, <1>4 DEF Contract!cvars, Contract!DeliverResponse, Half
<1> QED
  BY <1>2, <1>3, <1>4

\* A filter whose handler decides before any of the request goes on keeps the
\* contract of StreamContract: the request is forwarded or answered, once and
\* for all, a response comes of a forwarded request only, and nothing happens
\* after the end of the stream (filter.go 115-346, 457-513).
THEOREM ContractCorrect == Spec /\ Holding => ImplementsContract
<1> DEFINE Inv == StreamInv /\ AnswerInv
           Step == Contract!Next \/ UNCHANGED Contract!cvars
<1>1. Init /\ Holding => Inv /\ Contract!Init
  <2>1. Init => StreamInv
    BY StreamInvCorrect
  <2>2. Init /\ Holding => AnswerInv
    BY DEF Init, AnswerInv
  <2>3. Init => Contract!Init
    BY DEF Init, Contract!Init, NoHalf
  <2> QED
    BY <2>1, <2>2, <2>3
<1>2. Inv /\ [Next]_vars => Inv'
  BY StreamInvCorrect, NextAnswerInv DEF StreamInv, TypeInv
<1>3. ASSUME Inv, [Next]_vars PROVE Step
  <2>0. /\ TypeOK /\ TypeOK' /\ BodyInv /\ RespBodyInv /\ SettledInv /\ ResponseInv
        /\ AnswerInv
    BY <1>2, <1>3 DEF StreamInv, TypeInv
  <2>1. req \in Half /\ resp \in Half /\ wk \in Worker
    BY <2>0 DEF TypeOK
  <2>2. wk.at \in {"idle", "reqSend", "respSend"} => ~cancelled
    BY <2>0 DEF BodyInv
  <2>3. wk.at = "reqSend" => req.hdr # "idle"
    BY <2>0 DEF BodyInv
  <2>4. wk.at = "respSend" => resp.hdr # "idle"
    BY <2>0 DEF RespBodyInv
  <2>5. CASE Goroutine \/ Terminated \/ UNCHANGED vars
    <3>1. UNCHANGED <<req, resp, local, cancelled>>
      BY <2>5 DEF Goroutine, ReadRequest, LimitReached, RequestEOF, StopReading,
         SkipBody, SkipCloses, HandlerActs, ScheduleFinish, Recover, HeadersArrive,
         AwaitCancelled, ReadResponse, ResponseEOF, SkipResponseBody,
         SkipResponseCloses, ResponseHandlerActs, ScheduleResponse, Terminated,
         vars, envoyVars
    <3> QED
      BY <2>0, <3>1, OutsideView
  <2>6. CASE SendRequestChunk \/ SendResponseChunk \/ OnStreamComplete
    <3>1. UNCHANGED <<req, resp, local, cancelled>>
      BY <2>6 DEF SendRequestChunk, SendResponseChunk, OnStreamComplete, envoyVars
    <3> QED
      BY <2>0, <3>1, OutsideView
  <2>7. CASE RequestSendRefused \/ RequestBodyReturns
    <3>1. /\ req'.hdr \in {"sent", req.hdr} /\ wk.at = "reqSend"
          /\ UNCHANGED <<resp, local, cancelled>>
      BY <2>1, <2>7, HalfFields DEF RequestSendRefused, RequestBodyReturns
    <3> QED
      BY <2>0, <2>2, <2>3, <3>1, OutsideView DEF Contract!Next
  <2>8. CASE ResponseSendRefused \/ ResponseBodyReturns
    <3>1. /\ resp'.hdr \in {"sent", resp.hdr} /\ wk.at = "respSend"
          /\ UNCHANGED <<req, local, cancelled>>
      BY <2>1, <2>8, HalfFields DEF ResponseSendRefused, ResponseBodyReturns
    <3> QED
      BY <2>0, <2>2, <2>4, <3>1, OutsideView DEF Contract!Next
  <2>9. ASSUME NEW e \in BOOLEAN, OnRequestHeaders(e) PROVE Step
    <3>1. /\ req.hdr = "idle" /\ req'.hdr = "held"
          /\ UNCHANGED <<resp, local, cancelled>>
      BY <2>1, <2>9, HalfFields DEF OnRequestHeaders
    <3>2. ~cancelled /\ ~local
      BY <2>0, <3>1 DEF BodyInv, SettledInv, Exclusive, BeforeReturn
    <3>3. Contract!RequestArrives
      BY <2>0, <3>1, <3>2 DEF Contract!RequestArrives, TypeOK, Booleans
    <3> QED
      BY <3>3 DEF Contract!Next
  <2>10. ASSUME NEW n \in 0..Batch, NEW e \in BOOLEAN, OnRequestBody(n, e) PROVE Step
    <3>1. /\ req'.hdr \in {"sent", req.hdr} /\ wk.at = "idle" /\ req.hdr # "idle"
          /\ UNCHANGED <<resp, local, cancelled>>
      <4>0. n \in Nat
        BY BoundAssumption
      <4>1. Deliver(req, n, e) \in Half /\ Deliver(req, n, e).hdr = req.hdr
        BY <2>1, <4>0, HalfOps, HalfFields
      <4>2. Continue(Deliver(req, n, e)).hdr = "sent"
        BY <4>1, HalfFields
      <4> QED
        BY <2>10, <4>1, <4>2 DEF OnRequestBody, MayDeliver
    <3> QED
      BY <2>0, <2>2, <3>1, OutsideView DEF Contract!Next
  <2>11. ASSUME NEW n \in 0..Batch, NEW e \in BOOLEAN, OnResponseBody(n, e) PROVE Step
    <3>1. /\ resp'.hdr \in {"sent", resp.hdr} /\ wk.at = "idle" /\ resp.hdr # "idle"
          /\ UNCHANGED <<req, local, cancelled>>
      <4>0. n \in Nat
        BY BoundAssumption
      <4>1. Deliver(resp, n, e) \in Half /\ Deliver(resp, n, e).hdr = resp.hdr
        BY <2>1, <4>0, HalfOps, HalfFields
      <4>2. Continue(Deliver(resp, n, e)).hdr = "sent"
        BY <4>1, HalfFields
      <4> QED
        BY <2>11, <4>1, <4>2 DEF OnResponseBody, MayDeliver
    <3> QED
      BY <2>0, <2>2, <3>1, OutsideView DEF Contract!Next
  <2>12. ASSUME NEW e \in BOOLEAN, OnResponseHeaders(e) PROVE Step
    <3>1. /\ resp.hdr = "idle" /\ resp'.hdr \in {"held", "sent"}
          /\ req.hdr = "sent" /\ ~local /\ wk.at = "idle"
          /\ UNCHANGED <<req, local, cancelled>>
      BY <2>1, <2>12, HalfFields DEF OnResponseHeaders
    <3>2. Contract!ResponseArrives
      BY <2>0, <2>2, <3>1 DEF Contract!ResponseArrives, TypeOK, Booleans
    <3> QED
      BY <3>2 DEF Contract!Next
  <2>13. CASE Cancel
    <3>1. /\ req.hdr # "idle" /\ wk.at = "idle" /\ cancelled' = TRUE
          /\ UNCHANGED <<req, resp, local>>
      BY <2>13 DEF Cancel, envoyVars
    <3>2. Contract!End
      BY <2>0, <2>1, <2>2, <3>1 DEF Contract!End, TypeOK, Booleans, Half
    <3> QED
      BY <3>2 DEF Contract!Next
  <2>14. ASSUME NEW c \in Closures, NextClosure(c)
         PROVE  /\ wk.at = "idle" /\ cancelled' = cancelled /\ Pending(c)
                /\ pc # "none" /\ (c = "resp" => resp.hdr # "idle")
                /\ c \in {"finish", "recover", "local"} => req.hdr # "idle"
    <3>1. sched \in Seq(Closures) /\ sched # <<>> /\ Head(sched) = c
      BY <2>0, <2>14 DEF NextClosure, TypeOK
    <3>2. Pending(c)
      BY <3>1 DEF Pending, In
    <3>3. pc # "none"
      BY <2>0, <3>2, OwedType DEF SettledInv, Exclusive, Counts, BeforeReturn, Closures
    <3> QED
      BY <2>0, <2>14, <3>2, <3>3 DEF NextClosure, ResponseInv, BodyInv
  <2>15. CASE FinishRequest \/ RecoverRequest
    <3>1. /\ req'.hdr \in {"sent", req.hdr} /\ UNCHANGED <<resp, local, cancelled>>
          /\ wk.at = "idle" /\ req.hdr # "idle"
      BY <2>1, <2>14, <2>15, HalfFields DEF FinishRequest, RecoverRequest, Closures
    <3> QED
      BY <2>0, <2>2, <3>1, OutsideView DEF Contract!Next
  <2>16. CASE FinishResponse
    <3>1. /\ resp'.hdr = "sent" /\ UNCHANGED <<req, local, cancelled>>
          /\ wk.at = "idle" /\ resp.hdr # "idle"
      BY <2>1, <2>14, <2>16, HalfFields DEF FinishResponse, Closures
    <3> QED
      BY <2>0, <2>2, <3>1, OutsideView DEF Contract!Next
  <2>17. CASE SendLocalResponse
    <3>1. /\ Pending("local") /\ req.hdr # "idle" /\ wk.at = "idle" /\ local' = TRUE
          /\ UNCHANGED <<req, resp, cancelled>>
      BY <2>14, <2>17 DEF SendLocalResponse, Closures
    <3>2. rw.responded
      BY <2>0, <3>1, OwedType DEF SettledInv, Exclusive
    <3>3. plan.body = "read"
      BY <2>0, <3>2 DEF AnswerInv, Holding
    <3>4. req.hdr = "held"
      <4>1. req.cont = 0
        BY <2>0, <3>2 DEF SettledInv, Exclusive
      <4> QED
        BY <2>0, <2>1, <3>1, <3>3, <4>1 DEF ResponseInv, Half
    <3>5. Contract!Answer \/ UNCHANGED Contract!cvars
      BY <2>0, <2>2, <3>1, <3>4 DEF Contract!Answer, Contract!cvars, TypeOK, Booleans
    <3> QED
      BY <3>5 DEF Contract!Next
  <2>18. CASE Callback
    <3>1. PICK e \in BOOLEAN :
            \/ OnRequestHeaders(e) \/ OnResponseHeaders(e)
            \/ \E n \in 0..Batch : OnRequestBody(n, e) \/ OnResponseBody(n, e)
      BY <2>18, Zenon DEF Callback
    <3> QED
      BY <2>9, <2>10, <2>11, <2>12, <3>1, Zenon
  <2> HIDE DEF Step, Inv
  <2> QED
    BY <1>3, <2>5, <2>6, <2>7, <2>8, <2>13, <2>15, <2>16, <2>17, <2>18
       DEF Next, WorkerStep, RunScheduled
<1>4. Inv /\ [Next]_vars => [Contract!Next]_(Contract!cvars)
  BY <1>3
<1> QED
  BY <1>1, <1>2, <1>4, PTL DEF Spec, ImplementsContract, Contract!Spec
-----------------------------------------------------------------------------
(***************************************************************************)
(* Nothing is left held.                                                   *)
(***************************************************************************)

\* Handlers that leave nothing unread that somebody holds: a request handler
\* that reads to the end, skips or limits the body; a Buffer mode response
\* handler that reads or skips it; and no panic that leaves a held response
\* without its handler.
Attentive ==
  /\ plan.body # "partial"
  /\ plan.mode = "buffer" => plan.resp # "partial"
  /\ plan.panic # "no" => plan.resp = "none" \/ plan.mode = "observe"

\* Places at which the request body may still be the handler's to read.
BodyOpen == {"none", "read", "limit", "partial", "skip"}
Flagged == bodyDone \/ bodySkip \/ headDone

\* Once the handler has done with the body, callbacks let it pass; once it has
\* returned, a closure resumes the request or has done so, and nothing is held
\* after that.
RequestLeaves ==
  /\ plan.body # "partial" => pc # "partial"
  /\ reqPipe.closed \/ pc \notin BodyOpen => Flagged
  /\ pc \notin BeforeReturn \cup {"finish", "panicked"} /\ ~rw.responded =>
       req.cont > 0 \/ Pending("finish") \/ Pending("recover")
  /\ rw.responded => local \/ Pending("local")
  /\ req.cont > 0 => req.hdr = "sent" /\ ~req.buf /\ wk.at # "reqSend"

\* The same of a response which some ResponseFunc holds, in either mode.
Held == plan.resp # "none" /\ plan.mode # "observe"
Buffers == plan.resp # "none" /\ plan.mode = "buffer"
ResponseLeaves ==
  /\ pc = "await" => plan.resp # "none"
  /\ pc = "respPartial" => plan.resp = "partial"
  /\ ~Held => resp.hdr # "held"
  /\ ~Buffers => ~resp.buf
  /\ wk.at = "respSend" => plan.resp # "none" /\ plan.mode # "passthrough"
  /\ respPipe.closed \/ pc = "respSkipClose" => respBodyDone
  /\ Buffers /\ (\/ pc \in {"respAct", "respFinish"}
                 \/ resp.cont > 0 \/ Pending("resp")) => respBodyDone
  /\ Held /\ pc = "done" /\ ~rw.responded /\ ~cancelled =>
       resp.cont > 0 \/ Pending("resp")
  /\ resp.cont > 0 => /\ resp.hdr = "sent" /\ ~resp.buf
                      /\ Buffers => wk.at # "respSend"

LeavesInv == Attentive /\ RequestLeaves /\ ResponseLeaves

LEMMA InitLeavesInv == Init /\ Attentive => LeavesInv
<1> SUFFICES ASSUME Init, Attentive PROVE LeavesInv
  OBVIOUS
<1>1. RequestLeaves
  BY PlansAssumption DEF Init, RequestLeaves, BodyOpen, BeforeReturn, NoHalf
<1>2. ResponseLeaves
  BY DEF Init, ResponseLeaves, NoHalf, Idle, Pending, In
<1> QED
  BY <1>1, <1>2 DEF LeavesInv

\* What the goroutine does to its queue.
LEMMA GoroutineSchedules ==
  ASSUME TypeOK, Goroutine
  PROVE  /\ \A c : Pending(c) => Pending(c)'
         /\ pc = "finish" => Pending("finish")' \/ pc' = "finish"
         /\ pc = "respFinish" => Pending("resp")'
         /\ pc = "panicked" => Pending("recover")'
         /\ pc = "act" /\ rw'.responded => Pending("local")'
<1>1. \A c \in Closures : \A d : In(Append(sched, c), d) <=> In(sched, d) \/ d = c
  BY InAppend DEF TypeOK
<1>2. sched' = sched \/ \E c \in Closures : sched' = Append(sched, c)
  BY DEF Goroutine, ReadRequest, LimitReached, RequestEOF, StopReading,
     SkipBody, SkipCloses, HandlerActs, ScheduleFinish, Recover, HeadersArrive,
     AwaitCancelled, ReadResponse, ResponseEOF, SkipResponseBody,
     SkipResponseCloses, ResponseHandlerActs, ScheduleResponse, Closures
<1>3. \A c : Pending(c) => Pending(c)'
  BY <1>1, <1>2 DEF Pending, In
<1>4. /\ pc = "finish" => sched' = Append(sched, "finish")
      /\ pc = "respFinish" => sched' = Append(sched, "resp")
      /\ pc = "panicked" => sched' = Append(sched, "recover")
  BY DEF Goroutine, ReadRequest, LimitReached, RequestEOF, StopReading,
     SkipBody, SkipCloses, HandlerActs, ScheduleFinish, Recover, HeadersArrive,
     AwaitCancelled, ReadResponse, ResponseEOF, SkipResponseBody,
     SkipResponseCloses, ResponseHandlerActs, ScheduleResponse, ReadingReq,
     ReadingResp
<1>5. ASSUME pc = "act", rw'.responded PROVE sched' = Append(sched, "local")
  <2>1. HandlerActs
    BY <1>5 DEF Goroutine, ReadRequest, LimitReached, RequestEOF, StopReading,
       SkipBody, SkipCloses, ScheduleFinish, Recover, HeadersArrive,
       AwaitCancelled, ReadResponse, ResponseEOF, SkipResponseBody,
       SkipResponseCloses, ResponseHandlerActs, ScheduleResponse, ReadingReq,
       ReadingResp
  <2>2. plan.out = "send"
    BY <1>5, <2>1, Zenon DEF HandlerActs
  <2> QED
    BY <2>1, <2>2 DEF HandlerActs
<1>6. \A c \in Closures : sched' = Append(sched, c) => In(sched', c)
  BY <1>1
<1> QED
  BY <1>3, <1>4, <1>5, <1>6 DEF Pending, In, Closures

LEMMA GoroutineLeaves ==
  ASSUME TypeOK, SettledInv, LeavesInv, Goroutine
  PROVE  LeavesInv'
<1>1. UNCHANGED <<plan, req, resp, cancelled, wk, local>>
  BY DEF Goroutine, ReadRequest, LimitReached, RequestEOF, StopReading,
     SkipBody, SkipCloses, HandlerActs, ScheduleFinish, Recover, HeadersArrive,
     AwaitCancelled, ReadResponse, ResponseEOF, SkipResponseBody,
     SkipResponseCloses, ResponseHandlerActs, ScheduleResponse, envoyVars
<1>2. Attentive'
  BY <1>1 DEF LeavesInv, Attentive
<1>3. RequestLeaves'
  <2>1. plan.body # "partial" => pc' # "partial"
    BY DEF LeavesInv, RequestLeaves, Goroutine, ReadRequest, LimitReached,
       RequestEOF, StopReading, SkipBody, SkipCloses, HandlerActs,
       ScheduleFinish, Recover, HeadersArrive, AwaitCancelled, ReadResponse,
       ResponseEOF, SkipResponseBody, SkipResponseCloses, ResponseHandlerActs,
       ScheduleResponse
  <2>2. Flagged => Flagged'
    BY Zenon DEF Flagged, Goroutine, ReadRequest, LimitReached, RequestEOF,
       StopReading, SkipBody, SkipCloses, HandlerActs, ScheduleFinish, Recover,
       HeadersArrive, AwaitCancelled, ReadResponse, ResponseEOF,
       SkipResponseBody, SkipResponseCloses, ResponseHandlerActs,
       ScheduleResponse, flagVars
  <2>3. (reqPipe.closed \/ pc \notin BodyOpen)' => Flagged'
    <3>1. CASE ReadRequest
      <4>1. reqPipe'.closed = reqPipe.closed
        BY <3>1, PipeFields DEF ReadRequest, TypeOK
      <4>2. pc' = pc \/ (pc' = "limitClose" /\ headDone')
        BY <3>1 DEF ReadRequest
      <4> QED
        BY <2>2, <4>1, <4>2 DEF Flagged, LeavesInv, RequestLeaves
    <3>2. CASE SkipBody
      BY <3>2 DEF SkipBody, Flagged
    <3>3. CASE ~ReadRequest /\ ~SkipBody
      <4>1. reqPipe.closed \/ pc \notin BodyOpen \/ ~(reqPipe.closed \/ pc \notin BodyOpen)'
        BY <3>3 DEF Goroutine, ReadRequest, LimitReached, RequestEOF,
           StopReading, SkipBody, SkipCloses, HandlerActs, ScheduleFinish,
           Recover, HeadersArrive, AwaitCancelled, ReadResponse, ResponseEOF,
           SkipResponseBody, SkipResponseCloses, ResponseHandlerActs,
           ScheduleResponse, AtEOF, pipeVars, BodyOpen, LeavesInv, Attentive,
           RequestLeaves, ReadingReq, ReadingResp
      <4> QED
        BY <2>2, <4>1 DEF LeavesInv, RequestLeaves
    <3> QED
      BY <3>1, <3>2, <3>3
  <2>4. ASSUME (pc \notin BeforeReturn \cup {"finish", "panicked"})', ~rw'.responded
        PROVE  (req.cont > 0 \/ Pending("finish") \/ Pending("recover"))'
    <3>1. \/ pc \in {"finish", "panicked"}
          \/ pc \notin BeforeReturn \cup {"finish", "panicked"} /\ ~rw.responded
      BY <2>4 DEF Goroutine, ReadRequest, LimitReached, RequestEOF, StopReading,
         SkipBody, SkipCloses, HandlerActs, ScheduleFinish, Recover,
         HeadersArrive, AwaitCancelled, ReadResponse, ResponseEOF,
         SkipResponseBody, SkipResponseCloses, ResponseHandlerActs,
         ScheduleResponse, BeforeReturn, ReadingReq, ReadingResp, TypeOK
    <3> QED
      BY <1>1, <2>4, <3>1, GoroutineSchedules DEF LeavesInv, RequestLeaves
  <2>5. rw'.responded => (local \/ Pending("local"))'
    <3>1. rw'.responded => rw.responded \/ pc = "act"
      BY DEF Goroutine, ReadRequest, LimitReached, RequestEOF, StopReading,
         SkipBody, SkipCloses, HandlerActs, ScheduleFinish, Recover,
         HeadersArrive, AwaitCancelled, ReadResponse, ResponseEOF,
         SkipResponseBody, SkipResponseCloses, ResponseHandlerActs,
         ScheduleResponse, TypeOK
    <3> QED
      BY <1>1, <3>1, GoroutineSchedules DEF LeavesInv, RequestLeaves
  <2> QED
    BY <1>1, <2>1, <2>3, <2>4, <2>5 DEF LeavesInv, RequestLeaves
<1>4. ResponseLeaves'
  <2>0. (Held' <=> Held) /\ (Buffers' <=> Buffers)
    BY <1>1 DEF Held, Buffers
  <2>1. (pc = "await")' => plan.resp # "none"
    BY DEF LeavesInv, ResponseLeaves, Goroutine, ReadRequest, LimitReached,
       RequestEOF, StopReading, SkipBody, SkipCloses, HandlerActs,
       ScheduleFinish, Recover, HeadersArrive, AwaitCancelled, ReadResponse,
       ResponseEOF, SkipResponseBody, SkipResponseCloses, ResponseHandlerActs,
       ScheduleResponse
  <2>2. (pc = "respPartial")' => plan.resp = "partial"
    BY PlansAssumption DEF LeavesInv, ResponseLeaves, TypeOK, Plan, Goroutine,
       ReadRequest, LimitReached, RequestEOF, StopReading, SkipBody, SkipCloses,
       HandlerActs, ScheduleFinish, Recover, HeadersArrive, AwaitCancelled,
       ReadResponse, ResponseEOF, SkipResponseBody, SkipResponseCloses,
       ResponseHandlerActs, ScheduleResponse
  <2>3. respBodyDone => respBodyDone'
    BY DEF Goroutine, ReadRequest, LimitReached, RequestEOF, StopReading,
       SkipBody, SkipCloses, HandlerActs, ScheduleFinish, Recover,
       HeadersArrive, AwaitCancelled, ReadResponse, ResponseEOF,
       SkipResponseBody, SkipResponseCloses, ResponseHandlerActs,
       ScheduleResponse, flagVars
  <2>4. (respPipe.closed \/ pc = "respSkipClose")' => respBodyDone'
    <3>1. CASE ReadResponse
      <4>1. respPipe'.closed = respPipe.closed /\ pc' = pc
        BY <3>1, PipeFields DEF ReadResponse, TypeOK
      <4> QED
        BY <2>3, <4>1 DEF LeavesInv, ResponseLeaves
    <3>2. CASE SkipResponseBody
      BY <3>2 DEF SkipResponseBody
    <3>3. CASE ~ReadResponse /\ ~SkipResponseBody
      <4>1. respPipe.closed \/ pc = "respSkipClose"
              \/ ~(respPipe.closed \/ pc = "respSkipClose")'
        BY <3>3 DEF Goroutine, ReadRequest, LimitReached, RequestEOF,
           StopReading, SkipBody, SkipCloses, HandlerActs, ScheduleFinish,
           Recover, HeadersArrive, AwaitCancelled, ReadResponse, ResponseEOF,
           SkipResponseBody, SkipResponseCloses, ResponseHandlerActs,
           ScheduleResponse, pipeVars
      <4> QED
        BY <2>3, <4>1 DEF LeavesInv, ResponseLeaves
    <3> QED
      BY <3>1, <3>2, <3>3
  <2>5. ASSUME Buffers,
               (pc \in {"respAct", "respFinish"} \/ resp.cont > 0 \/ Pending("resp"))'
        PROVE  respBodyDone'
    <3>1. Pending("resp")' => Pending("resp") \/ pc = "respFinish"
      BY RespScheduled
    <3>2. CASE SkipResponseBody
      BY <3>2 DEF SkipResponseBody
    <3>3. CASE pc \in {"respAct", "respFinish"} \/ resp.cont > 0 \/ Pending("resp")
      BY <2>3, <2>5, <3>3 DEF LeavesInv, ResponseLeaves
    <3>4. CASE (pc \in {"respAct", "respFinish"})' /\
               pc \notin {"respAct", "respFinish"}
      <4>1. \/ SkipResponseBody \/ pc = "respSkipClose" \/ pc = "respPartial"
            \/ plan.mode = "passthrough" \/ respPipe.closed
        BY <3>4 DEF Goroutine, ReadRequest, LimitReached, RequestEOF,
           StopReading, SkipBody, SkipCloses, HandlerActs, ScheduleFinish,
           Recover, HeadersArrive, AwaitCancelled, ReadResponse, ResponseEOF,
           SkipResponseBody, SkipResponseCloses, ResponseHandlerActs,
           ScheduleResponse, AtEOF
      <4>2. pc # "respPartial" /\ plan.mode # "passthrough"
        BY <2>5 DEF Buffers, LeavesInv, Attentive, ResponseLeaves
      <4> QED
        BY <2>3, <3>2, <4>1, <4>2 DEF LeavesInv, ResponseLeaves
    <3> QED
      BY <1>1, <2>5, <3>1, <3>3, <3>4
  <2>6. ASSUME Held, (pc = "done")', ~rw'.responded, ~cancelled
        PROVE  (resp.cont > 0 \/ Pending("resp"))'
    <3>1. pc # "panicked"
      BY <2>6 DEF Held, LeavesInv, Attentive, SettledInv, Counts
    <3>2. ~rw.responded /\ pc \in {"done", "respFinish"}
      BY <2>6, <3>1 DEF Held, Goroutine, ReadRequest, LimitReached, RequestEOF,
         StopReading, SkipBody, SkipCloses, HandlerActs, ScheduleFinish,
         Recover, HeadersArrive, AwaitCancelled, ReadResponse, ResponseEOF,
         SkipResponseBody, SkipResponseCloses, ResponseHandlerActs,
         ScheduleResponse
    <3> QED
      BY <1>1, <2>6, <3>2, GoroutineSchedules DEF LeavesInv, ResponseLeaves
  <2> HIDE DEF Held, Buffers
  <2> QED
    BY <1>1, <2>0, <2>1, <2>2, <2>4, <2>5, <2>6 DEF LeavesInv, ResponseLeaves
<1> QED
  BY <1>2, <1>3, <1>4 DEF LeavesInv

\* Resuming a half lets all of it go.
LEMMA ResumeLeaves ==
  ASSUME NEW h \in Half
  PROVE  /\ Resume(h).hdr = "sent" /\ ~Resume(h).buf /\ Resume(h).cont > 0
         /\ Continue(h).hdr = "sent" /\ ~Continue(h).buf
         /\ \A n \in Nat, e \in BOOLEAN :
              /\ Continue(Deliver(h, n, e)).hdr = "sent"
              /\ ~Continue(Deliver(h, n, e)).buf
              /\ Continue(Deliver(h, n, e)).cont = h.cont
              /\ Deliver(h, n, e).hdr = h.hdr /\ Deliver(h, n, e).cont = h.cont
              /\ Deliver(h, n, e).buf = h.buf
<1>1. \A g \in Half : /\ Continue(g).hdr = "sent" /\ ~Continue(g).buf
                      /\ Continue(g).cont = g.cont
  BY DEF Half, Continue
<1>2. /\ Resume(h).hdr = "sent" /\ ~Resume(h).buf /\ Resume(h).cont = h.cont + 1
      /\ h.cont \in Nat
  BY DEF Half, Continue, Resume
<1>3. ASSUME NEW n \in Nat, NEW e \in BOOLEAN
      PROVE  /\ Deliver(h, n, e).hdr = h.hdr /\ Deliver(h, n, e).cont = h.cont
             /\ Deliver(h, n, e).buf = h.buf /\ Deliver(h, n, e) \in Half
  BY HalfOps DEF Half, Deliver
<1> QED
  BY <1>1, <1>2, <1>3

LEMMA ClosureLeaves ==
  ASSUME TypeOK, SettledInv, LeavesInv, RunScheduled
  PROVE  LeavesInv'
<1> DEFINE c == Head(sched)
<1>1. /\ sched # <<>> /\ sched' = Tail(sched) /\ sched \in Seq(Closures)
      /\ UNCHANGED <<plan, cancelled, wk, bodyDone, bodySkip, headDone,
                    respBodyDone,
                     reqPipe, respPipe, pc, rw>>
      /\ wk.at = "idle"
  BY DEF RunScheduled, FinishRequest, SendLocalResponse, RecoverRequest,
     FinishResponse, NextClosure, TypeOK, flagVars, pipeVars, goVars
<1>2. \A d : d # c => (In(sched', d) <=> In(sched, d))
  BY <1>1, InTail DEF SettledInv
<1>3. /\ c \in {"finish", "recover"} /\ ~rw.responded => req' = Resume(req)
      /\ req' = req \/ req' = Resume(req)
      /\ c = "resp" => resp' = Resume(resp) /\ Pending("resp")
      /\ c # "resp" => resp' = resp
      /\ c = "local" => local'
      /\ local => local'
      /\ req \in Half /\ resp \in Half
  <2>1. In(sched, c)
    BY <1>1, InTail DEF SettledInv
  <2>2. c = "resp" => Pending("resp")
    BY <2>1 DEF Pending
  <2> QED
    BY <2>2 DEF RunScheduled, FinishRequest, SendLocalResponse, RecoverRequest,
       FinishResponse, NextClosure, TypeOK
<1> HIDE DEF c
<1>4. \A d : d # c => (Pending(d)' <=> Pending(d))
  BY <1>2 DEF Pending, In
<1>5. RequestLeaves'
  <2>1. (Flagged' <=> Flagged) /\ UNCHANGED <<plan, pc, reqPipe, wk, rw>>
    BY <1>1 DEF Flagged
  <2>2. ASSUME pc \notin BeforeReturn \cup {"finish", "panicked"}, ~rw.responded
        PROVE  (req.cont > 0 \/ Pending("finish") \/ Pending("recover"))'
    <3>1. CASE c \in {"finish", "recover"}
      BY <1>3, <2>2, <3>1, ResumeLeaves
    <3>2. CASE c \notin {"finish", "recover"}
      <4>1. req.cont > 0 => req'.cont > 0
        BY <1>3, ResumeLeaves
      <4> QED
        BY <1>4, <2>2, <3>2, <4>1 DEF LeavesInv, RequestLeaves
    <3> QED
      BY <3>1, <3>2
  <2>3. ASSUME rw.responded PROVE (local \/ Pending("local"))'
    BY <1>3, <1>4, <2>3, Zenon DEF LeavesInv, RequestLeaves
  <2>4. req'.cont > 0 => req'.hdr = "sent" /\ ~req'.buf
    BY <1>3, ResumeLeaves DEF LeavesInv, RequestLeaves
  <2> QED
    BY <1>1, <2>1, <2>2, <2>3, <2>4 DEF LeavesInv, RequestLeaves
<1>6. ResponseLeaves'
  <2>1. (Held' <=> Held) /\ (Buffers' <=> Buffers)
        /\ UNCHANGED <<plan, pc, respPipe, respBodyDone, wk, rw, cancelled>>
    BY <1>1 DEF Held, Buffers
  <2>2. CASE c = "resp"
    <3>1. /\ resp'.hdr = "sent" /\ ~resp'.buf /\ resp'.cont > 0 /\ Pending("resp")
      BY <1>3, <2>2, ResumeLeaves
    <3> QED
      BY <1>1, <2>1, <3>1 DEF LeavesInv, ResponseLeaves
  <2>3. CASE c # "resp"
    <3>1. resp' = resp /\ (Pending("resp")' <=> Pending("resp"))
      BY <1>3, <1>4, <2>3
    <3> QED
      BY <2>1, <3>1 DEF LeavesInv, ResponseLeaves
  <2> QED
    BY <2>2, <2>3
<1>7. Attentive'
  BY <1>1 DEF LeavesInv, Attentive
<1> QED
  BY <1>5, <1>6, <1>7 DEF LeavesInv

\* A callback that finds the handler done with the body lets it pass; one that
\* began before is over before the closure runs.
LEMMA WorkerLeavesRequest ==
  ASSUME TypeOK, BodyInv, SettledInv, LeavesInv, Callback \/ WorkerStep \/ Cancel
  PROVE  RequestLeaves'
<1>0. /\ req \in Half /\ wk \in Worker /\ reqPipe \in Pipe
      /\ UNCHANGED <<plan, sched, rw, local>>
      /\ \A d : Pending(d)' <=> Pending(d)
  <2>1. UNCHANGED <<plan, sched, rw, local>>
    BY DEF Callback, OnRequestHeaders, OnResponseHeaders, OnRequestBody,
       OnResponseBody, WorkerStep, SendRequestChunk, RequestSendRefused,
       RequestBodyReturns, SendResponseChunk, ResponseSendRefused,
       ResponseBodyReturns, OnStreamComplete, Cancel, envoyVars, goVars
  <2> QED
    BY <2>1 DEF TypeOK, Pending, In
\* Steps after which only what a callback does to the request matters.
<1>1. ASSUME pc' = pc, req'.cont = req.cont,
             reqPipe'.closed \/ Flagged => reqPipe.closed \/ Flagged',
             Flagged => Flagged',
             reqPipe'.closed => reqPipe.closed \/ Flagged',
             req.cont > 0 => req'.hdr = "sent" /\ ~req'.buf /\ wk'.at # "reqSend"
      PROVE  RequestLeaves'
  BY <1>0, <1>1 DEF LeavesInv, RequestLeaves
<1>2. ASSUME UNCHANGED <<pc, req, reqPipe, bodyDone, bodySkip, headDone>>,
             wk'.at = "reqSend" => wk.at = "reqSend"
      PROVE  RequestLeaves'
  BY <1>1, <1>2 DEF Flagged, LeavesInv, RequestLeaves
<1>3. wk.at = "reqSend" => ~(req.cont > 0)
  BY DEF LeavesInv, RequestLeaves
<1>4. ASSUME NEW e \in BOOLEAN, OnRequestHeaders(e) PROVE RequestLeaves'
  <2>1. pc = "none" /\ ~reqPipe.closed
    BY <1>4 DEF OnRequestHeaders, BodyInv
  <2>2. req.cont = 0 /\ ~rw.responded
    BY <2>1 DEF SettledInv, Exclusive, Counts, BeforeReturn
  <2>3. req'.cont = 0 /\ pc' = plan.body /\ plan.body \in BodyOpen \cap BeforeReturn
    BY <1>0, <1>4, <2>2, ContField, PlansAssumption DEF OnRequestHeaders,
       BodyOpen, BeforeReturn, ReadingReq, TypeOK, Plan
  <2>4. reqPipe'.closed => Flagged'
    BY <1>4, <2>1 DEF OnRequestHeaders, Flagged
  <2> QED
    BY <1>0, <2>2, <2>3, <2>4 DEF RequestLeaves
<1>5. ASSUME NEW n \in 0..Batch, NEW e \in BOOLEAN, OnRequestBody(n, e)
      PROVE  RequestLeaves'
  <2>0. n \in Nat
    BY BoundAssumption
  <2>1. UNCHANGED <<pc, reqPipe>> /\ (Flagged => Flagged') /\ wk.at = "idle"
    BY <1>5, Zenon DEF OnRequestBody, MayDeliver, Flagged, goVars, pipeVars
  <2>2. CASE req' = Continue(Deliver(req, n, e)) /\ wk' = wk
    BY <1>0, <1>1, <2>0, <2>1, <2>2, ResumeLeaves
  <2>3. CASE req' = Deliver(req, n, e) /\ ~Flagged
    <3>1. req.cont = 0
      BY <2>3 DEF LeavesInv, RequestLeaves, SettledInv, Counts, BodyOpen,
         BeforeReturn, ReadingReq
    <3> QED
      BY <1>0, <1>1, <2>0, <2>1, <2>3, <3>1, ResumeLeaves
  <2> QED
    BY <1>5, <2>2, <2>3 DEF OnRequestBody, Flagged
<1>6. CASE SendRequestChunk
  <2>1. /\ reqPipe'.closed = reqPipe.closed /\ wk.at = "reqSend"
        /\ UNCHANGED <<pc, req, bodyDone, bodySkip, headDone>>
    BY <1>0, <1>6, PipeFields DEF SendRequestChunk, envoyVars, flagVars, goVars
  <2> QED
    BY <1>1, <1>3, <2>1 DEF Flagged
<1>7. CASE RequestSendRefused
  <2>1. /\ req' = Continue(req) /\ wk.at = "reqSend" /\ wk' = Idle
        /\ UNCHANGED <<pc, reqPipe, bodyDone, bodySkip, headDone>>
    BY <1>7 DEF RequestSendRefused, flagVars, pipeVars, goVars
  <2> QED
    BY <1>0, <1>1, <1>3, <2>1, ContField DEF Flagged
<1>8. CASE RequestBodyReturns
  <2>1. /\ req' = StopAndBuffer(req) /\ wk.at = "reqSend" /\ pc' = pc
    BY <1>8 DEF RequestBodyReturns, goVars
  <2>2. Flagged => Flagged'
    BY <1>8, Zenon DEF RequestBodyReturns, Flagged
  <2>3. reqPipe'.closed => reqPipe.closed \/ Flagged'
    <3>1. wk.end => bodyDone'
      BY <1>8, Zenon DEF RequestBodyReturns
    <3>2. ~wk.end => reqPipe' = reqPipe
      BY <1>8 DEF RequestBodyReturns
    <3> QED
      BY <3>1, <3>2 DEF Flagged
  <2> QED
    BY <1>0, <1>1, <1>3, <2>1, <2>2, <2>3, ContField
<1>9. CASE OnStreamComplete
  <2>1. Flagged'
    BY <1>9, Zenon DEF OnStreamComplete, Flagged
  <2>2. UNCHANGED <<pc, req>> /\ wk'.at = "gone"
    BY <1>9 DEF OnStreamComplete, Sending, envoyVars, goVars
  <2> QED
    BY <1>1, <2>1, <2>2 DEF LeavesInv, RequestLeaves
<1>10. ASSUME NEW n \in 0..Batch, NEW e \in BOOLEAN,
              OnResponseHeaders(e) \/ OnResponseBody(n, e)
       PROVE  RequestLeaves'
  BY <1>2, <1>10, WorkerFields DEF OnResponseHeaders, OnResponseBody, goVars,
     pipeVars
<1>11. CASE SendResponseChunk \/ ResponseSendRefused \/ ResponseBodyReturns \/ Cancel
  <2>1. UNCHANGED <<pc, req, reqPipe, bodyDone, bodySkip, headDone>>
    BY <1>11 DEF SendResponseChunk, ResponseSendRefused, ResponseBodyReturns,
       Cancel, envoyVars, flagVars, pipeVars, goVars
  <2>2. wk'.at = "reqSend" => wk.at = "reqSend"
    BY <1>0, <1>11, WorkerFields DEF SendResponseChunk, ResponseSendRefused,
       ResponseBodyReturns, Cancel, Sending
  <2> QED
    BY <1>2, <2>1, <2>2
<1>12. CASE Callback
  <2>1. PICK e \in BOOLEAN :
          \/ OnRequestHeaders(e) \/ OnResponseHeaders(e)
          \/ \E n \in 0..Batch : OnRequestBody(n, e) \/ OnResponseBody(n, e)
    BY <1>12, Zenon DEF Callback
  <2>2. 0 \in 0..Batch
    BY BoundAssumption
  <2> QED
    BY <1>4, <1>5, <1>10, <2>1, <2>2, Zenon
<1> QED
  BY <1>6, <1>7, <1>8, <1>9, <1>11, <1>12 DEF WorkerStep

LEMMA WorkerLeavesResponse ==
  ASSUME TypeOK, BodyInv, SettledInv, LeavesInv, Callback \/ WorkerStep \/ Cancel
  PROVE  ResponseLeaves'
<1>0. /\ resp \in Half /\ wk \in Worker /\ respPipe \in Pipe
      /\ UNCHANGED <<plan, sched, rw>>
      /\ (Pending("resp")' <=> Pending("resp"))
      /\ (Held' <=> Held) /\ (Buffers' <=> Buffers)
      /\ ~cancelled' => ~cancelled
  <2>1. UNCHANGED <<plan, sched, rw>>
    BY DEF Callback, OnRequestHeaders, OnResponseHeaders, OnRequestBody,
       OnResponseBody, WorkerStep, SendRequestChunk, RequestSendRefused,
       RequestBodyReturns, SendResponseChunk, ResponseSendRefused,
       ResponseBodyReturns, OnStreamComplete, Cancel, goVars
  <2>2. Cancel \/ cancelled' = cancelled
    BY DEF Callback, OnRequestHeaders, OnResponseHeaders, OnRequestBody,
       OnResponseBody, WorkerStep, SendRequestChunk, RequestSendRefused,
       RequestBodyReturns, SendResponseChunk, ResponseSendRefused,
       ResponseBodyReturns, OnStreamComplete
  <2>3. Cancel => cancelled'
    BY Zenon DEF Cancel
  <2> QED
    BY <2>1, <2>2, <2>3 DEF TypeOK, Pending, In, Held, Buffers
<1> DEFINE Kept ==
      /\ pc' = pc /\ resp'.cont = resp.cont
      /\ respBodyDone => respBodyDone'
      /\ respPipe'.closed => respPipe.closed \/ respBodyDone'
      /\ ~Held => resp'.hdr # "held"
      /\ ~Buffers => ~resp'.buf
      /\ wk'.at = "respSend" => plan.resp # "none" /\ plan.mode # "passthrough"
      /\ resp.cont > 0 => /\ resp'.hdr = "sent" /\ ~resp'.buf
                          /\ Buffers => wk'.at # "respSend"
<1>1. Kept => ResponseLeaves'
  <2> HIDE DEF Held, Buffers
  <2> QED
    BY <1>0 DEF LeavesInv, ResponseLeaves
<1>2. ASSUME UNCHANGED <<pc, resp, respPipe, respBodyDone>>,
             wk'.at = "respSend" => wk.at = "respSend"
      PROVE  Kept
  BY <1>2 DEF LeavesInv, ResponseLeaves
<1>3. ASSUME NEW e \in BOOLEAN, OnResponseHeaders(e) PROVE Kept
  <2>1. /\ UNCHANGED <<pc, wk>> /\ wk.at = "idle" /\ resp.hdr = "idle"
        /\ resp'.cont = resp.cont /\ resp'.buf = resp.buf
        /\ ~Held => resp'.hdr = "sent"
    BY <1>0, <1>3, HalfFields, ContField, BufField DEF OnResponseHeaders, Held,
       goVars
  <2>2. respBodyDone => respBodyDone'
    BY <1>3, Zenon DEF OnResponseHeaders
  <2>3. respPipe'.closed => respPipe.closed \/ respBodyDone'
    <3>1. plan.resp # "none" /\ e => respBodyDone'
      BY <1>3, Zenon DEF OnResponseHeaders
    <3>2. ~(plan.resp # "none" /\ e) => respPipe' = respPipe
      BY <1>3 DEF OnResponseHeaders
    <3> QED
      BY <3>1, <3>2
  <2> QED
    BY <2>1, <2>2, <2>3 DEF LeavesInv, ResponseLeaves
<1>4. ASSUME NEW n \in 0..Batch, NEW e \in BOOLEAN, OnResponseBody(n, e) PROVE Kept
  <2>0. n \in Nat
    BY BoundAssumption
  <2>1. UNCHANGED <<pc, respPipe>> /\ (respBodyDone => respBodyDone') /\ wk.at = "idle"
    BY <1>4, Zenon DEF OnResponseBody, MayDeliver, goVars, pipeVars
  <2>2. CASE resp' = Continue(Deliver(resp, n, e)) /\ wk' = wk
    BY <1>0, <2>0, <2>1, <2>2, ResumeLeaves
  <2>3. CASE /\ resp' = Deliver(resp, n, e) /\ wk' = Sending("respSend", n, e)
             /\ ~respBodyDone /\ plan.resp # "none" /\ plan.mode # "passthrough"
    <3>1. resp'.hdr = resp.hdr /\ resp'.cont = resp.cont /\ resp'.buf = resp.buf
      BY <1>0, <2>0, <2>3, ResumeLeaves
    <3>2. Buffers => ~(resp.cont > 0)
      BY <2>3 DEF LeavesInv, ResponseLeaves
    <3> QED
      BY <2>1, <2>3, <3>1, <3>2 DEF LeavesInv, ResponseLeaves
  <2> QED
    BY <1>4, <2>2, <2>3 DEF OnResponseBody
<1>5. ASSUME SendResponseChunk PROVE Kept
  <2>1. /\ wk.at = "respSend" /\ wk'.at = "respSend"
        /\ UNCHANGED <<pc, resp, respBodyDone>>
    BY <1>0, <1>5, WorkerFields DEF SendResponseChunk, envoyVars, flagVars,
       goVars
  <2>2. /\ respPipe'.closed => respPipe.closed
        /\ respBodyDone => respBodyDone'
    BY <1>0, <1>5, PipeFields DEF SendResponseChunk, flagVars
  <2> QED
    BY <2>1, <2>2 DEF LeavesInv, ResponseLeaves
<1>6. ASSUME ResponseSendRefused PROVE Kept
  <2>1. /\ resp' = Continue(resp) /\ wk' = Idle /\ pc' = pc
        /\ respPipe'.closed => respPipe.closed
        /\ respBodyDone => respBodyDone'
    BY <1>6 DEF ResponseSendRefused, flagVars, pipeVars, goVars
  <2>2. wk'.at = "idle"
    BY <2>1, WorkerFields
  <2> QED
    BY <1>0, <2>1, <2>2, ResumeLeaves, ContField
<1>7. ASSUME ResponseBodyReturns PROVE Kept
  <2>1. /\ resp' = IF Buffers THEN StopAndBuffer(resp) ELSE Continue(resp)
        /\ wk.at = "respSend" /\ wk'.at = "idle" /\ pc' = pc
    BY <1>7, WorkerFields DEF ResponseBodyReturns, Buffers, LeavesInv,
       ResponseLeaves, goVars
  <2>2. respBodyDone => respBodyDone'
    BY <1>7, Zenon DEF ResponseBodyReturns
  <2>3. respPipe'.closed => respPipe.closed \/ respBodyDone'
    <3>1. wk.end => respBodyDone'
      BY <1>7, Zenon DEF ResponseBodyReturns
    <3>2. ~wk.end => respPipe' = respPipe
      BY <1>7 DEF ResponseBodyReturns
    <3> QED
      BY <3>1, <3>2
  <2>4. CASE Buffers
    <3>1. Held /\ ~(resp.cont > 0)
      BY <2>1, <2>4 DEF Held, Buffers, LeavesInv, ResponseLeaves
    <3> QED
      BY <1>0, <2>1, <2>2, <2>3, <2>4, <3>1, ContField
  <2>5. CASE ~Buffers
    BY <1>0, <2>1, <2>2, <2>3, <2>5, ResumeLeaves, ContField
  <2> QED
    BY <2>4, <2>5
<1>8. ASSUME OnStreamComplete PROVE Kept
  <2>0. respBodyDone => respBodyDone'
    BY <1>8, Zenon DEF OnStreamComplete
  <2>1. UNCHANGED <<pc, resp>> /\ wk'.at = "gone"
    BY <1>8 DEF OnStreamComplete, Sending, envoyVars, goVars
  <2>2. respPipe'.closed => respPipe.closed \/ respBodyDone'
    <3>1. plan.resp # "none" => respBodyDone'
      BY <1>8, Zenon DEF OnStreamComplete
    <3>2. plan.resp = "none" => respPipe' = respPipe
      BY <1>8 DEF OnStreamComplete
    <3> QED
      BY <3>1, <3>2
  <2> QED
    BY <2>0, <2>1, <2>2 DEF LeavesInv, ResponseLeaves
<1>9. ASSUME NEW n \in 0..Batch, NEW e \in BOOLEAN, OnRequestBody(n, e) PROVE Kept
  BY <1>2, <1>9, WorkerFields DEF OnRequestBody, goVars, pipeVars
<1>10. ASSUME SendRequestChunk \/ RequestSendRefused \/ RequestBodyReturns \/ Cancel
       PROVE  Kept
  <2>1. UNCHANGED <<pc, resp, respPipe, respBodyDone>>
    BY <1>10 DEF SendRequestChunk, RequestSendRefused, RequestBodyReturns,
       Cancel, envoyVars, flagVars, pipeVars, goVars
  <2>2. wk'.at = "respSend" => wk.at = "respSend"
    BY <1>0, <1>10, WorkerFields DEF SendRequestChunk, RequestSendRefused,
       RequestBodyReturns, Cancel, Sending
  <2> HIDE DEF Kept
  <2> QED
    BY <1>2, <2>1, <2>2
<1>11. ASSUME NEW e \in BOOLEAN, OnRequestHeaders(e) PROVE ResponseLeaves'
  <2>1. pc' = plan.body /\ UNCHANGED <<resp, respPipe, respBodyDone, wk>>
    BY <1>11 DEF OnRequestHeaders
  <2>2. plan.body \notin {"await", "respPartial", "respSkipClose", "respAct",
                          "respFinish", "done"}
    BY PlansAssumption DEF TypeOK, Plan
  <2> HIDE DEF Held, Buffers
  <2> QED
    BY <1>0, <2>1, <2>2 DEF LeavesInv, ResponseLeaves
<1>12. CASE Callback
  <2>1. PICK e \in BOOLEAN :
          \/ OnRequestHeaders(e) \/ OnResponseHeaders(e)
          \/ \E n \in 0..Batch : OnRequestBody(n, e) \/ OnResponseBody(n, e)
    BY <1>12, Zenon DEF Callback
  <2> HIDE DEF Kept
  <2> QED
    BY <1>1, <1>3, <1>4, <1>9, <1>11, <2>1, Zenon
<1> HIDE DEF Kept
<1> QED
  BY <1>1, <1>5, <1>6, <1>7, <1>8, <1>10, <1>12 DEF WorkerStep

\* When everything a handler asked for has been done on a live stream, nothing
\* of it is left at this filter, for handlers that are attentive (filter.go
\* 339-446 and 457-638).
THEOREM NothingStrandedCorrect == Spec /\ Attentive => []NothingStranded
<1> DEFINE Inv == StreamInv /\ LeavesInv
<1>1. Init /\ Attentive => Inv
  BY StreamInvCorrect, InitLeavesInv
<1>2. Inv /\ [Next]_vars => Inv'
  <2> SUFFICES ASSUME Inv, [Next]_vars PROVE Inv'
    OBVIOUS
  <2>1. StreamInv' /\ TypeOK /\ BodyInv /\ SettledInv
    BY StreamInvCorrect DEF StreamInv, TypeInv
  <2>2. CASE Terminated \/ UNCHANGED vars
    <3>1. UNCHANGED <<plan, req, resp, local, sched, wk, cancelled, bodyDone,
                    bodySkip,
                      headDone, respBodyDone, reqPipe, respPipe, rw, pc>>
      BY <2>2 DEF Terminated, vars, envoyVars, flagVars, pipeVars, goVars
    <3>2. /\ Flagged' <=> Flagged
          /\ \A c : Pending(c)' <=> Pending(c)
          /\ (Held' <=> Held) /\ (Buffers' <=> Buffers)
      BY <3>1 DEF Flagged, Pending, In, Held, Buffers
    <3>3. Attentive' /\ RequestLeaves'
      BY <3>1, <3>2 DEF LeavesInv, Attentive, RequestLeaves
    <3>4. ResponseLeaves'
      BY <3>1, <3>2 DEF LeavesInv, ResponseLeaves
    <3> QED
      BY <2>1, <3>3, <3>4 DEF LeavesInv
  <2>3. CASE Callback \/ WorkerStep \/ Cancel
    <3>1. plan' = plan
      BY <2>3 DEF Callback, OnRequestHeaders, OnResponseHeaders, OnRequestBody,
         OnResponseBody, WorkerStep, SendRequestChunk, RequestSendRefused,
         RequestBodyReturns, SendResponseChunk, ResponseSendRefused,
         ResponseBodyReturns, OnStreamComplete, Cancel
    <3> QED
      BY <2>1, <2>3, <3>1, WorkerLeavesRequest, WorkerLeavesResponse DEF
         LeavesInv, Attentive
  <2> QED
    BY <2>1, <2>2, <2>3, GoroutineLeaves, ClosureLeaves DEF Next
<1>3. Inv => NothingStranded
  <2> SUFFICES ASSUME Inv, pc = "done", sched = <<>>, wk.at = "idle", ~local
               PROVE  /\ req.hdr = "sent" /\ ~req.buf
                      /\ resp.hdr # "held" /\ ~resp.buf
    BY DEF NothingStranded
  <2>1. ~cancelled
    BY DEF StreamInv, BodyInv
  <2>2. \A c : ~Pending(c)
    BY DEF Pending, In
  <2>3. ~rw.responded
    BY <2>2 DEF LeavesInv, RequestLeaves
  <2>4. req.cont > 0
    BY <2>2, <2>3 DEF LeavesInv, RequestLeaves, BeforeReturn, ReadingReq
  <2>5. Held => resp.cont > 0
    BY <2>1, <2>2, <2>3 DEF LeavesInv, ResponseLeaves
  <2>6. ~Held => resp.hdr # "held" /\ ~resp.buf
    BY DEF Held, Buffers, LeavesInv, ResponseLeaves
  <2> QED
    BY <2>4, <2>5, <2>6 DEF LeavesInv, RequestLeaves, ResponseLeaves
<1> QED
  BY <1>1, <1>2, <1>3, PTL DEF Spec

-----------------------------------------------------------------------------
(***************************************************************************)
(* What the handlers whose counterexamples are known leave out.            *)
(***************************************************************************)

\* An answered request is never forwarded when the handler reads the body to its
\* end before it answers (handler.go, the comment of Send): only a body that
\* streams past the handler can carry the headers upstream first.
THEOREM AnsweredNotForwardedCorrect == Spec /\ Holding => []AnsweredNotForwarded
<1>1. Init /\ Holding => StreamInv /\ AnswerInv
  BY StreamInvCorrect DEF Init, AnswerInv
<1>2. StreamInv /\ AnswerInv /\ [Next]_vars => (StreamInv /\ AnswerInv)'
  BY StreamInvCorrect, NextAnswerInv DEF StreamInv, TypeInv
<1>3. StreamInv /\ AnswerInv => AnsweredNotForwarded
  <2> SUFFICES ASSUME StreamInv, AnswerInv, local PROVE req.hdr # "sent"
    BY DEF AnsweredNotForwarded
  <2>1. rw.responded /\ req.cont = 0
    BY DEF StreamInv, SettledInv, Exclusive
  <2>2. plan.body = "read"
    BY <2>1 DEF AnswerInv, Holding
  <2> QED
    BY <2>1, <2>2 DEF StreamInv, ResponseInv
<1> QED
  BY <1>1, <1>2, <1>3, PTL DEF Spec

\* Handlers whose metrics are all recorded while run() still reads them.
RequestOnly == plan.out = "forward" /\ plan.panic # "request" /\ plan.resp = "none"

\* A metric recorded is emitted, or the closure that does it is pending.
MetricsInv ==
  /\ RequestOnly /\ ~rw.responded
  /\ pc \in BeforeReturn \cup {"finish", "done"}
  /\ pc \in BeforeReturn => rw.metrics = emitted
  /\ pc = "done" => rw.metrics = emitted \/ Pending("finish")

LEMMA NextMetricsInv ==
  StreamInv /\ MetricsInv /\ [Next]_vars => MetricsInv'
<1> SUFFICES ASSUME StreamInv, MetricsInv, [Next]_vars PROVE MetricsInv'
  OBVIOUS
<1>0. /\ TypeOK /\ sched \in Seq(Closures) /\ plan \in Plan
      /\ Distinct(sched)
      /\ pc \in BeforeReturn \cup {"finish"} => ~Pending("finish")
  BY PlansAssumption, OwedType DEF StreamInv, TypeInv, TypeOK, SettledInv, Counts
<1>1. CASE Callback \/ WorkerStep \/ Cancel \/ Terminated \/ UNCHANGED vars
  <2>1. /\ UNCHANGED <<plan, sched, rw, emitted>>
        /\ pc' = pc \/ (pc \in BeforeReturn /\ pc' = plan.body)
    <3>1. ASSUME NEW e \in BOOLEAN, OnRequestHeaders(e)
          PROVE  UNCHANGED <<plan, sched, rw, emitted>>
                 /\ pc \in BeforeReturn /\ pc' = plan.body
      BY <3>1 DEF OnRequestHeaders, StreamInv, BodyInv, BeforeReturn
    <3>2. CASE UNCHANGED <<plan, sched, rw, emitted, pc>>
      BY <3>2
    <3>3. (\E e \in BOOLEAN : OnRequestHeaders(e))
          \/ UNCHANGED <<plan, sched, rw, emitted, pc>>
      BY <1>1 DEF Callback, OnResponseHeaders, OnRequestBody,
         OnResponseBody, WorkerStep, SendRequestChunk, RequestSendRefused,
         RequestBodyReturns, SendResponseChunk, ResponseSendRefused,
         ResponseBodyReturns, OnStreamComplete, Cancel, Terminated, vars,
         envoyVars, goVars
    <3> QED
      BY <3>1, <3>2, <3>3
  <2>2. plan.body \in BeforeReturn
    BY <1>0, PlanBody
  <2> QED
    BY <2>1, <2>2 DEF MetricsInv, RequestOnly, Pending, In, BeforeReturn, ReadingReq
<1>2. CASE RunScheduled
  <2>1. /\ UNCHANGED <<plan, rw, pc>> /\ sched # <<>> /\ sched' = Tail(sched)
    BY <1>2 DEF RunScheduled, FinishRequest, SendLocalResponse, RecoverRequest,
       FinishResponse, NextClosure, goVars
  <2>2. CASE Head(sched) = "finish"
    <3>1. Pending("finish")
      BY <1>0, <2>1, <2>2, InTail DEF Pending
    <3>2. pc = "done"
      BY <1>0, <3>1 DEF MetricsInv
    <3>3. emitted' = rw.metrics
      BY <1>2, <2>2 DEF RunScheduled, FinishRequest, SendLocalResponse,
         RecoverRequest, FinishResponse, NextClosure, MetricsInv
    <3> QED
      BY <2>1, <3>2, <3>3 DEF MetricsInv, RequestOnly, BeforeReturn, ReadingReq
  <2>3. CASE Head(sched) # "finish"
    <3>1. emitted' = emitted
      BY <1>2, <2>3 DEF RunScheduled, FinishRequest, SendLocalResponse,
         RecoverRequest, FinishResponse, NextClosure, envoyVars
    <3>2. Pending("finish")' <=> Pending("finish")
      BY <1>0, <2>1, <2>3, InTail DEF Pending
    <3> QED
      BY <2>1, <3>1, <3>2 DEF MetricsInv, RequestOnly
  <2> QED
    BY <2>2, <2>3
<1>3. CASE Goroutine
  <2>1. plan' = plan /\ emitted' = emitted
    BY <1>3 DEF Goroutine, ReadRequest, LimitReached, RequestEOF, StopReading,
       SkipBody, SkipCloses, HandlerActs, ScheduleFinish, Recover, HeadersArrive,
       AwaitCancelled, ReadResponse, ResponseEOF, SkipResponseBody,
       SkipResponseCloses, ResponseHandlerActs, ScheduleResponse, envoyVars
  <2>2. CASE HandlerActs
    <3>1. pc = "act" /\ ~rw'.responded /\ pc' = "finish"
      BY <2>2 DEF HandlerActs, MetricsInv, RequestOnly
    <3> QED
      BY <2>1, <3>1 DEF MetricsInv, RequestOnly, BeforeReturn, ReadingReq
  <2>3. CASE ScheduleFinish
    <3>1. rw' = rw /\ pc' = "done" /\ sched' = Append(sched, "finish")
      BY <2>3 DEF ScheduleFinish, MetricsInv, RequestOnly
    <3>2. Pending("finish")'
      BY <1>0, <3>1, InAppend DEF Pending, Closures
    <3> QED
      BY <2>1, <3>1, <3>2 DEF MetricsInv, RequestOnly, BeforeReturn, ReadingReq
  <2>4. CASE ~HandlerActs /\ ~ScheduleFinish
    <3>1. UNCHANGED <<sched, rw>> /\ pc \in BeforeReturn /\ pc' \in BeforeReturn
      BY <1>3, <2>4 DEF Goroutine, ReadRequest, LimitReached, RequestEOF,
         StopReading, SkipBody, SkipCloses, Recover, HeadersArrive, AwaitCancelled,
         ReadResponse, ResponseEOF, SkipResponseBody, SkipResponseCloses,
         ResponseHandlerActs, ScheduleResponse, MetricsInv, BeforeReturn,
         ReadingReq, ReadingResp
    <3> QED
      BY <2>1, <3>1 DEF MetricsInv, RequestOnly, BeforeReturn, ReadingReq
  <2> QED
    BY <2>2, <2>3, <2>4
<1> QED
  BY <1>1, <1>2, <1>3 DEF Next

\* Every metric of a request handler that forwards its request is emitted, when
\* there is no response handler whose metrics come too late (filter.go 491-513).
THEOREM MetricsEmittedCorrect == Spec /\ RequestOnly => []MetricsEmitted
<1>1. Init /\ RequestOnly => StreamInv /\ MetricsInv
  BY StreamInvCorrect DEF Init, MetricsInv, BeforeReturn
<1>2. StreamInv /\ MetricsInv /\ [Next]_vars => (StreamInv /\ MetricsInv)'
  BY StreamInvCorrect, NextMetricsInv
<1>3. StreamInv /\ MetricsInv => MetricsEmitted
  BY DEF MetricsInv, MetricsEmitted, Pending, In
<1> QED
  BY <1>1, <1>2, <1>3, PTL DEF Spec

-----------------------------------------------------------------------------
(***************************************************************************)
(* The worker and the goroutine never wait for one another.                *)
(***************************************************************************)

\* The response goes through respPipe to a ResponseFunc.
Tapped == plan.resp # "none" /\ plan.mode # "passthrough"

\* Handlers that attend to whatever is pushed into a pipe: one that reads, skips
\* or limits the request body, and a ResponseFunc that reads or skips the
\* response and is there when it comes.
Attending ==
  /\ plan.body # "partial"
  /\ Tapped => plan.resp # "partial" /\ plan.panic # "request" /\ Holding

\* A flag lets callbacks pass, and the pipe is closed with it or in the next
\* step of whoever raised it; no handler leaves the body without a closed pipe.
Closing == {"skipClose", "limitClose"}
RequestPark ==
  /\ pc = "none" => req.hdr = "idle"
  /\ pc # "partial"
  /\ Flagged => reqPipe.closed \/ pc \in Closing
  /\ pc \notin BodyOpen \cup Closing => reqPipe.closed
  /\ req.hdr = "sent" => Flagged \/ reqPipe.closed \/ req.cont > 0
  /\ wk.at = "gone" => bodyDone \/ bodySkip
  /\ pc \in ResponsePhase \cup {"await"} => plan.resp # "none"

\* The same of the response; and its headers wait for the goroutine until it
\* takes them.
ResponseOver == {"respAct", "respFinish", "panicked", "done"}
ResponsePark ==
  /\ pc # "respPartial"
  /\ resp.hdr # "idle" => respHeadersCh > 0 \/ pc \in ResponsePhase \cup ResponseOver
  /\ respBodyDone => respPipe.closed \/ pc = "respSkipClose"
  /\ pc \in ResponseOver /\ ~rw.responded /\ ~cancelled => respPipe.closed
  /\ wk.at = "gone" => respBodyDone

ParkInv ==
  /\ Attending /\ RequestPark
  /\ wk.at = "respSend" => Tapped
  /\ Tapped => ResponsePark /\ AnswerInv

LEMMA InitParkInv == Init /\ Attending => ParkInv
  BY DEF Init, ParkInv, RequestPark, ResponsePark, NoHalf, Idle, Flagged, BodyOpen,
     ResponseOver, ResponsePhase, ReadingResp, Attending, AnswerInv

\* The plan stays, and with it which handlers answer.
LEMMA AnswersKept ==
  StreamInv /\ ParkInv /\ Next => plan' = plan /\ (Tapped => AnswerInv')
  BY PlanFixed, NextAnswerInv DEF StreamInv, TypeInv, ParkInv

\* What a step that closes a pipe leaves.
LEMMA Closes ==
  TypeOK => /\ reqPipe' = Close(reqPipe) => reqPipe'.closed
            /\ respPipe' = Close(respPipe) => respPipe'.closed
<1> SUFFICES ASSUME TypeOK
             PROVE  /\ reqPipe' = Close(reqPipe) => reqPipe'.closed
                    /\ respPipe' = Close(respPipe) => respPipe'.closed
  OBVIOUS
<1>1. reqPipe \in Pipe /\ respPipe \in Pipe
  BY DEF TypeOK
<1>2. Close(reqPipe).closed /\ Close(respPipe).closed
  BY <1>1, PipeFields
<1> QED
  BY <1>2

\* A step of the worker raises a flag only as it closes the pipe, and closes no
\* request's headers.
LEMMA WorkerPark ==
  ASSUME StreamInv, ParkInv, Callback \/ WorkerStep \/ Cancel
  PROVE  ParkInv'
<1>a. Tapped => AnswerInv'
  BY AnswersKept DEF Next
<1>0. /\ TypeOK /\ BodyInv /\ ResponseInv /\ plan \in Plan
      /\ req \in Half /\ resp \in Half /\ reqPipe \in Pipe /\ respPipe \in Pipe
      /\ respHeadersCh \in 0..1 /\ wk \in Worker /\ Booleans
      /\ cancelled <=> wk.at \in {"complete", "gone"}
  BY PlansAssumption DEF StreamInv, TypeInv, TypeOK, BodyInv
<1>1. ASSUME NEW e \in BOOLEAN, OnRequestHeaders(e) PROVE ParkInv'
  <2>1. /\ pc = "none" /\ pc' = plan.body /\ plan.body \in {"read", "skip", "limit"}
        /\ wk.at # "gone"
        /\ UNCHANGED <<plan, resp, wk, cancelled, bodySkip, headDone,
                       respBodyDone, respPipe, respHeadersCh, rw>>
        /\ bodyDone' = e /\ reqPipe' = IF e THEN Close(reqPipe) ELSE reqPipe
        /\ req'.hdr = "held"
    BY <1>0, <1>1, HalfFields DEF OnRequestHeaders, BodyInv, ParkInv, Attending, Plan
  <2>2. (e => reqPipe'.closed) /\ (reqPipe.closed => reqPipe'.closed)
    BY <1>0, <2>1, PipeFields
  <2>3. RequestPark'
    BY <2>1, <2>2 DEF ParkInv, RequestPark, Flagged, BodyOpen, Closing, ResponsePhase,
       ReadingResp
  <2>4. Tapped => ResponsePark'
    BY <2>1 DEF ParkInv, ResponsePark, ResponseOver, ResponsePhase, ReadingResp
  <2> QED
    BY <1>a, <2>1, <2>3, <2>4 DEF ParkInv, Attending, Tapped, Holding
<1>2. ASSUME NEW n \in 0..Batch, NEW e \in BOOLEAN, OnRequestBody(n, e) PROVE ParkInv'
  <2>0. n \in Nat
    BY BoundAssumption
  <2>1. /\ Deliver(req, n, e) \in Half /\ Deliver(req, n, e).hdr = req.hdr
        /\ Deliver(req, n, e).cont = req.cont
    BY <1>0, <2>0, HalfOps, HalfFields, ContField
  <2>2. /\ UNCHANGED <<plan, resp, cancelled, bodySkip, headDone, respBodyDone,
                       reqPipe, respPipe, respHeadersCh, rw, pc>>
        /\ req.hdr # "idle" /\ req'.cont = req.cont /\ wk.at = "idle"
        /\ \/ Flagged /\ Flagged' /\ wk' = wk
           \/ wk'.at = "reqSend" /\ bodyDone' = bodyDone /\ req'.hdr = req.hdr
    BY <1>0, <1>2, <2>1, ContField
       DEF OnRequestBody, MayDeliver, pipeVars, goVars, Flagged, Sending, Booleans
  <2>3. RequestPark'
    BY <1>0, <2>2 DEF ParkInv, RequestPark, Flagged
  <2> QED
    BY <1>a, <2>2, <2>3 DEF ParkInv, Attending, Tapped, Holding, ResponsePark
<1>3. CASE SendRequestChunk \/ SendResponseChunk
  <2>1. /\ UNCHANGED <<plan, req, resp, cancelled, bodyDone, bodySkip, headDone,
                       respBodyDone, respHeadersCh, rw, pc>>
        /\ reqPipe'.closed = reqPipe.closed /\ respPipe'.closed = respPipe.closed
        /\ wk'.at = wk.at
    BY <1>0, <1>3, PipeFields, WorkerFields
       DEF SendRequestChunk, SendResponseChunk, envoyVars, flagVars, goVars, TypeOK
  <2> QED
    BY <1>a, <2>1 DEF ParkInv, Attending, Tapped, Holding, RequestPark, ResponsePark, Flagged
<1>4. CASE RequestSendRefused \/ ResponseSendRefused
  <2>1. /\ UNCHANGED <<plan, cancelled, bodyDone, bodySkip, headDone, reqPipe,
                       respPipe, respBodyDone, respHeadersCh, rw, pc>>
        /\ wk'.at = "idle" /\ ~cancelled
        /\ \/ req' = req
           \/ /\ req'.cont = req.cont /\ reqPipe.closed /\ wk.at = "reqSend"
        /\ resp.hdr = "idle" => resp'.hdr = "idle"
    BY <1>0, <1>4, ContField, WorkerFields DEF RequestSendRefused, ResponseSendRefused,
       flagVars, pipeVars, goVars, ResponseInv
  <2>2. wk.at = "reqSend" => req.hdr # "idle"
    BY <1>0 DEF BodyInv
  <2>3. RequestPark'
    BY <2>1, <2>2 DEF ParkInv, RequestPark, Flagged
  <2>4. Tapped => ResponsePark'
    BY <2>1 DEF ParkInv, ResponsePark
  <2> QED
    BY <1>a, <2>1, <2>3, <2>4 DEF ParkInv, Attending, Tapped, Holding
<1>5. CASE RequestBodyReturns
  <2>1. /\ UNCHANGED <<plan, resp, cancelled, bodySkip, headDone,
                       respPipe, respBodyDone, respHeadersCh, rw, pc>>
        /\ wk'.at = "idle" /\ req'.hdr = req.hdr /\ req'.cont = req.cont
    BY <1>0, <1>5, ContField, HalfFields DEF RequestBodyReturns, Idle, goVars
  <2>2. /\ reqPipe.closed => reqPipe'.closed
        /\ bodyDone => bodyDone'
        /\ bodyDone' => bodyDone \/ reqPipe'.closed
    <3>1. \/ reqPipe' = Close(reqPipe)
          \/ reqPipe' = reqPipe /\ (bodyDone' => bodyDone)
      BY <1>5, Zenon DEF RequestBodyReturns
    <3>2. bodyDone => bodyDone'
      BY <1>5, Zenon DEF RequestBodyReturns
    <3>3. reqPipe' = Close(reqPipe) => reqPipe'.closed
      BY <1>0, Closes
    <3> QED
      BY <3>1, <3>2, <3>3
  <2>3. RequestPark'
    BY <2>1, <2>2 DEF ParkInv, RequestPark, Flagged
  <2> QED
    BY <1>a, <2>1, <2>3 DEF ParkInv, Attending, Tapped, Holding, ResponsePark
<1>6. ASSUME NEW e \in BOOLEAN, OnResponseHeaders(e) PROVE ParkInv'
  <2>1. /\ UNCHANGED <<plan, req, wk, cancelled, bodyDone, bodySkip, headDone,
                       reqPipe, rw, pc>>
        /\ wk.at = "idle"
        /\ Tapped => /\ respHeadersCh' = respHeadersCh + 1
                     /\ respBodyDone' = (respBodyDone \/ e)
                     /\ respPipe' = IF e /\ ~respBodyDone
                                    THEN Close(respPipe) ELSE respPipe
    BY <1>6 DEF OnResponseHeaders, goVars, Tapped
  <2>2. Tapped => ResponsePark'
    <3> SUFFICES ASSUME Tapped PROVE ResponsePark'
      OBVIOUS
    <3>1. respPipe.closed => respPipe'.closed
      BY <1>0, <2>1, PipeFields
    <3>2. respBodyDone' => respBodyDone \/ respPipe'.closed
      <4>1. respBodyDone' /\ ~respBodyDone => respPipe' = Close(respPipe)
        BY <2>1, Zenon
      <4> QED
        BY <1>0, <4>1, Closes
    <3>3. respHeadersCh' > 0
      BY <1>0, <2>1
    <3> QED
      BY <2>1, <3>1, <3>2, <3>3 DEF ParkInv, ResponsePark
  <2> QED
    BY <1>a, <2>1, <2>2 DEF ParkInv, Attending, Tapped, Holding, RequestPark, Flagged
<1>7. ASSUME NEW n \in 0..Batch, NEW e \in BOOLEAN, OnResponseBody(n, e) PROVE ParkInv'
  <2>0. n \in Nat
    BY BoundAssumption
  <2>1. /\ UNCHANGED <<plan, req, cancelled, bodyDone, bodySkip, headDone, reqPipe,
                       respPipe, respHeadersCh, rw, pc>>
        /\ resp.hdr # "idle"
        /\ wk'.at = "idle" \/ (wk'.at = "respSend" /\ Tapped)
    BY <1>7 DEF OnResponseBody, MayDeliver, pipeVars, goVars, Tapped, Sending
  <2>2. Tapped => (respBodyDone' <=> respBodyDone)
    BY <1>7, Zenon DEF OnResponseBody, Tapped
  <2>3. Tapped => ResponsePark'
    BY <2>1, <2>2 DEF ParkInv, ResponsePark
  <2> QED
    BY <1>a, <2>1, <2>3 DEF ParkInv, Attending, Tapped, Holding, RequestPark, Flagged
<1>8. CASE ResponseBodyReturns
  <2>1. /\ UNCHANGED <<plan, req, cancelled, bodyDone, bodySkip, headDone, reqPipe,
                       respHeadersCh, rw, pc>>
        /\ wk'.at = "idle" /\ wk.at = "respSend"
    BY <1>8 DEF ResponseBodyReturns, Idle, goVars
  <2>2. resp.hdr # "idle"
    BY <1>0, <2>1 DEF ResponseInv
  <2>3. /\ respPipe.closed => respPipe'.closed
        /\ respBodyDone' => respBodyDone \/ respPipe'.closed
    <3>1. \/ respPipe' = Close(respPipe)
          \/ respPipe' = respPipe /\ (respBodyDone' => respBodyDone)
      BY <1>8, Zenon DEF ResponseBodyReturns
    <3>2. respPipe' = Close(respPipe) => respPipe'.closed
      BY <1>0, Closes
    <3> QED
      BY <3>1, <3>2
  <2>4. Tapped => ResponsePark'
    BY <2>1, <2>2, <2>3 DEF ParkInv, ResponsePark
  <2> QED
    BY <1>a, <2>1, <2>4 DEF ParkInv, Attending, Tapped, Holding, RequestPark, Flagged
<1>9. CASE OnStreamComplete
  <2>1. /\ UNCHANGED <<plan, req, resp, cancelled, bodyDone, headDone,
                       respHeadersCh, rw, pc>>
        /\ wk'.at = "gone" /\ wk.at = "complete"
        /\ bodySkip' = (bodySkip \/ ~bodyDone)
        /\ reqPipe' = IF ~bodyDone /\ ~bodySkip THEN Close(reqPipe) ELSE reqPipe
        /\ Tapped => /\ respBodyDone' = TRUE
                     /\ respPipe' = IF ~respBodyDone THEN Close(respPipe) ELSE respPipe
    BY <1>0, <1>9 DEF OnStreamComplete, envoyVars, goVars, Tapped, Sending, Booleans
  <2>2. /\ reqPipe.closed => reqPipe'.closed
        /\ bodyDone \/ bodySkip \/ reqPipe'.closed
    BY <1>0, <2>1, PipeFields
  <2>3. RequestPark'
    BY <2>1, <2>2 DEF ParkInv, RequestPark, Flagged
  <2>4. Tapped => ResponsePark'
    <3> SUFFICES ASSUME Tapped PROVE ResponsePark'
      OBVIOUS
    <3>1. /\ respPipe.closed => respPipe'.closed
          /\ respBodyDone \/ respPipe'.closed
      <4>1. respPipe' = Close(respPipe) \/ (respBodyDone /\ respPipe' = respPipe)
        BY <2>1, Zenon
      <4> QED
        BY <1>0, <4>1, Closes
    <3> QED
      BY <2>1, <3>1 DEF ParkInv, ResponsePark
  <2> QED
    BY <1>a, <2>1, <2>3, <2>4 DEF ParkInv, Attending, Tapped, Holding
<1>10. CASE Cancel
  <2>1. /\ UNCHANGED <<plan, req, resp, bodyDone, bodySkip, headDone, reqPipe,
                       respPipe, respBodyDone, respHeadersCh, rw, pc>>
        /\ wk'.at = "complete" /\ cancelled' = TRUE
    BY <1>10 DEF Cancel, envoyVars, flagVars, pipeVars, goVars, Sending
  <2> QED
    BY <1>a, <2>1 DEF ParkInv, Attending, Tapped, Holding, RequestPark, ResponsePark, Flagged
<1>11. CASE Callback
  <2>1. PICK e \in BOOLEAN :
          \/ OnRequestHeaders(e) \/ OnResponseHeaders(e)
          \/ \E n \in 0..Batch : OnRequestBody(n, e) \/ OnResponseBody(n, e)
    BY <1>11, Zenon DEF Callback
  <2> QED
    BY <1>1, <1>2, <1>6, <1>7, <2>1, Zenon
<1> QED
  BY <1>3, <1>4, <1>5, <1>8, <1>9, <1>10, <1>11, Zenon DEF WorkerStep

\* A closure of the queue touches no pipe and no flag.
LEMMA ClosurePark ==
  ASSUME StreamInv, ParkInv, RunScheduled
  PROVE  ParkInv'
<1>a. Tapped => AnswerInv'
  BY AnswersKept DEF Next
<1>0. /\ TypeOK /\ req \in Half /\ resp \in Half /\ sched \in Seq(Closures)
      /\ ResponseInv
  BY DEF StreamInv, TypeInv, TypeOK
<1>1. /\ UNCHANGED <<plan, wk, cancelled, bodyDone, bodySkip, headDone, reqPipe,
                     respPipe, respBodyDone, respHeadersCh, rw, pc>>
      /\ req' = req \/ req' = Resume(req)
      /\ resp' = resp \/ Head(sched) = "resp"
      /\ sched # <<>>
  BY DEF RunScheduled, FinishRequest, SendLocalResponse, RecoverRequest,
     FinishResponse, NextClosure, flagVars, pipeVars, goVars, envoyVars
<1>2. req' = req \/ req'.cont > 0
  BY <1>0, <1>1, ContField DEF Half
<1>3. resp.hdr = "idle" => resp' = resp
  <2>1. Head(sched) = "resp" => Pending("resp")
    BY <1>0, <1>1 DEF Pending, In
  <2> QED
    BY <1>0, <1>1, <2>1 DEF ResponseInv
<1>4. req.hdr = "idle" => req' = req
  <2>1. \E c \in Closures : Pending(c)
    <3>1. Head(sched) \in Closures /\ Pending(Head(sched))
      BY <1>0, <1>1 DEF Pending, In
    <3> QED
      BY <3>1
  <2>2. pc # "none"
    BY <2>1, OwedType DEF StreamInv, SettledInv, Exclusive, Counts, BeforeReturn,
       Closures
  <2> QED
    BY <2>2 DEF StreamInv, BodyInv
<1>5. RequestPark'
  <2>1. pc = "none" => req'.hdr = "idle"
    BY <1>4 DEF ParkInv, RequestPark
  <2>2. req'.hdr = "sent" => Flagged \/ reqPipe.closed \/ req'.cont > 0
    BY <1>2 DEF ParkInv, RequestPark
  <2> QED
    BY <1>1, <2>1, <2>2 DEF ParkInv, RequestPark, Flagged
<1>6. Tapped => ResponsePark'
  BY <1>1, <1>3 DEF ParkInv, ResponsePark
<1> QED
  BY <1>a, <1>1, <1>5, <1>6 DEF ParkInv, Attending, Tapped, Holding

\* The goroutine raises a flag, closes the pipe and goes on, in this order, and
\* leaves the place of a Read only at its end.
LEMMA GoroutinePark ==
  ASSUME StreamInv, ParkInv, Goroutine
  PROVE  ParkInv'
<1>a. Tapped => AnswerInv'
  BY AnswersKept DEF Next
<1>0. /\ TypeOK /\ reqPipe \in Pipe /\ respPipe \in Pipe /\ respHeadersCh \in 0..1
      /\ plan \in Plan /\ Attending /\ RequestPark
      /\ Tapped => ResponsePark
  BY PlansAssumption DEF StreamInv, TypeInv, TypeOK, ParkInv
<1>1. UNCHANGED <<plan, req, resp, wk, cancelled>>
  BY DEF Goroutine, ReadRequest, LimitReached, RequestEOF, StopReading,
     SkipBody, SkipCloses, HandlerActs, ScheduleFinish, Recover, HeadersArrive,
     AwaitCancelled, ReadResponse, ResponseEOF, SkipResponseBody,
     SkipResponseCloses, ResponseHandlerActs, ScheduleResponse, envoyVars
<1>2. SUFFICES RequestPark' /\ (Tapped => ResponsePark')
  BY <1>a, <1>1 DEF ParkInv, Attending, Tapped, Holding
<1> USE DEF BodyOpen, Closing, ResponseOver, ResponsePhase, ReadingReq, ReadingResp
<1>3. CASE ReadRequest
  <2>1. /\ pc \in {"read", "limit"} /\ reqPipe'.closed = reqPipe.closed
        /\ UNCHANGED <<bodyDone, bodySkip, respBodyDone, respPipe, respHeadersCh, rw>>
        /\ \/ headDone' = TRUE /\ pc' = "limitClose"
           \/ (headDone' <=> headDone) /\ pc' = pc
        /\ headDone => headDone'
    BY <1>0, <1>3, PipeFields DEF ReadRequest, RequestPark, TypeOK, Booleans
  <2> QED
    BY <1>0, <1>1, <2>1 DEF RequestPark, ResponsePark, Flagged
<1>4. CASE LimitReached \/ SkipCloses
  <2>1. /\ pc \in Closing /\ pc' = "act" /\ reqPipe' = Close(reqPipe)
        /\ UNCHANGED <<bodySkip, respBodyDone, respPipe, respHeadersCh, rw>>
        /\ bodyDone => bodyDone'
    BY <1>4 DEF LimitReached, SkipCloses, flagVars
  <2>2. reqPipe'.closed
    BY <1>0, <2>1, Closes
  <2> QED
    BY <1>0, <1>1, <2>1, <2>2 DEF RequestPark, ResponsePark
<1>5. CASE RequestEOF
  <2>1. /\ pc \in {"read", "limit"} /\ pc' = "act" /\ reqPipe.closed
        /\ UNCHANGED <<bodyDone, bodySkip, headDone, respBodyDone, reqPipe,
                       respPipe, respHeadersCh, rw>>
    BY <1>0, <1>5 DEF RequestEOF, AtEOF, RequestPark, flagVars, pipeVars
  <2> QED
    BY <1>0, <1>1, <2>1 DEF RequestPark, ResponsePark, Flagged
<1>6. CASE StopReading
  <2>1. /\ pc = "respPartial" /\ pc' = "respAct" /\ ~Tapped
        /\ UNCHANGED <<bodyDone, bodySkip, headDone, reqPipe>>
    BY <1>0, <1>6 DEF StopReading, RequestPark, ResponsePark, flagVars, pipeVars
  <2> QED
    BY <1>0, <1>1, <2>1 DEF RequestPark, Flagged
<1>7. CASE SkipBody
  <2>1. /\ pc = "skip" /\ bodySkip'
        /\ \/ pc' = "act" /\ bodySkip
           \/ pc' = "skipClose"
        /\ UNCHANGED <<bodyDone, headDone, respBodyDone, reqPipe, respPipe,
                       respHeadersCh, rw>>
    BY <1>7 DEF SkipBody, pipeVars
  <2> QED
    BY <1>0, <1>1, <2>1 DEF RequestPark, ResponsePark, Flagged
<1>8. CASE HandlerActs
  <2>1. /\ pc = "act" /\ pc' \in {"panicked", "finish"}
        /\ pc' = "panicked" => ~Tapped
        /\ UNCHANGED <<bodyDone, bodySkip, headDone, respBodyDone, reqPipe,
                       respPipe, respHeadersCh>>
    BY <1>0, <1>8 DEF HandlerActs, Attending, flagVars, pipeVars
  <2> QED
    BY <1>0, <1>1, <2>1 DEF RequestPark, ResponsePark, Flagged
<1>9. CASE ScheduleFinish
  <2>1. /\ pc = "finish" /\ pc' \in {"done", "await"}
        /\ pc' = "done" => rw.responded \/ ~Tapped
        /\ pc' = "await" => plan.resp # "none"
        /\ UNCHANGED <<bodyDone, bodySkip, headDone, respBodyDone, reqPipe,
                       respPipe, respHeadersCh, rw>>
    BY <1>9 DEF ScheduleFinish, Tapped, flagVars, pipeVars
  <2> QED
    BY <1>0, <1>1, <2>1 DEF RequestPark, ResponsePark, Flagged
<1>10. CASE Recover
  <2>1. /\ pc = "panicked" /\ pc' = "done"
        /\ UNCHANGED <<bodyDone, bodySkip, headDone, respBodyDone, reqPipe,
                       respPipe, respHeadersCh, rw>>
    BY <1>10 DEF Recover, flagVars, pipeVars
  <2> QED
    BY <1>0, <1>1, <2>1 DEF RequestPark, ResponsePark, Flagged
<1>11. CASE HeadersArrive
  <2>1. /\ pc = "await" /\ pc' \in {"respRead", "respSkip", "respPartial"}
        /\ pc' = "respPartial" => ~Tapped
        /\ UNCHANGED <<bodyDone, bodySkip, headDone, respBodyDone, reqPipe,
                       respPipe, rw>>
    BY <1>0, <1>11 DEF HeadersArrive, Tapped, Attending, Plan, flagVars
  <2> QED
    BY <1>0, <1>1, <2>1 DEF RequestPark, ResponsePark, Flagged
<1>12. CASE AwaitCancelled
  <2>1. /\ pc = "await" /\ pc' = "done" /\ cancelled
        /\ UNCHANGED <<bodyDone, bodySkip, headDone, respBodyDone, reqPipe,
                       respPipe, respHeadersCh, rw>>
    BY <1>12 DEF AwaitCancelled, flagVars, pipeVars
  <2> QED
    BY <1>0, <1>1, <2>1 DEF RequestPark, ResponsePark, Flagged
<1>13. CASE ReadResponse
  <2>1. /\ respPipe'.closed = respPipe.closed
        /\ UNCHANGED <<bodyDone, bodySkip, headDone, respBodyDone, reqPipe,
                       respHeadersCh, rw, pc>>
    BY <1>0, <1>13, PipeFields DEF ReadResponse, flagVars
  <2> QED
    BY <1>0, <1>1, <2>1 DEF RequestPark, ResponsePark, Flagged
<1>14. CASE ResponseEOF
  <2>1. /\ pc \in ReadingResp /\ pc' = "respAct"
        /\ Tapped => respPipe.closed
        /\ UNCHANGED <<bodyDone, bodySkip, headDone, respBodyDone, reqPipe,
                       respPipe, respHeadersCh, rw>>
    BY <1>14 DEF ResponseEOF, AtEOF, Tapped, flagVars, pipeVars
  <2> QED
    BY <1>0, <1>1, <2>1 DEF RequestPark, ResponsePark, Flagged
<1>15. CASE SkipResponseBody
  <2>1. /\ pc = "respSkip" /\ respBodyDone'
        /\ \/ pc' = "respAct" /\ respBodyDone
           \/ pc' = "respSkipClose"
        /\ UNCHANGED <<bodyDone, bodySkip, headDone, reqPipe, respPipe,
                       respHeadersCh, rw>>
    BY <1>15 DEF SkipResponseBody, pipeVars
  <2> QED
    BY <1>0, <1>1, <2>1 DEF RequestPark, ResponsePark, Flagged
<1>16. CASE SkipResponseCloses
  <2>1. /\ pc = "respSkipClose" /\ pc' = "respAct" /\ respPipe' = Close(respPipe)
        /\ UNCHANGED <<bodyDone, bodySkip, headDone, respBodyDone, reqPipe,
                       respHeadersCh, rw>>
    BY <1>16 DEF SkipResponseCloses, flagVars
  <2>2. respPipe'.closed
    BY <1>0, <2>1, Closes
  <2> QED
    BY <1>0, <1>1, <2>1, <2>2 DEF RequestPark, ResponsePark, Flagged
<1>17. CASE ResponseHandlerActs \/ ScheduleResponse
  <2>1. /\ pc \in {"respAct", "respFinish"} /\ pc' \in {"panicked", "done", "respFinish"}
        /\ rw'.responded = rw.responded
        /\ UNCHANGED <<bodyDone, bodySkip, headDone, respBodyDone, reqPipe,
                       respPipe, respHeadersCh>>
    BY <1>0, <1>17 DEF ResponseHandlerActs, ScheduleResponse, flagVars, pipeVars,
       TypeOK
  <2> QED
    BY <1>0, <1>1, <2>1 DEF RequestPark, ResponsePark, Flagged
<1> QED
  BY <1>3, <1>4, <1>5, <1>6, <1>7, <1>8, <1>9, <1>10, <1>11, <1>12, <1>13, <1>14,
     <1>15, <1>16, <1>17 DEF Goroutine

\* Between the worker and the goroutine nobody is parked for good: a callback
\* blocked on a full pipe has a goroutine that comes to read or close it, and
\* after OnStreamComplete the goroutine has whatever it waits for.  This is the
\* safety behind WorkerReturns and GoroutineExits (body.go 36-90, filter.go
\* 449-472).
THEOREM NobodyParkedCorrect == Spec /\ Attending => []NobodyParked
<1> DEFINE Inv == StreamInv /\ ParkInv
<1>1. Init /\ Attending => Inv
  BY StreamInvCorrect, InitParkInv
<1>2. Inv /\ [Next]_vars => Inv'
  <2> SUFFICES ASSUME Inv, [Next]_vars PROVE Inv'
    OBVIOUS
  <2>1. CASE Terminated \/ UNCHANGED vars
    BY <2>1, StreamInvCorrect DEF Terminated, vars, envoyVars, flagVars, pipeVars,
       goVars, ParkInv, Attending, Tapped, Holding, RequestPark, ResponsePark, Flagged,
       AnswerInv
  <2> QED
    BY <2>1, StreamInvCorrect, WorkerPark, ClosurePark, GoroutinePark DEF Next
<1>3. Inv => NobodyParked
  <2> SUFFICES ASSUME Inv PROVE NobodyParked
    OBVIOUS
  <2>0. /\ TypeOK /\ BodyInv /\ ResponseInv /\ SettledInv /\ RequestPark
        /\ pc \in Places /\ Cap \in Nat \ {0}
        /\ wk.at \in {"reqSend", "respSend"} => ~cancelled
    BY CapAssumption DEF StreamInv, TypeInv, TypeOK, BodyInv, ParkInv
  <2> USE DEF ReadingReq, ReadingResp, ResponsePhase, ResponseOver, BodyOpen, Closing
  <2>1. ASSUME Blocked("reqSend", reqPipe) PROVE CanGoOn
    <3>1. req.hdr # "idle" /\ ~reqPipe.closed /\ reqPipe.len > 0
      BY <2>0, <2>1 DEF Blocked, BodyInv
    <3> QED
      BY <2>0, <3>1 DEF RequestPark, CanGoOn
  <2>2. ASSUME Blocked("respSend", respPipe) PROVE CanGoOn
    <3>1. /\ Tapped /\ ResponsePark /\ resp.hdr # "idle" /\ req.hdr = "sent"
          /\ ~cancelled /\ ~respPipe.closed /\ respPipe.len > 0
      BY <2>0, <2>2 DEF Blocked, ParkInv, ResponseInv
    <3>2. pc # "none"
      BY <2>0, <3>1 DEF RequestPark
    <3>3. pc \in {"read", "limit"} => reqPipe.closed
      <4>1. pc \in {"read", "limit"} => req.cont = 0
        BY <2>0 DEF SettledInv, Counts, BeforeReturn
      <4> QED
        BY <2>0, <3>1, <4>1 DEF RequestPark
    <3>4. ~rw.responded
      <4>1. rw.responded => req.cont = 0
        BY <2>0 DEF SettledInv, Exclusive
      <4>2. plan.body = "read" => req.cont > 0
        BY <2>0, <3>1 DEF ResponseInv
      <4> QED
        BY <4>1, <4>2, <3>1 DEF ParkInv, AnswerInv, Holding
    <3>5. pc # "done"
      BY <3>1, <3>4 DEF ResponsePark
    <3>6. pc = "await" => respHeadersCh > 0
      BY <3>1 DEF ResponsePark
    <3> QED
      BY <2>0, <3>1, <3>2, <3>3, <3>5, <3>6 DEF CanGoOn
  <2>3. ASSUME wk.at = "gone" PROVE CanGoOn \/ pc = "done"
    <3>1. req.hdr # "idle" /\ cancelled
      BY <2>0, <2>3 DEF BodyInv
    <3>2. pc \in {"read", "limit"} => reqPipe.closed
      BY <2>0, <2>3 DEF RequestPark, Flagged
    <3>3. pc = "respRead" => plan.mode = "passthrough" \/ respPipe.closed
      BY <2>0, <2>3 DEF RequestPark, Tapped, ParkInv, ResponsePark
    <3> QED
      BY <2>0, <3>1, <3>2, <3>3 DEF CanGoOn, RequestPark
  <2> QED
    BY <2>1, <2>2, <2>3 DEF NobodyParked
<1> QED
  BY <1>1, <1>2, <1>3, PTL DEF Spec
===============================================================================
