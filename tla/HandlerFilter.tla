---------------------------- MODULE HandlerFilter ----------------------------
(***************************************************************************)
(* One HTTP stream of jisr: the handlerFilter of filter.go, whose          *)
(* callbacks Envoy makes on its worker thread, and the goroutine run()     *)
(* that executes the user's handlers.  The two sides share the body pipes, *)
(* a one-place channel of response headers, atomic flags, the response     *)
(* writer, and the scheduler by which the goroutine gets closures run on   *)
(* the worker.                                                             *)
(*                                                                         *)
(* Chunks are counted, not named (BodyReader models their bytes).  What    *)
(* the user's handlers do is a "plan", chosen at the start and never       *)
(* changed.  Envoy itself is outside the repository; what it does with the *)
(* statuses the callbacks return is modelled from how filter.go and        *)
(* RATIONALE.md use it:                                                    *)
(*   - Continue from a body callback lets the chunk, everything Envoy has  *)
(*     buffered and headers still held go on to the next filter;           *)
(*   - StopAndBuffer keeps the chunk until Continue{Request,Response};     *)
(*   - the worker runs one callback or scheduled closure at a time, and no *)
(*     closure after the stream is complete;                               *)
(*   - upstream answers only once it has been sent the request headers,    *)
(*     and after a local reply no further data callback is made.           *)
(***************************************************************************)
EXTENDS Naturals, Sequences

CONSTANTS
  Cap,      \* capacity of a bodyPipe channel (16 in the code)
  MaxReq,   \* bound: chunks of a request body
  MaxResp,  \* bound: chunks of a response body
  Batch,    \* bound: chunks one body callback carries
  Limit,    \* chunks that reach the threshold given to LimitBody
  Plans     \* the plans this instance considers

\* What the user's handlers do, and the ResponseMode fixed at registration.
\*  body:  how the request handler treats r.Body
\*  out:   returns (the request is forwarded) or calls w.Send first
\*  panic: the handler that panics, after it has done everything else
\*  resp:  no ResponseFunc, or how it treats its r.Body
Plan == [body  : {"read", "skip", "limit", "partial"},
         out   : {"forward", "send"},
         panic : {"no", "request", "response"},
         resp  : {"none", "read", "skip", "partial"},
         mode  : {"passthrough", "observe", "buffer"}]

ASSUME CapAssumption   == Cap \in Nat \ {0}
ASSUME BoundAssumption == MaxReq \in Nat /\ MaxResp \in Nat /\ Batch \in Nat
ASSUME LimitAssumption == Limit \in Nat \ {0}
ASSUME PlansAssumption == Plans \subseteq Plan

VARIABLES
  plan,
  \* Envoy's side of the stream
  req, resp,        \* a Half each: see below
  local,            \* SendLocalResponse has run
  sched,            \* closures given to scheduler.Schedule and not yet run
  wk,               \* what the worker thread is doing
  emitted,          \* metrics handed to Envoy
  \* handlerFilter
  cancelled,        \* f.ctx is done
  bodyDone, bodySkip, headDone, respBodyDone,
  reqPipe, respPipe,
  respHeadersCh,    \* number of headers in the channel, 0 or 1
  rw,               \* responseWriterImpl: responded, and metrics queued
  \* the goroutine
  pc, reqGot, respGot

envoyVars == <<req, resp, local, emitted>>
flagVars  == <<bodyDone, bodySkip, headDone, respBodyDone>>
pipeVars  == <<reqPipe, respPipe, respHeadersCh>>
goVars    == <<pc, reqGot, respGot, rw>>
vars == <<plan, envoyVars, sched, wk, cancelled, flagVars, pipeVars, goVars>>

\* One direction of the stream as Envoy sees it: are the headers held at this
\* filter or sent on; chunks delivered to the filter; was the last chunk among
\* them; is data buffered here; how often the filter called Continue{Request,
\* Response}.
Half == [hdr : {"idle", "held", "sent"}, in : Nat, end : BOOLEAN,
         buf : BOOLEAN, cont : Nat]
NoHalf == [hdr |-> "idle", in |-> 0, end |-> FALSE, buf |-> FALSE, cont |-> 0]

Pipe == [len : 0..Cap, closed : BOOLEAN]

Worker == [at : {"idle", "reqSend", "respSend", "complete", "gone"},
           left : Nat, end : BOOLEAN]
Idle == [at |-> "idle", left |-> 0, end |-> FALSE]
Sending(at, n, endStream) == [at |-> at, left |-> n, end |-> endStream]
OneSent(w) == [w EXCEPT !.left = @ - 1]

\* The goroutine's places.  The four body places are named as the plan's.
ReadingReq  == {"read", "limit", "partial"}
ReadingResp == {"respRead", "respPartial"}
ResponsePhase == ReadingResp \cup {"respSkip", "respSkipClose", "respAct",
                                   "respFinish"}
Places == ReadingReq \cup ResponsePhase \cup
          {"none", "skip", "skipClose", "limitClose", "act", "finish",
           "await", "panicked", "done"}

Closures == {"finish", "local", "recover", "resp"}

Init ==
  /\ plan \in Plans
  /\ req = NoHalf /\ resp = NoHalf
  /\ local = FALSE /\ sched = <<>> /\ wk = Idle /\ emitted = 0
  /\ cancelled = FALSE
  /\ bodyDone = FALSE /\ bodySkip = FALSE
  /\ headDone = FALSE /\ respBodyDone = FALSE
  /\ reqPipe = [len |-> 0, closed |-> FALSE]
  /\ respPipe = [len |-> 0, closed |-> FALSE]
  /\ respHeadersCh = 0
  /\ rw = [responded |-> FALSE, metrics |-> 0]
  /\ pc = "none" /\ reqGot = 0 /\ respGot = 0

-----------------------------------------------------------------------------
(***************************************************************************)
(* Envoy's reaction to a status, and the pipe.                             *)
(***************************************************************************)

Continue(half) == [half EXCEPT !.hdr = "sent", !.buf = FALSE]
Announce(half, hdr, endStream) ==
  [half EXCEPT !.hdr = hdr, !.end = endStream]
StopAndBuffer(half) == [half EXCEPT !.buf = TRUE]
Deliver(half, n, endStream) ==
  [half EXCEPT !.in = @ + n, !.end = endStream]

\* ContinueRequest and ContinueResponse.
Resume(half) == [Continue(half) EXCEPT !.cont = @ + 1]

Put(p)   == [p EXCEPT !.len = @ + 1]
Take(p)  == [p EXCEPT !.len = @ - 1]
Close(p) == [p EXCEPT !.closed = TRUE]

\* A mutant: EOF is seen before the chunks still queued.
EOFBeforeDrain(p) == p.closed
\* bodyReader.Read: done is observed only when no chunk is queued.
AtEOF(p) == p.closed /\ p.len = 0

\* Envoy may make a data callback for this half now.
MayDeliver(half) ==
  wk.at = "idle" /\ half.hdr # "idle" /\ ~half.end /\ ~local

-----------------------------------------------------------------------------
(***************************************************************************)
(* Callbacks on the worker thread.  A callback that pushes chunks runs     *)
(* until it returns; wk holds what it still has to do.                     *)
(***************************************************************************)

OnRequestHeaders(endStream) ==
  /\ req.hdr = "idle"
  /\ req' = Announce(req, "held", endStream)
  /\ reqPipe' = IF endStream THEN Close(reqPipe) ELSE reqPipe
  /\ bodyDone' = endStream
  /\ pc' = plan.body
  /\ UNCHANGED <<plan, resp, local, emitted, sched, wk, cancelled, bodySkip,
                 headDone, respBodyDone, respPipe, respHeadersCh, reqGot,
                 respGot, rw>>

\* The flags only ever rise and each one of them leads to Continue, so reading
\* them together at the start is as good as one after the other.
OnRequestBody(n, endStream) ==
  /\ MayDeliver(req)
  /\ n > 0 \/ endStream
  /\ req.in + n <= MaxReq
  /\ \/ /\ bodyDone \/ bodySkip \/ headDone
        /\ req' = Continue(Deliver(req, n, endStream))
        /\ bodyDone' = (bodyDone \/ endStream)
        /\ UNCHANGED wk
     \/ /\ ~(bodyDone \/ bodySkip \/ headDone)
        /\ req' = Deliver(req, n, endStream)
        /\ wk' = Sending("reqSend", n, endStream)
        /\ UNCHANGED bodyDone
  /\ UNCHANGED <<plan, resp, local, emitted, sched, cancelled, bodySkip,
                 headDone, respBodyDone, pipeVars, goVars>>

\* A mutant: the channel has no capacity limit.
SendWithoutRoom ==
  /\ wk.at = "reqSend" /\ wk.left > 0
  /\ reqPipe' = Put(reqPipe)
  /\ wk' = OneSent(wk)
  /\ UNCHANGED <<plan, envoyVars, sched, cancelled, flagVars, respPipe,
                 respHeadersCh, goVars>>
\* bodyPipe.send: the select takes any ready case, so a chunk may still be
\* queued on a closed pipe, and a full one that is not closed blocks.
SendRequestChunk ==
  /\ wk.at = "reqSend" /\ wk.left > 0
  /\ reqPipe.len < Cap
  /\ reqPipe' = Put(reqPipe)
  /\ wk' = OneSent(wk)
  /\ UNCHANGED <<plan, envoyVars, sched, cancelled, flagVars, respPipe,
                 respHeadersCh, goVars>>

RequestSendRefused ==
  /\ wk.at = "reqSend" /\ wk.left > 0
  /\ reqPipe.closed \/ cancelled
  /\ req' = Continue(req)
  /\ wk' = Idle
  /\ UNCHANGED <<plan, resp, local, emitted, sched, cancelled, flagVars,
                 pipeVars, goVars>>

\* A mutant: the end of the body is not passed on to the reader.
EndOfRequestForgotten ==
  /\ wk.at = "reqSend" /\ wk.left = 0
  /\ req' = StopAndBuffer(req)
  /\ wk' = Idle
  /\ UNCHANGED <<plan, resp, local, emitted, sched, cancelled, flagVars,
                 pipeVars, goVars>>
\* A mutant: the request body is streamed on while the handler reads it.
RequestBodyContinues ==
  /\ wk.at = "reqSend" /\ wk.left = 0
  /\ bodyDone' = (bodyDone \/ wk.end)
  /\ reqPipe' = IF wk.end /\ ~bodyDone THEN Close(reqPipe) ELSE reqPipe
  /\ req' = Continue(req)
  /\ wk' = Idle
  /\ UNCHANGED <<plan, resp, local, emitted, sched, cancelled, bodySkip,
                 headDone, respBodyDone, respPipe, respHeadersCh, goVars>>
RequestBodyReturns ==
  /\ wk.at = "reqSend" /\ wk.left = 0
  /\ bodyDone' = (bodyDone \/ wk.end)
  /\ reqPipe' = IF wk.end /\ ~bodyDone THEN Close(reqPipe) ELSE reqPipe
  /\ req' = StopAndBuffer(req)
  /\ wk' = Idle
  /\ UNCHANGED <<plan, resp, local, emitted, sched, cancelled, bodySkip,
                 headDone, respBodyDone, respPipe, respHeadersCh, goVars>>

OnResponseHeaders(endStream) ==
  /\ wk.at = "idle" /\ req.hdr = "sent" /\ ~local
  /\ resp.hdr = "idle"
  /\ LET seen == plan.resp # "none" IN
     /\ resp' = Announce(resp,
                  IF seen /\ plan.mode # "observe" THEN "held" ELSE "sent",
                  endStream)
     /\ respHeadersCh' = IF seen THEN respHeadersCh + 1 ELSE 0
     /\ respBodyDone' = (respBodyDone \/ (seen /\ endStream))
     /\ respPipe' = IF seen /\ endStream /\ ~respBodyDone
                    THEN Close(respPipe) ELSE respPipe
  /\ UNCHANGED <<plan, req, local, emitted, sched, wk, cancelled, bodyDone,
                 bodySkip, headDone, reqPipe, goVars>>

\* respBodySkip is not a variable: SkipBody sets respBodyDone before it, and
\* OnResponseBody reads respBodyDone first, so the second test is never reached
\* with another answer.
OnResponseBody(n, endStream) ==
  /\ MayDeliver(resp)
  /\ n > 0 \/ endStream
  /\ resp.in + n <= MaxResp
  /\ LET through == plan.resp = "none" \/ respBodyDone IN
     \/ /\ through \/ plan.mode = "passthrough"
        /\ resp' = Continue(Deliver(resp, n, endStream))
        /\ respBodyDone' = (respBodyDone \/ (~through /\ endStream))
        /\ UNCHANGED wk
     \/ /\ ~through /\ plan.mode # "passthrough"
        /\ resp' = Deliver(resp, n, endStream)
        /\ wk' = Sending("respSend", n, endStream)
        /\ UNCHANGED respBodyDone
  /\ UNCHANGED <<plan, req, local, emitted, sched, cancelled, bodyDone,
                 bodySkip, headDone, pipeVars, goVars>>

SendResponseChunk ==
  /\ wk.at = "respSend" /\ wk.left > 0
  /\ respPipe.len < Cap
  /\ respPipe' = Put(respPipe)
  /\ wk' = OneSent(wk)
  /\ UNCHANGED <<plan, envoyVars, sched, cancelled, flagVars, reqPipe,
                 respHeadersCh, goVars>>

ResponseSendRefused ==
  /\ wk.at = "respSend" /\ wk.left > 0
  /\ respPipe.closed \/ cancelled
  /\ resp' = Continue(resp)
  /\ wk' = Idle
  /\ UNCHANGED <<plan, req, local, emitted, sched, cancelled, flagVars,
                 pipeVars, goVars>>

\* A mutant: Buffer mode taps the body like Observe and lets it flow.
ResponseBodyContinues ==
  /\ wk.at = "respSend" /\ wk.left = 0
  /\ respBodyDone' = (respBodyDone \/ wk.end)
  /\ respPipe' = IF wk.end /\ ~respBodyDone THEN Close(respPipe) ELSE respPipe
  /\ resp' = Continue(resp)
  /\ wk' = Idle
  /\ UNCHANGED <<plan, req, local, emitted, sched, cancelled, bodyDone,
                 bodySkip, headDone, reqPipe, respHeadersCh, goVars>>
ResponseBodyReturns ==
  /\ wk.at = "respSend" /\ wk.left = 0
  /\ respBodyDone' = (respBodyDone \/ wk.end)
  /\ respPipe' = IF wk.end /\ ~respBodyDone THEN Close(respPipe) ELSE respPipe
  /\ resp' = IF plan.mode = "buffer" THEN StopAndBuffer(resp) ELSE Continue(resp)
  /\ wk' = Idle
  /\ UNCHANGED <<plan, req, local, emitted, sched, cancelled, bodyDone,
                 bodySkip, headDone, reqPipe, respHeadersCh, goVars>>

\* OnStreamComplete, at any time once the stream has begun: cancel, then the
\* closing of whatever is still open.
Cancel ==
  /\ wk.at = "idle" /\ req.hdr # "idle"
  /\ cancelled' = TRUE
  /\ wk' = Sending("complete", 0, FALSE)
  /\ UNCHANGED <<plan, envoyVars, sched, flagVars, pipeVars, goVars>>

\* A mutant: only the context is cancelled, a parked reader is left behind.
OnStreamCompleteNoClose ==
  /\ wk.at = "complete"
  /\ wk' = Sending("gone", 0, FALSE)
  /\ UNCHANGED <<plan, envoyVars, sched, cancelled, flagVars, pipeVars, goVars>>
OnStreamComplete ==
  /\ wk.at = "complete"
  /\ bodySkip' = (bodySkip \/ ~bodyDone)
  /\ reqPipe' = IF ~bodyDone /\ ~bodySkip THEN Close(reqPipe) ELSE reqPipe
  /\ respBodyDone' = (respBodyDone \/ plan.resp # "none")
  /\ respPipe' = IF plan.resp # "none" /\ ~respBodyDone
                 THEN Close(respPipe) ELSE respPipe
  /\ wk' = Sending("gone", 0, FALSE)
  /\ UNCHANGED <<plan, envoyVars, sched, cancelled, bodyDone, headDone,
                 respHeadersCh, goVars>>

-----------------------------------------------------------------------------
(***************************************************************************)
(* Closures the goroutine scheduled, run on the worker thread.             *)
(***************************************************************************)

NextClosure(c) ==
  /\ wk.at = "idle" /\ sched # <<>> /\ Head(sched) = c
  /\ sched' = Tail(sched)
  /\ UNCHANGED <<plan, wk, cancelled, flagVars, pipeVars, goVars>>

\* A mutant: the closure forwards the request even after w.Send.
FinishRequestAlways ==
  /\ NextClosure("finish")
  /\ req' = Resume(req)
  /\ emitted' = rw.metrics
  /\ UNCHANGED <<resp, local>>
\* The closure run() schedules after the handler: queued header mutations,
\* metadata, route clearing and metrics, then ContinueRequest.
FinishRequest ==
  /\ NextClosure("finish")
  /\ req' = IF rw.responded THEN req ELSE Resume(req)
  /\ emitted' = IF rw.responded THEN emitted ELSE rw.metrics
  /\ UNCHANGED <<resp, local>>

SendLocalResponse ==
  /\ NextClosure("local")
  /\ local' = TRUE
  /\ UNCHANGED <<req, resp, emitted>>

\* A mutant: the recovery only logs.
RecoverLogsOnly ==
  /\ NextClosure("recover")
  /\ UNCHANGED envoyVars
RecoverRequest ==
  /\ NextClosure("recover")
  /\ req' = IF rw.responded THEN req ELSE Resume(req)
  /\ UNCHANGED <<resp, local, emitted>>

FinishResponse ==
  /\ NextClosure("resp")
  /\ resp' = Resume(resp)
  /\ UNCHANGED <<req, local, emitted>>

-----------------------------------------------------------------------------
(***************************************************************************)
(* The goroutine: run(), the handlers it calls and what they call back.    *)
(***************************************************************************)

\* One chunk received by r.Body.  LimitBody's callback runs inside the Read
\* that crosses the threshold: headDone first, the close in a step of its own.
ReadRequest ==
  /\ pc \in ReadingReq /\ reqPipe.len > 0
  /\ reqPipe' = Take(reqPipe)
  /\ reqGot' = reqGot + 1
  /\ LET reached == pc = "limit" /\ reqGot + 1 = Limit IN
     /\ headDone' = (headDone \/ reached)
     /\ pc' = IF reached THEN "limitClose" ELSE pc
  /\ UNCHANGED <<plan, envoyVars, sched, wk, cancelled, bodyDone, bodySkip,
                 respBodyDone, respPipe, respHeadersCh, respGot, rw>>

LimitReached ==
  /\ pc = "limitClose"
  /\ reqPipe' = Close(reqPipe)
  /\ pc' = "act"
  /\ UNCHANGED <<plan, envoyVars, sched, wk, cancelled, flagVars, respPipe,
                 respHeadersCh, reqGot, respGot, rw>>

RequestEOF ==
  /\ pc \in ReadingReq /\ AtEOF(reqPipe)
  /\ pc' = "act"
  /\ UNCHANGED <<plan, envoyVars, sched, wk, cancelled, flagVars, pipeVars,
                 reqGot, respGot, rw>>

\* A handler that does not care for the rest of the body, or for any of it.
StopReading ==
  /\ pc \in {"partial", "respPartial"}
  /\ pc' = IF pc = "partial" THEN "act" ELSE "respAct"
  /\ UNCHANGED <<plan, envoyVars, sched, wk, cancelled, flagVars, pipeVars,
                 reqGot, respGot, rw>>

\* r.SkipBody: the CAS, then the store and the close.
SkipBody ==
  /\ pc = "skip"
  /\ bodySkip' = TRUE
  /\ pc' = IF bodySkip THEN "act" ELSE "skipClose"
  /\ UNCHANGED <<plan, envoyVars, sched, wk, cancelled, bodyDone, headDone,
                 respBodyDone, pipeVars, reqGot, respGot, rw>>

\* A mutant: SkipBody raises its flags and does not close the pipe.
SkipLeavesPipeOpen ==
  /\ pc = "skipClose"
  /\ bodyDone' = TRUE
  /\ pc' = "act"
  /\ UNCHANGED <<plan, envoyVars, sched, wk, cancelled, bodySkip, headDone,
                 respBodyDone, pipeVars, reqGot, respGot, rw>>
SkipCloses ==
  /\ pc = "skipClose"
  /\ bodyDone' = TRUE
  /\ reqPipe' = Close(reqPipe)
  /\ pc' = "act"
  /\ UNCHANGED <<plan, envoyVars, sched, wk, cancelled, bodySkip, headDone,
                 respBodyDone, respPipe, respHeadersCh, reqGot, respGot, rw>>

\* The rest of the request handler: it queues a header mutation (the closure
\* applies it) and a metric, and may answer with Send; then returns or panics.
HandlerActs ==
  /\ pc = "act"
  /\ rw' = [responded |-> plan.out = "send", metrics |-> rw.metrics + 1]
  /\ sched' = IF plan.out = "send" THEN Append(sched, "local") ELSE sched
  /\ pc' = IF plan.panic = "request" THEN "panicked" ELSE "finish"
  /\ UNCHANGED <<plan, envoyVars, wk, cancelled, flagVars, pipeVars, reqGot,
                 respGot>>

\* run() goes on to the response phase only if the request was not answered:
\* no response headers would ever come.
ScheduleFinish ==
  /\ pc = "finish"
  /\ sched' = Append(sched, "finish")
  /\ pc' = IF rw.responded \/ plan.resp = "none" THEN "done" ELSE "await"
  /\ UNCHANGED <<plan, envoyVars, wk, cancelled, flagVars, pipeVars, reqGot,
                 respGot, rw>>

\* run()'s deferred recover, for a panic of either handler.
Recover ==
  /\ pc = "panicked"
  /\ sched' = Append(sched, "recover")
  /\ pc' = "done"
  /\ UNCHANGED <<plan, envoyVars, wk, cancelled, flagVars, pipeVars, reqGot,
                 respGot, rw>>

HeadersArrive ==
  /\ pc = "await" /\ respHeadersCh > 0
  /\ respHeadersCh' = respHeadersCh - 1
  /\ pc' = CASE plan.resp = "read" -> "respRead"
             [] plan.resp = "skip" -> "respSkip"
             [] OTHER              -> "respPartial"
  /\ UNCHANGED <<plan, envoyVars, sched, wk, cancelled, flagVars, reqPipe,
                 respPipe, reqGot, respGot, rw>>

AwaitCancelled ==
  /\ pc = "await" /\ cancelled
  /\ pc' = "done"
  /\ UNCHANGED <<plan, envoyVars, sched, wk, cancelled, flagVars, pipeVars,
                 reqGot, respGot, rw>>

\* In Passthrough the response has no body to read.
ReadResponse ==
  /\ pc \in ReadingResp /\ plan.mode # "passthrough" /\ respPipe.len > 0
  /\ respPipe' = Take(respPipe)
  /\ respGot' = respGot + 1
  /\ UNCHANGED <<plan, envoyVars, sched, wk, cancelled, flagVars, reqPipe,
                 respHeadersCh, pc, reqGot, rw>>

ResponseEOF ==
  /\ pc \in ReadingResp
  /\ plan.mode = "passthrough" \/ AtEOF(respPipe)
  /\ pc' = "respAct"
  /\ UNCHANGED <<plan, envoyVars, sched, wk, cancelled, flagVars, pipeVars,
                 reqGot, respGot, rw>>

SkipResponseBody ==
  /\ pc = "respSkip"
  /\ respBodyDone' = TRUE
  /\ pc' = IF respBodyDone THEN "respAct" ELSE "respSkipClose"
  /\ UNCHANGED <<plan, envoyVars, sched, wk, cancelled, bodyDone, bodySkip,
                 headDone, pipeVars, reqGot, respGot, rw>>

SkipResponseCloses ==
  /\ pc = "respSkipClose"
  /\ respPipe' = Close(respPipe)
  /\ pc' = "respAct"
  /\ UNCHANGED <<plan, envoyVars, sched, wk, cancelled, flagVars, reqPipe,
                 respHeadersCh, reqGot, respGot, rw>>

\* The rest of the response handler: it records a metric and queues a header
\* mutation (dropped unless the mode is Buffer).
ResponseHandlerActs ==
  /\ pc = "respAct"
  /\ rw' = [rw EXCEPT !.metrics = @ + 1]
  /\ pc' = CASE plan.panic = "response" -> "panicked"
             [] plan.panic # "response" /\ plan.mode = "observe" -> "done"
             [] OTHER -> "respFinish"
  /\ UNCHANGED <<plan, envoyVars, sched, wk, cancelled, flagVars, pipeVars,
                 reqGot, respGot>>

\* A mutant: nothing resumes the held response.
ResponseNotResumed ==
  /\ pc = "respFinish"
  /\ pc' = "done"
  /\ UNCHANGED <<plan, envoyVars, sched, wk, cancelled, flagVars, pipeVars,
                 reqGot, respGot, rw>>
ScheduleResponse ==
  /\ pc = "respFinish"
  /\ sched' = Append(sched, "resp")
  /\ pc' = "done"
  /\ UNCHANGED <<plan, envoyVars, wk, cancelled, flagVars, pipeVars, reqGot,
                 respGot, rw>>

-----------------------------------------------------------------------------

Callback ==
  \E endStream \in BOOLEAN :
    \/ OnRequestHeaders(endStream)
    \/ OnResponseHeaders(endStream)
    \/ \E n \in 0..Batch : OnRequestBody(n, endStream) \/ OnResponseBody(n, endStream)

WorkerStep ==
  \/ SendRequestChunk \/ RequestSendRefused \/ RequestBodyReturns
  \/ SendResponseChunk \/ ResponseSendRefused \/ ResponseBodyReturns
  \/ OnStreamComplete

RunScheduled == FinishRequest \/ SendLocalResponse \/ RecoverRequest \/ FinishResponse

Goroutine ==
  \/ ReadRequest \/ LimitReached \/ RequestEOF \/ StopReading
  \/ SkipBody \/ SkipCloses \/ HandlerActs \/ ScheduleFinish \/ Recover
  \/ HeadersArrive \/ AwaitCancelled \/ ReadResponse \/ ResponseEOF
  \/ SkipResponseBody \/ SkipResponseCloses
  \/ ResponseHandlerActs \/ ScheduleResponse

\* The stream is over and its goroutine has ended: nothing is left to do.
Terminated == wk.at = "gone" /\ pc = "done" /\ UNCHANGED vars

Next == Callback \/ WorkerStep \/ Cancel \/ RunScheduled \/ Goroutine \/ Terminated

\* Go schedules every runnable goroutine, the worker thread finishes the
\* callback it is in unless that blocks, and its event loop gets to every
\* closure of a live stream.  The peer owes nothing: callbacks and the end of
\* the stream may never come.
Fairness == WF_vars(Goroutine) /\ WF_vars(WorkerStep) /\ WF_vars(RunScheduled)

Spec == Init /\ [][Next]_vars
FairSpec == Spec /\ Fairness

-----------------------------------------------------------------------------
(***************************************************************************)
(* Properties.                                                             *)
(***************************************************************************)

Booleans ==
  /\ local \in BOOLEAN /\ cancelled \in BOOLEAN
  /\ bodyDone \in BOOLEAN /\ bodySkip \in BOOLEAN
  /\ headDone \in BOOLEAN /\ respBodyDone \in BOOLEAN

\* Every variable has its type; the pipes keep to their capacity, and at most one
\* header map waits for the goroutine.
TypeOK ==
  /\ Booleans
  /\ plan \in Plans
  /\ req \in Half /\ resp \in Half
  /\ sched \in Seq(Closures)
  /\ wk \in Worker /\ emitted \in Nat
  /\ reqPipe \in Pipe /\ respPipe \in Pipe /\ respHeadersCh \in 0..1
  /\ rw \in [responded : BOOLEAN, metrics : Nat]
  /\ pc \in Places /\ reqGot \in Nat /\ respGot \in Nat

\* The chunks of callbacks so far which the worker has yet to push.
Unsent(at) == IF wk.at = at THEN wk.left ELSE 0

\* A handler that reads r.Body to EOF on a live stream has received every chunk
\* of the whole body, whatever the order of sends, reads and the closing of the
\* pipe (filter.go OnRequestBody, body.go).
BodyComplete ==
  (plan.body = "read" /\ pc \notin {"none", "read"} /\ ~cancelled)
    => req.end /\ reqGot = req.in

\* The same for a response handler that reads in Observe or Buffer mode.
RespBodyComplete ==
  (/\ plan.resp = "read" /\ plan.mode # "passthrough"
   /\ pc \in {"respAct", "respFinish"} /\ ~cancelled)
    => resp.end /\ respGot = resp.in

\* A request is not both forwarded by the filter and answered by it, nor
\* resumed twice, whichever closures the worker still has to run.  Only a panic
\* of the response handler makes the recovery resume a request a second time.
SettledOnce ==
  /\ req.cont + (IF local THEN 1 ELSE 0) <=
       (IF plan.panic = "response" THEN 2 ELSE 1)
  /\ resp.cont <= 1

\* When everything the goroutine scheduled has run on a live stream, neither
\* direction is left with headers held or data buffered at this filter: Envoy
\* gets no other prompt to go on.
NothingStranded ==
  (pc = "done" /\ sched = <<>> /\ wk.at = "idle" /\ ~local)
    => /\ req.hdr = "sent" /\ ~req.buf
       /\ resp.hdr # "held" /\ ~resp.buf

\* The response handler and the worker's closure for the request phase never
\* use the response writer at the same time: the closure has run before the
\* goroutine enters the response phase.  (Both touch rw.metricMuts unlocked.)
\* Only where the request body is read to its end: a body streamed past
\* SkipBody or LimitBody can bring the response before the closure, although
\* handler.go says of ResponseFunc that it runs after ContinueRequest has been
\* called.
RwNotShared ==
  (plan.body = "read" /\ pc \in ResponsePhase) =>
    ~\E i \in 1..Len(sched) : sched[i] = "finish"

\* Mutations are applied while they still can be: request headers when the
\* finish closure runs and response headers when that of a Buffer mode
\* ResponseFunc does are held here, if the handler read the body in question to
\* its end (past SkipBody or LimitBody a chunk may have carried them on); and
\* what ReplaceBody replaces is then the whole response body, all of it in
\* Envoy's buffer and none of it sent on.
Ran(c) == sched # <<>> /\ Head(sched) = c /\ sched' = Tail(sched)
MutationsInTime ==
  [][/\ (Ran("finish") /\ ~rw.responded /\ plan.body = "read") => req.hdr = "held"
     /\ (Ran("resp") /\ plan.mode = "buffer" /\ plan.resp = "read") =>
          /\ resp.hdr = "held" /\ resp.end
          /\ resp.in > 0 => resp.buf]_vars

\* A request that w.Send answers is not forwarded upstream (handler.go, the
\* comment of Send).
AnsweredNotForwarded == local => req.hdr # "sent"

\* Every metric a handler records reaches Envoy once the stream's goroutine is
\* done and its closures have run (README.md, "Emit response metrics").
MetricsEmitted ==
  (pc = "done" /\ sched = <<>> /\ wk.at = "idle") => emitted = rw.metrics

\* The filter as the rest of the chain sees it.
Contract == INSTANCE StreamContract WITH
  request  <- IF local THEN "answered"
              ELSE CASE req.hdr = "idle" -> "none"
                     [] req.hdr = "held" -> "held"
                     [] req.hdr = "sent" -> "forwarded",
  response <- CASE resp.hdr = "idle" -> "none"
                [] resp.hdr = "held" -> "held"
                [] resp.hdr = "sent" -> "delivered",
  over     <- cancelled
ImplementsContract == Contract!Spec

\* The goroutine has a step to take, without the worker's help.
CanGoOn ==
  CASE pc \in {"read", "limit"} -> reqPipe.len > 0 \/ reqPipe.closed
    [] pc = "await"             -> respHeadersCh > 0 \/ cancelled
    [] pc = "respRead"          -> \/ plan.mode = "passthrough"
                                   \/ respPipe.len > 0 \/ respPipe.closed
    [] OTHER                    -> pc \notin {"none", "done"}
Blocked(at, p) == wk.at = at /\ wk.left > 0 /\ p.len = Cap /\ ~p.closed

\* Whoever the two sides wait for can go on: a worker that is blocked on a full
\* pipe has a goroutine on its way to reading or closing it, never one that has
\* ended or is itself parked, and after OnStreamComplete no goroutine is parked.
NobodyParked ==
  /\ Blocked("reqSend", reqPipe) \/ Blocked("respSend", respPipe) => CanGoOn
  /\ wk.at = "gone" => CanGoOn \/ pc = "done"

\* A callback that pushes chunks returns: the worker thread, which serves other
\* streams too, is not kept by the handler of this one.
WorkerReturns == wk.at # "idle" ~> wk.at \in {"idle", "gone"}

\* After a disconnect the goroutine ends, wherever it was parked.
GoroutineExits == wk.at = "gone" ~> pc = "done"

\* A request whose last chunk is in is forwarded or answered, unless the stream
\* ends.
RequestSettled == req.end ~> req.hdr = "sent" \/ local \/ cancelled

\* A response whose last chunk is in goes on to the client, unless the stream
\* ends.
ResponseSettled ==
  resp.end ~> (resp.hdr = "sent" /\ ~resp.buf) \/ cancelled
=============================================================================
