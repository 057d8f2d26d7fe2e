----------------------------- MODULE HandlerCalls -----------------------------
(***************************************************************************)
(* The calls by which a request handler blocks on the worker thread:       *)
(* w.Stream and the StreamWriter's Flush and Close (stream.go), and Do     *)
(* (callout.go).  Each schedules a closure and waits for what the closure, *)
(* or Envoy on its behalf, puts into a channel made for this call.  The    *)
(* worker runs closures only between body callbacks, whose sends wait for  *)
(* the handler in turn unless it has called SkipBody, and none once the    *)
(* stream is gone.  Stream, Flush and Do also give up when the context     *)
(* their caller passed is done, and their closure or callout stays behind. *)
(*                                                                         *)
(* Calls are numbered as the handler makes them; a call's number stands    *)
(* for its channel and, for Flush, its data.                               *)
(***************************************************************************)
EXTENDS Naturals, Sequences

CONSTANTS
  Cap,       \* capacity of the body pipe
  MaxCalls,  \* bound: calls of one handler before Close
  MaxChunks  \* bound: body chunks of one request

ASSUME CapAssumption   == Cap \in Nat \ {0}
ASSUME BoundAssumption == MaxCalls \in Nat /\ MaxChunks \in Nat

Calls == 1..(MaxCalls + 1)

VARIABLES
  cancelled,  \* the handler's ctx is done
  wk,         \* worker: "idle", "sending" a body chunk, or "gone"
  sched,      \* scheduled closures, as [kind, id]
  chunks,     \* body chunks delivered so far
  queued,     \* of them, in the pipe
  skipped,    \* SkipBody was called
  responded,  \* responseWriterImpl.responded
  go,         \* the handler: where it is, and its call's number
  calls,      \* calls made
  open,       \* the handler holds a StreamWriter it has not closed
  flushed,    \* Flush calls that returned nil
  acks,       \* calls whose done channel the worker has closed
  results,    \* calls for which a callout result is in the channel
  callouts,   \* calls whose callout Envoy has under way
  wire,       \* what Envoy was told to send to the client
  forwarded   \* by whom Envoy was told to send the request on upstream

envoyVars   == <<callouts, wire, forwarded>>
bodyVars    == <<chunks, queued, skipped>>
handlerVars == <<responded, go, calls, open, flushed>>
vars == <<cancelled, wk, sched, bodyVars, handlerVars, acks, results, envoyVars>>

Init ==
  /\ cancelled = FALSE /\ wk = "idle" /\ sched = <<>>
  /\ chunks = 0 /\ queued = 0 /\ skipped = FALSE
  /\ responded = FALSE /\ go = [at |-> "start", id |-> 0] /\ calls = 0
  /\ open = FALSE /\ flushed = {}
  /\ acks = {} /\ results = {} /\ callouts = {} /\ wire = <<>>
  /\ forwarded = {}

-----------------------------------------------------------------------------
(***************************************************************************)
(* The handler's goroutine.                                                *)
(***************************************************************************)

At(place) == [at |-> place, id |-> 0]

\* A mutant: the handler does not call SkipBody.
KeepsBody ==
  /\ go.at = "start"
  /\ go' = At("run")
  /\ UNCHANGED <<cancelled, wk, sched, bodyVars, responded, calls, open,
                 flushed, acks, results, envoyVars>>
\* The comment of Stream asks for SkipBody before it.
SkipBody ==
  /\ go.at = "start"
  /\ skipped' = TRUE
  /\ go' = At("run")
  /\ UNCHANGED <<cancelled, wk, sched, chunks, queued, responded, calls, open,
                 flushed, acks, results, envoyVars>>

\* The handler makes a call that waits at the given place for its closure.
Blocks(place, kind) ==
  /\ go.at = "run"
  /\ calls < MaxCalls \/ kind = "end"
  /\ calls' = calls + 1
  /\ sched' = Append(sched, [kind |-> kind, id |-> calls + 1])
  /\ go' = [at |-> place, id |-> calls + 1]
  /\ UNCHANGED <<cancelled, wk, bodyVars, flushed, acks, results, envoyVars>>

\* w.Stream, refused if the handler has responded already.
CallStream ==
  /\ ~responded
  /\ responded' = TRUE
  /\ Blocks("stream", "headers")
  /\ UNCHANGED open

CallFlush == open /\ Blocks("flush", "data") /\ UNCHANGED <<responded, open>>

\* Called once, as a deferred call is.
CallClose == open /\ Blocks("close", "end") /\ open' = FALSE /\ UNCHANGED responded

CallDo == Blocks("do", "callout") /\ UNCHANGED <<responded, open>>

\* A mutant: Flush returns as soon as its closure is scheduled.
FlushAtOnce ==
  /\ go.at = "flush" \/ (go.at \in {"stream", "close"} /\ go.id \in acks)
  /\ open' = (open \/ go.at = "stream")
  /\ flushed' = IF go.at = "flush" THEN flushed \cup {go.id} ELSE flushed
  /\ go' = At("run")
  /\ UNCHANGED <<cancelled, wk, sched, bodyVars, responded, calls, acks,
                 results, envoyVars>>
\* The closure has run: Stream, Flush and Close return without an error.
Acknowledged ==
  /\ go.at \in {"stream", "flush", "close"} /\ go.id \in acks
  /\ open' = (open \/ go.at = "stream")
  /\ flushed' = IF go.at = "flush" THEN flushed \cup {go.id} ELSE flushed
  /\ go' = At("run")
  /\ UNCHANGED <<cancelled, wk, sched, bodyVars, responded, calls, acks,
                 results, envoyVars>>

CalloutReturns ==
  /\ go.at = "do" /\ go.id \in results
  /\ results' = results \ {go.id}
  /\ go' = At("run")
  /\ UNCHANGED <<cancelled, wk, sched, bodyVars, responded, calls, open,
                 flushed, acks, envoyVars>>

\* A mutant: Do waits for its result only.
TimesOutNotDo ==
  /\ go.at \in {"stream", "flush"}
  /\ go' = At("run")
  /\ UNCHANGED <<cancelled, wk, sched, bodyVars, responded, calls, open,
                 flushed, acks, results, envoyVars>>
\* The context passed to Stream, Flush or Do is done and the call returns
\* ctx.Err(), whatever becomes of its closure or callout; Close has no such case.
TimesOut ==
  /\ go.at \in {"stream", "flush", "do"}
  /\ go' = At("run")
  /\ UNCHANGED <<cancelled, wk, sched, bodyVars, responded, calls, open,
                 flushed, acks, results, envoyVars>>

\* That context is, or derives from, the stream's.
ContextDone == cancelled /\ TimesOut

\* The handler returns, with its StreamWriter closed, and run() schedules the
\* closure that forwards the request unless it has responded.
Return ==
  /\ go.at = "run" /\ ~open
  /\ sched' = Append(sched, [kind |-> "finish", id |-> 0])
  /\ go' = At("done")
  /\ UNCHANGED <<cancelled, wk, bodyVars, responded, calls, open, flushed,
                 acks, results, envoyVars>>

-----------------------------------------------------------------------------
(***************************************************************************)
(* The worker thread.                                                      *)
(***************************************************************************)

Runs(kind) ==
  /\ wk = "idle" /\ sched # <<>> /\ Head(sched).kind = kind
  /\ sched' = Tail(sched)
  /\ UNCHANGED <<cancelled, wk, bodyVars, handlerVars>>

\* SendResponseHeaders or SendResponseData, then the done channel is closed.
RunSend(kind) ==
  /\ Runs(kind)
  /\ wire' = Append(wire, Head(sched))
  /\ acks' = acks \cup {Head(sched).id}
  /\ UNCHANGED <<results, callouts, forwarded>>

\* HttpCallout starts, or fails and the error is the call's result.
RunCallout ==
  /\ Runs("callout")
  /\ \/ callouts' = callouts \cup {Head(sched).id} /\ UNCHANGED results
     \/ results' = results \cup {Head(sched).id} /\ UNCHANGED callouts
  /\ UNCHANGED <<acks, wire, forwarded>>

\* A mutant: the closure forwards a request that was streamed an answer.
RunFinishAlways ==
  /\ Runs("finish")
  /\ forwarded' = forwarded \cup {"finish"}
  /\ UNCHANGED <<acks, results, callouts, wire>>
\* ContinueRequest, unless the handler has responded.
RunFinish ==
  /\ Runs("finish")
  /\ forwarded' = forwarded \cup (IF responded THEN {} ELSE {"finish"})
  /\ UNCHANGED <<acks, results, callouts, wire>>

\* Envoy ends a callout with an answer, a reset or the timeout.
OnHttpCalloutDone(id) ==
  /\ wk = "idle" /\ id \in callouts
  /\ callouts' = callouts \ {id}
  /\ results' = results \cup {id}
  /\ UNCHANGED <<cancelled, wk, sched, bodyVars, handlerVars, acks, wire,
                 forwarded>>

\* One chunk of a body callback.  After SkipBody it returns Continue, which
\* sends the request's headers on if they are still held.
OnRequestBody ==
  /\ wk = "idle" /\ chunks < MaxChunks
  /\ chunks' = chunks + 1
  /\ wk' = IF skipped THEN "idle" ELSE "sending"
  /\ forwarded' = forwarded \cup (IF skipped THEN {"body"} ELSE {})
  /\ UNCHANGED <<cancelled, sched, queued, skipped, handlerVars, acks, results,
                 callouts, wire>>

\* The chunk is queued, or SkipBody has closed the pipe: then Continue too.
SendReturns ==
  /\ wk = "sending"
  /\ \/ queued < Cap /\ queued' = queued + 1 /\ UNCHANGED forwarded
     \/ skipped /\ forwarded' = forwarded \cup {"body"} /\ UNCHANGED queued
  /\ wk' = "idle"
  /\ UNCHANGED <<cancelled, sched, chunks, skipped, handlerVars, acks, results,
                 callouts, wire>>

\* OnStreamComplete cancels the context; no closure runs any more.
OnStreamComplete ==
  /\ wk = "idle"
  /\ cancelled' = TRUE
  /\ wk' = "gone"
  /\ UNCHANGED <<sched, bodyVars, handlerVars, acks, results, envoyVars>>

-----------------------------------------------------------------------------

Handler ==
  \/ SkipBody \/ CallStream \/ CallFlush \/ CallClose \/ CallDo
  \/ Acknowledged \/ CalloutReturns \/ ContextDone \/ Return

RunScheduled ==
  \/ \E kind \in {"headers", "data", "end"} : RunSend(kind)
  \/ RunCallout \/ RunFinish

CalloutDone == \E id \in Calls : OnHttpCalloutDone(id)

Next ==
  \/ Handler \/ TimesOut \/ RunScheduled \/ CalloutDone
  \/ OnRequestBody \/ SendReturns \/ OnStreamComplete

\* Runnable goroutines run, the worker gets to its closures, and Envoy ends
\* every callout, by its timeout if need be.  Nothing makes the caller's own
\* context time out, so TimesOut has no fairness.
Fairness ==
  /\ WF_vars(Handler) /\ WF_vars(SendReturns)
  /\ WF_vars(RunScheduled) /\ WF_vars(CalloutDone)

Spec == Init /\ [][Next]_vars
FairSpec == Spec /\ Fairness

-----------------------------------------------------------------------------
(***************************************************************************)
(* Properties.                                                             *)
(***************************************************************************)

Kinds == {"headers", "data", "end", "callout", "finish"}
Closure == [kind : Kinds, id : Calls \cup {0}]

\* Every variable has its type.
TypeOK ==
  /\ cancelled \in BOOLEAN /\ wk \in {"idle", "sending", "gone"}
  /\ sched \in Seq(Closure) /\ wire \in Seq(Closure)
  /\ chunks \in 0..MaxChunks /\ queued \in 0..Cap /\ skipped \in BOOLEAN
  /\ responded \in BOOLEAN /\ open \in BOOLEAN
  /\ go \in [at : {"start", "run", "stream", "flush", "close", "do", "done"},
             id : Calls \cup {0}]
  /\ calls \in Calls \cup {0}
  /\ flushed \subseteq Calls /\ acks \subseteq Calls
  /\ results \subseteq Calls /\ callouts \subseteq Calls
  /\ forwarded \subseteq {"body", "finish"}

\* The client gets the headers first, then the data in the order of the Flush
\* calls, then at most one end, whatever calls failed or timed out in between;
\* and the closure of run() does not continue a request that was streamed an
\* answer.  (Body callbacks may forward it, although handler.go says of Stream
\* that the request is not forwarded: after the SkipBody which the same comment
\* asks for, "body" is in forwarded.)
WireWellFormed ==
  /\ "finish" \in forwarded => wire = <<>>
  /\ \A i \in 1..Len(wire) :
       /\ wire[i].kind \in {"headers", "data", "end"}
       /\ wire[i].kind = "headers" <=> i = 1
       /\ wire[i].kind = "end" => i = Len(wire)
       /\ \A j \in 1..(i - 1) : wire[j].id < wire[i].id

\* Flush returns nil only for data Envoy has been handed: the backpressure the
\* comment of StreamWriter promises.
FlushMeansSent ==
  \A id \in flushed : \E i \in 1..Len(wire) : wire[i] = [kind |-> "data", id |-> id]

\* No wake-up is lost, which is what liveness rests on: a call that waits finds
\* its answer in its channel, or Envoy is at work on it, or its closure is still
\* scheduled; and the worker, which is to run it, does not wait for the handler
\* in turn, nor has it gone without cancelling the context.
NoAnswerLost ==
  LET Due == \E i \in 1..Len(sched) : sched[i].id = go.id IN
  /\ go.at \in {"stream", "flush", "close"} => go.id \in acks \/ Due
  /\ go.at = "do" => go.id \in results \cup callouts \/ Due
  /\ wk = "sending" /\ go.at \in {"stream", "flush", "close", "do"} => skipped
  /\ wk = "gone" => cancelled

\* Stream, Flush and Do return, with or without a disconnect.
CallsReturn ==
  go.at \in {"stream", "flush", "do"} ~> go.at \notin {"stream", "flush", "do"}

\* A live stream's Close returns.
CloseReturns == go.at = "close" ~> go.at # "close" \/ cancelled

\* After a disconnect the handler's goroutine ends (RATIONALE.md, "Concurrency
\* Invariants": every handler goroutine has a bounded exit path).
ExitsAfterDisconnect == cancelled ~> go.at = "done"
===============================================================================
