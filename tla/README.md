# jisr in TLA+

jisr lets Envoy filters be written as blocking Go functions. A goroutine per
stream runs the user's handlers; Envoy's worker thread delivers headers and
body chunks to it through channels and runs, later, the closures it schedules.
Nearly everything that can go wrong lies between those two threads. This
directory holds models of that machinery and of the parts around it that have
state, the TLC runs that check them, and proofs of the properties that matter
most.

`PROJECT.json` lists every run, its properties, a mutant of the code that each
property catches, the source lines behind each definition, the findings, the
hazards and the theorems.

## The system

| Part | State | Operations | What it must guarantee |
|------|-------|-----------|------------------------|
| `filter.go` `handlerFilter` | flags `bodyDone`, `bodySkip`, `headDone`, `respBodyDone`; two pipes; `respHeadersCh`; the response writer's queues | Envoy's callbacks; `run()`; scheduled closures; `SkipBody`, `LimitBody`, `Send` | whole bodies; each direction settled once, in time; nobody waits forever |
| `body.go` `bodyPipe`, `bodyReader` | channel, `done`; current chunk, offset, limit, eof | `send`, `close`, `Read` | bytes in order, honest EOF, exact limit |
| `stream.go`, `callout.go` | one channel per call | `Stream`, `Flush`, `Close`, `Do` | a well-formed response; calls return |
| `handler.go` registries, `configFactory` | seven maps | `Register*`, `Unregister`, the factory map, `Create` | together one table; a built filter can serve |
| `server.Group` | actors, context, `WaitGroup`, `Once` | `Add*`, `Start`, `Stop` | all actors end together; `Stop` means stopped |
| `buffer.Ring`, `buffer.HeadTail` | slab, ring | `Write`, `Head`, `Tail`, `Reset` | the two ends of a stream |
| `examples/sse-tap` | a `HeadTail` per response | read, `extractUsage` | the first usage that each end holds |
| `examples/ws-proxy` session | two connections, `errc`, the tap | accept, dial, pumps, record | sessions end; usage is recorded |
| `examples/ws-proxy` factory | a listener and an exporter per configuration; one flag per process | `Create`, `OnDestroy` | a flag that is up means an exporter; sessions are counted across reloads |
| `examples/multi-actor` | two listeners, a `Group`, probe connections | `Create`, `OnDestroy` | what `Create` acquired is released |

Interactions: Envoy calls the filter on a worker thread that serves many
streams; the filter's body callbacks block in `bodyPipe.send` when 16 chunks
are queued; the goroutine blocks in `Read`, on `respHeadersCh`, in `Flush`,
`Close`, `Stream` and `Do`; closures run on the worker, in order, between
callbacks, and not at all once the stream is gone. `OnStreamComplete` cancels
the context and closes the pipes. Raw filters bypass all this and use `Group`.

## Modules

| Module | Models | Run |
|--------|--------|-----|
| `HandlerFilter`, `MCHandlerFilter` | one stream, request and response | `filter` and three counterexamples |
| `StreamContract` | what a filter promises the chain; `HandlerFilter` refines it | in `filter` |
| `BodyReader` | the pipe, byte by byte | `body_reader` |
| `ByteStream` | what `r.Body` promises; `BodyReader` refines it, and so does the request body of `HandlerFilter` | in `body_reader` |
| `HandlerCalls` | the blocking calls of a handler | `handler_calls`, `handler_calls_close` |
| `Group` | `server.Group` | in `multi_actor` |
| `MultiActor` | a configuration of `examples/multi-actor` around a `Group`, which it extends | `multi_actor` |
| `Registry` | registration and `Create` | `registry` |
| `FilterTable` | one table of filters; `Registry` refines it | in `registry` |
| `HeadTail` | `Ring` inside `HeadTail` | in `head_tail` |
| `SSETap`, `MCSSETap` | `extractUsage` over a `HeadTail`, which it extends | `head_tail`, `sse_tap_documented` |
| `WSProxy` | a WebSocket session | in `ws_lifecycle` |
| `WSLifecycle` | the configurations around a session, which it extends | `ws_lifecycle` |

Theorems stand in modules of their own, checked by TLAPS:
`HandlerFilterProofs`, `BodyReaderProofs`, `HandlerCallsProofs`, `GroupProofs`,
`MultiActorProofs`, which extends it, `RegistryProofs`, `HeadTailProofs` and
`WSLifecycleProofs`.

### HandlerFilter

`wk` is the callback the worker is in, `pc` the place of the goroutine in
`run()` or in a handler. A callback that pushes chunks is several steps: it is
entered (`OnRequestBody`), pushes one chunk at a time (`SendRequestChunk`) or is
refused, and returns (`RequestBodyReturns`). `skipBody`, the limit's callback
and `OnStreamComplete` are split where another thread can come between a flag
and the closing of the pipe. `sched` is the scheduler's queue.

What a user's handler does is a *plan*: whether it reads the request body to
its end, skips it, limits it or stops early; whether it answers with `Send`;
where it panics; and the same for the `ResponseFunc` and its mode. Chunks are
counted. Header mutations and `ReplaceBody` are represented by the moment at
which they are applied (`FinishRequest`, `FinishResponse`) and by what Envoy then
still holds, metrics by their number.

Envoy is not part of the repository. What its statuses do is modelled from how
`filter.go` and `RATIONALE.md` rely on them, and stands in a handful of
operators at the top of the module: `Continue` releases a chunk, what is
buffered and headers still held; `StopAndBuffer` keeps them; closures run in
order and not after the stream's end; upstream answers only a request whose
headers it was sent. `respBodySkip` is not a variable because the test of it
cannot be reached with another answer than the test before it.

### The others

`BodyReader` numbers the bytes of a body; a chunk is an interval. One step of
the reader is what lies between two selects of `Read`. `HandlerFilter` uses the
same pipe with chunks only counted.

`HandlerCalls` numbers the handler's calls; a number stands for the call's
channel and, for `Flush`, its data. `wire` is what Envoy was told to send to the
client, `forwarded` by whom it was told to send the request on: by the closure of
`run()`, or by a body callback, which after `SkipBody` returns Continue and so
releases the headers that are still held. `Stream`, `Flush` and `Do` wait on the
context their caller passes, so `TimesOut` may end any of them on a live stream;
its closure or callout stays behind and still runs. `ContextDone` is the case in
which that context is the stream's, and the only one with fairness.

`Group` splits `Start` at each launch and `Stop` at each statement; `once` is
Go's `sync.Once`, of which a later caller waits for the first. An actor may end
at any time, for any reason, and must when told to (the contract of `Add`).

`Registry` keeps the seven maps as functions with the domain they have.
Functions are values of which only nil is told apart.

`HeadTail` splits `Write` into the turns of `Ring.Write`'s loop and models
`Bytes` by its three reversals. `SSETap` gives the bytes a meaning, a layout of
lines, and goes on from there: when the stream has been read, `extractUsage`
scans the lines of `Head` and then of `Tail`, one to a step, with the code's
prefix tests and overwriting. A line is a kind, a length and the tokens it
reports, which differ from line to line; a cut line counts as none, which takes
it that no payload looks like a line of its own from the middle on.
`UsageExtracted` says, by the positions of lines in the first and last bytes,
which line's tokens the scan ends up with: the first `message_start` that the head
holds whole, or else the first usage line that the tail holds, and for the output
the first usage line of the tail. The package's comments say otherwise in two
places; `DocumentedUsage` is what they say, and `sse_tap_documented` refutes it.

`MultiActor` is `Group` used by a filter: `Create` may fail at either listener,
the watcher and `OnDestroy` race for `Stop`, the HTTP server closes its own
listener while the probe's is closed by its stop function only, and probe
connections have goroutines of their own. Every step of the group is one of
`Group`, which `MultiActorProofs` also proves.

`WSProxy` has the two pumps, `ServeHTTP` and the peers, each of which may send,
stall or leave; `usage` is written by the upstream pump and read by `ServeHTTP`
field by field, as the code does without a lock. `record.owed` notes, when the
session ends, which completed responses the client had been sent. Recording is
four steps: the two loads of the tap, the load of the flag that says whether
telemetry is configured (`LoadsConfigured`), and the use of the metrics (`Emits`).

`WSLifecycle` puts configurations around the session. Each `Create` starts an
exporter, raises the process-wide flag and binds a listener, and may fail at the
first and the last of these; each `OnDestroy` stops the group, lowers the flag
and stops the exporter, in this order. Envoy creates one configuration at a time
and may destroy an older one at any moment. A session's connection is hijacked,
so it goes on when its configuration is gone and reads the flag when it ends.
`FlagMeansExporter` is about the moment of that load. Between it and the use of
the metrics a Shutdown may stop the exporter; the model has those behaviours and
no sentence of the repository excludes them.
`muted` is bookkeeping: the exporting configurations that were up when another
one's `OnDestroy` lowered the flag. That the flag is shared is how the code is
(`observability.go`), so `SessionCounted` allows for it by name and says that
nothing else keeps a live configuration's sessions from being counted.

## Runs

| Run | Instance | Distinct states | Shows |
|-----|----------|-----------------|-------|
| `filter` | pipe 2; request up to 5 chunks, response up to 3, 3 per callback; limit 2 | 261,000 | no step loses, reorders or strands a stream whose handlers read what they do not skip |
| `body_reader` | pipe 2; 5 bytes, chunks up to 3, reads up to 2; limits none, 2, 3 | 65,000 | `r.Body` implements `ByteStream`; neither end waits forever |
| `handler_calls` | pipe 1; 4 calls and `Close`; 3 chunks | 60,700 | the wire is well formed; calls return, whatever times out |
| `multi_actor` | 3 actors, the refresh task being stopped by the context; `OnDestroy` and the watcher; 1 probe connection | 1,900 | all end together; `Stop` means stopped; ports are released |
| `registry` | 2 names, 1 function and nil, 2 modes | 113,000 | seven maps implement one table |
| `head_tail` | heads 0, 2, 3; tails 1, 2, 3; 8 bytes in chunks up to 7; 27 streams | 15,000 | the ends are the ends; the tap reports the first usage they hold |
| `ws_lifecycle` | 2 configurations that export; 1 session, 1 frame a side, either side may stall or leave | 304,000 | sessions and pumps end; records are whole; a flag that is up means an exporter; sessions are counted |

Why the bounds are enough. A pipe of 2 can be empty, partly full and full, and
5 chunks fill it twice over, so a callback blocks, resumes and blocks again; 3
chunks a callback is more than the pipe holds at once. Limits lie below, at and
beyond a chunk's end. In `multi_actor`, two ends can wait unreceived while a third
is reported, and `Create` fails at either listener. In `ws_lifecycle` two
configurations suffice for one to be created before, between and after the steps
of the other's `OnDestroy`, around every step of a session; one frame a side lets
a record be read between the two fields of an update, and a frame be taken by
the tap but not delivered. The invariants of both are proved for any number of
actors, configurations and frames. In `registry` two names suffice because no
operation touches two. `head_tail` has chunks shorter and longer than each ring,
ring ends inside and between chunks and lines, and lines cut by either end; its
streams have usage at the start, at the end and twice, with different tokens.

The plans of `filter` are all those of handlers that treat the body as the
documentation asks: they read it to its end, skip it or limit it. Left out, and
checked by the counterexample runs instead: handlers that return with the body
unread (`filter_unread`), `SkipBody` followed by `Send` (`filter_skip_send`),
and panics of a response handler while a response is held (`filter_panic`). In
the pass run a request handler panics only where no `ResponseFunc` is
registered: with one, the goroutine is gone when a response comes. That response
is not resumed either, for the same reason as in `filter_panic`, and in Observe
and Buffer mode the worker pushes its chunks into a pipe that nobody reads, as in
`filter_unread`.

`BodyComplete`, `RwNotShared` and the first part of `MutationsInTime` are about
bodies that are read to their end. What becomes of the last two when a body is
skipped follows from the step that `filter_skip_send` shows; see below.

### Counterexamples

Each of these checks one sentence of the repository against the code.

- `filter_unread`, `WorkerReturns`: a handler that returns early, a body larger
  than the pipe. The worker stays in `OnRequestBody`; `RATIONALE.md` calls the
  case safe.
- `filter_panic`, `ResponseSettled`: a `ResponseFunc` panics in Passthrough or
  Buffer mode. The recovery continues the request, which is upstream already,
  and the response stays held.
- `filter_skip_send`, `AnsweredNotForwarded`: after `SkipBody` a chunk carries
  the headers upstream before `Send`'s closure runs.
- `handler_calls_close`, `ExitsAfterDisconnect`: `Close` waits for a closure
  that a destroyed stream never runs.
- `sse_tap_documented`, `DocumentedUsage`: one stream shows both disagreements of
  `extractUsage` with its comments. A usage chunk that only the head holds is not
  counted as input, although the head is there to capture "early usage"; and of
  two usage chunks in the tail the first is the output, not the "final" one.

The step of `filter_skip_send`, a body callback that returns Continue after
`SkipBody` or `LimitBody` while the headers are still held (`filter.go:339`),
breaks three more sentences, and the models have those behaviours:

- `Stream`, "The request is NOT forwarded upstream" (`handler.go:348`): it is, by
  the next chunk. `WireWellFormed` claims only that the closure of `run()` does
  not forward it.
- `SetRequestHeader`, "will be applied before the request is forwarded upstream"
  (`handler.go:333`): the closure that applies it comes too late and the mutation
  is lost. `MutationsInTime` is about handlers that read the body.
- `ResponseFunc` runs "after ContinueRequest has been called" (`handler.go:412`):
  the response may come before that closure has run, and `run()` does not wait for
  it. The two then use `rw.metricMuts` together, unlocked. `RwNotShared` is about
  handlers that read the body.

Two more disagreements are plain enough to be left to this page. Metrics recorded
by a `ResponseFunc` are queued in a list that only the request phase reads, so that
what `README.md:228` describes does not happen (`MetricsEmittedCorrect` proves that
a forwarded request without a `ResponseFunc` loses none). And a configuration whose
flag another one's `OnDestroy` has lowered emits no metrics, which
`OBSERVABILITY.md:40` says it does: `SessionCounted` names the exception.

The second `ContinueRequest` after a response handler's panic, for which
`SettledOnce` makes room, the record torn when the client's pump ends first, a
write that blocks for ever, the listener or exporter that a failed `Create` leaves
behind and the response without an end that a timed out `Stream` leaves are in the
models as in the code. No sentence of the repository says otherwise.

## Fairness

- The goroutine (`Goroutine`, `Reader`, `Handler`): Go runs what can run.
- A callback in progress (`WorkerStep`, `Sender`): the worker thread goes on
  unless it blocks.
- `RunScheduled`: the event loop gets to every closure of a live stream; its
  actions are not enabled once the stream is gone.
- `Group` and `MultiActor`: an actor ends *when told to*,
  `WF_vars(Told(a) /\ Ends(a))`; an actor that was not told need never end.
  `Create` goes on, threads in `Stop` go on, and a probe connection ends by the
  deadline it was given.
- `WSLifecycle`: `ServeHTTP` and the pumps go on where they are not blocked. There
  is no fairness on what a pump waits for: a peer may stall with its connection
  open.
- Never assumed: that a peer sends, takes or leaves, that a handler reads on,
  that a stream ends, that anybody calls `Stop` or destroys a configuration,
  that Envoy makes another callback, that the context a caller passes times out.
  `HandlerCalls` assumes that Envoy ends every callout, which it does by its
  timeout.

All fairness is weak. Deadlock is checked except in `handler_calls`, whose
stream may end with the goroutine parked in `Close`, and in the counterexample
runs that show such a state.

## Proofs

Each theorem holds for every value of the constants that the declaring module's
assumptions allow: capacities, sizes of bodies and batches, plans, numbers of
calls, actors, configurations and frames, names and functions.

*The filter.* `HandlerFilterProofs` builds one inductive invariant, `StreamInv`,
part by part.

- `TypeCorrect`: `Spec => []TypeOK`. `TypeOK` says that a response's headers are
  in the channel at most once; that is inductive only with the fact that they
  are not there before the response has come (`TypeInv`).
- `BodyCompleteCorrect`, `RespBodyCompleteCorrect`. `BodyInv` and `RespBodyInv`
  count chunks: as long as no one has given the body up, what was read, what is
  queued and what the callback in progress still has to push add up to what was
  delivered; the pipe is closed only when the last chunk has been pushed; and
  the flags rise only with the end of the body. The step that matters is EOF: a
  closed and empty pipe leaves the reader with all of it.
- `SettledOnceCorrect`. `SettledInv` says that each closure is in the queue at
  most once, that the places of the goroutine, the queue and what has already
  run exclude one another (`Exclusive`), and counts the continues against what is
  pending (`Counts`). A queue whose elements are distinct keeps that property
  under `Tail` and `Append`; these facts about sequences are lemmas.
- `RwNotSharedCorrect`. `ResponseInv` ties the response headers in the channel to
  the request having been sent on, and that, for a body that is read to its end,
  to the closure of the request phase having run.
- `MutationsInTimeCorrect`. `TimelyInv` adds that a recovery never overtakes the
  finish closure in the queue (`Fifo`), and that a response which a Buffer mode
  handler reads stays held and buffered until the handler's own closure runs.
- `ContractCorrect`: `Spec /\ Holding => ImplementsContract`, the refinement of
  `StreamContract`, for handlers that read the whole request body or never
  answer. The premise is needed: `filter_skip_send` is a behaviour without it.
- `NothingStrandedCorrect`: `Spec /\ Attentive => []NothingStranded`, for
  handlers that leave no held body unread and whose panics leave no held
  response. `LeavesInv` says, for each place of the goroutine, which flag lets
  callbacks pass from then on and which closure will resume what is held; what is
  left is that nothing is held again once it was resumed. `filter_unread` and
  `filter_panic` are behaviours outside of `Attentive`.
- `NobodyParkedCorrect`: `Spec /\ Attending => []NobodyParked`, for handlers that
  attend to whatever may be pushed into a pipe: a worker that is blocked on a full
  pipe has a goroutine that can go on, and after `OnStreamComplete` no goroutine
  is parked. `ParkInv` says why: whoever raises a flag that lets callbacks pass
  closes the pipe with it or in its next step, and no handler leaves a body
  behind an open pipe. This is the safety core of `WorkerReturns` and
  `GoroutineExits`.
- `AnsweredNotForwardedCorrect`: `AnsweredNotForwarded`, which `filter_skip_send`
  refutes, holds under `Holding`, the premise of `ContractCorrect`.
- `MetricsEmittedCorrect`: every metric of a forwarded request reaches Envoy if its
  filter has no `ResponseFunc` (`RequestOnly`): it is applied, or the closure that
  applies it is pending (`MetricsInv`). Neither of the two is a property of a
  passing run.
- `RequestBodyIsStream`: `Spec => RequestBody!Spec`. Chunk by chunk, the request
  body of the filter implements the same `ByteStream` that `BodyReader` implements
  byte by byte, for every plan: the handler gets chunks in order, and EOF only
  after the last or when the body was given up. `BodyStreamInv` has what
  `BodyInv` leaves open, the bodies that were given up.

*The pipe.* `BodyReaderProofs`: `TypeCorrect`, `InOrderCorrect`,
`LimitExactCorrect`, and `ReaderIsStream`, that `BodyReader` implements
`ByteStream`. `ReaderInv` joins the queued chunks end to end: the bytes read, the
rest of the chunk in hand and the queue are consecutive intervals that end where
the sender is. `NobodyParkedCorrect`, from `ClosedInv`: a `Read` that
waits has had every byte that was sent, of a body that goes on, and a callback
that waits has a handler that may still ask for more.

*The calls.* `HandlerCallsProofs`: `WireWellFormedCorrect` and
`FlushMeansSentCorrect`. `CallsInv` bounds every number by `calls`, orders the
closures of the queue after what is on the wire, and ties an answer in a call's
channel to the closure that sent it, so that a closure left behind by a call
that timed out still stands in order. `NoAnswerLostCorrect`: a call that waits
has its closure in the queue, its callout under way or its answer in its
channel, the worker does not wait for the handler in turn, and a stream that is
gone has cancelled the context (`AnswerInv`). So what `CallsReturn` needs of
fairness is there to be scheduled.

*The group.* `GroupProofs`: `StopMeansStoppedCorrect`, `StoppedOnceCorrect`,
from `GroupInv`, of which the core is that the once lets one thread into
`Stop`'s body and is done only when every actor is, and
`NobodyForgottenCorrect`: no wake-up is lost. `WaitInv` counts the ends in
`errc`, which are those of the actors that are done less the one that the
watcher has received, and keeps a thread in `Stop`'s body while the once runs.
So an actor finds room in `errc`, the watcher an end to receive, and `wg.Wait`
waits only for actors that have ended or were told to. The module extends
`Group` alone, whose assumptions leave the number of actors and callers open.
`MultiActorProofs`: `MultiActorIsGroup`, by which all of it holds of the
example, with its three actors and one caller, and `PortsReleasedCorrect`:
`PortsInv` follows each port from its listener to whatever closes it.

*The registry.* `RegistryProofs`: `OneEntryPerNameCorrect` and `RegistryIsTable`,
that the seven maps and `Create` implement `FilterTable`. `TableInv` says which
maps have a name, by its kind. The assumption `EntryAssumption`, that no entry is
nil, is there because entries are records and nil is any value.

*The ends of a stream.* `HeadTailProofs`: `TypeCorrect`,
`HeadIsBeginningCorrect`, `TailIsEndCorrect`, and for the tap `TapIsHeadTail`
and `UsageExtractedCorrect`. `EndsInv` says which byte lies where: those before
the ring's position are the last that came to it, those after it, once the ring
is full, are a turn older. Lemmas give what `Copy` and the three reversals put
at each index. `ScanInv` says what the lines scanned so far amount to, which
needs no induction over data because the scan is a state machine with a line to
a step.

*Sessions.* `WSLifecycleProofs`: `DeliveredIsRecordedCorrect` and
`RecordNotTornCorrect` from `SessionInv`, which says by how much the tap's
counters are behind at each place of the pump; `FlagMeansExporterCorrect` and
`SessionCountedCorrect` from `LifecycleInv`, which ties the flag to the
configurations between raising and lowering it. `NobodyForgottenCorrect`, from
`WaitInv`: each pump that is done has its one end in `errc` or with `ServeHTTP`,
so a failed pump always finds room, a waiting `ServeHTTP` finds the end of
whichever pump is done, and a session that is over has closed both connections
under its pumps.

`NobodyParked`, `NobodyForgotten` and `NoAnswerLost` are the safety that the
liveness properties rest on. They are proved and stand in no run's list: the runs
check the liveness itself.

Every invariant and every action property of a passing run, and every refinement,
is a theorem. Model-checked only: liveness under fairness, that is the step from
"nobody is blocked in vain" to "everybody returns", and what needs ENABLED.

## Not modelled

- What Envoy does beyond the operators named above: watermarks and its own
  buffer limits, a body replayed after another filter buffered it, retries.
- Which header or key a mutation concerns, and the bytes `ReplaceBody` puts in.
- Composition and values without state: `Chain` and `ResponseChain`, the
  configuration handle's wrappers, `formatLogAttrs`, the empty handle.
- `prof`: a listener and a `Group` of one actor, put together as `MultiActor`'s
  `Create` does with two; its handlers keep no state.
- The examples auth, decoder, hello and spa, and the auth filter of ws-proxy:
  handlers whose use of the filter is among the plans of `HandlerFilter`, around a
  table of keys, a parser, a header, or files.
- Inside the libraries: `http.Server.Shutdown` is taken to return and to end
  `Serve`; which sink the telemetry library hands a metric to is left open, so
  `SessionCounted` speaks of the flag and of an exporter being up.
- Misuse the comments rule out: `Send` twice, `Stop` before `Start` or from
  within an actor, a ring of no size.
- The end-to-end harness: test code around a real Envoy.

## Plan

What is left is a composition: `HandlerFilter` with the handler calls of
`HandlerCalls`, so that `Stream` and the response phase meet in one model. Apart,
the two agree on what they share: `responded`, the queue of closures, the end of
the stream.
