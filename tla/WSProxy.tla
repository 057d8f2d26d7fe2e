-------------------------------- MODULE WSProxy --------------------------------
(***************************************************************************)
(* One WebSocket session of examples/ws-proxy: WSProxy.ServeHTTP accepts   *)
(* the client, dials upstream, starts two goroutines that pump frames from *)
(* one side to the other, waits for the first of them to fail, records the *)
(* session's usage and closes both connections.  The pumps feed the        *)
(* SessionTap, which the recording reads without a lock.                   *)
(*                                                                         *)
(* A side's frames are counted as they are read.  Some of upstream's are   *)
(* response.completed, which carry usage; the usage of frame k is k for    *)
(* both kinds of tokens.  The WebSocket library is outside the repository: *)
(* Read returns the peer's frames in order and fails once the connection   *)
(* is closed by either end, Write blocks while the peer takes nothing.     *)
(***************************************************************************)
EXTENDS Naturals, Sequences

CONSTANT MaxFrames  \* bound: frames a side sends

ASSUME BoundAssumption == MaxFrames \in Nat

Sides == {"client", "upstream"}
Other(x) == IF x = "client" THEN "upstream" ELSE "client"

VARIABLES
  completed,   \* which of upstream's frames are response.completed
  main,        \* where ServeHTTP is
  pump,        \* where the pump that reads from a side is
  got,         \* frames of a side that its pump has read
  given,       \* frames of upstream written to the client
  conn,        \* the connection of a side: "open", "stalled" when it takes
               \* nothing and its buffers are full, "left" once it has closed
               \* its end, "closed" once the proxy has closed this one
  errc,        \* ends in the channel, by pump
  usage,       \* SessionTap: input and output tokens
  record       \* the session record: the pump that ended first, the usage
               \* read, where it went ("metric" or "log"), and the usages
               \* the client had been sent when that pump ended

vars == <<completed, main, pump, conn, got, given, errc, usage, record>>

NoRecord == [by |-> "none", input |-> 0, output |-> 0, as |-> "none", owed |-> {}]

Init ==
  /\ completed \in SUBSET (1..MaxFrames)
  /\ main = "accept"
  /\ pump = [x \in Sides |-> "none"]
  /\ got = [x \in Sides |-> 0] /\ given = 0
  /\ conn = [x \in Sides |-> "open"]
  /\ errc = <<>>
  /\ usage = [input |-> 0, output |-> 0] /\ record = NoRecord

Gone(x) == conn[x] \in {"left", "closed"}

-----------------------------------------------------------------------------
(***************************************************************************)
(* The peers.                                                              *)
(***************************************************************************)

\* A side stops taking what is written to it, goes on, or closes its end.
PeerStep(x) ==
  /\ pump[x] # "none" /\ ~Gone(x)
  /\ \E c \in {"open", "stalled", "left"} : conn' = [conn EXCEPT ![x] = c]
  /\ UNCHANGED <<completed, main, pump, got, given, errc, usage, record>>

-----------------------------------------------------------------------------
(***************************************************************************)
(* The pumps.                                                              *)
(***************************************************************************)

Goes(x, at) == pump' = [pump EXCEPT ![x] = at]

Usage(k) == k \in completed

\* A mutant: a frame is tapped after it has been written on.
TapAfterWrite(x, frame) ==
  CASE pump[x] = "read"      -> "write"
    [] pump[x] = "write"     -> IF x = "upstream" /\ Usage(frame) THEN "tapInput" ELSE "read"
    [] pump[x] = "tapOutput" -> "read"
\* Where the pump of x goes on when it has read, tapped or written this frame.
Onward(x, frame) ==
  CASE pump[x] = "read"      -> IF x = "upstream" /\ Usage(frame) THEN "tapInput" ELSE "write"
    [] pump[x] = "tapOutput" -> "write"
    [] pump[x] = "write"     -> "read"

\* The next frame, if the side has sent one.
Reads(x) ==
  /\ pump[x] = "read" /\ conn[x] # "closed" /\ got[x] < MaxFrames
  /\ got' = [got EXCEPT ![x] = @ + 1]
  /\ Goes(x, Onward(x, got[x] + 1))
  /\ UNCHANGED <<completed, main, conn, given, errc, usage, record>>

\* A mutant: the output tokens are not stored.
TapsInputOnly ==
  /\ pump["upstream"] = "tapInput"
  /\ usage' = [usage EXCEPT !.input = got["upstream"]]
  /\ Goes("upstream", "write")
  /\ UNCHANGED <<completed, main, conn, got, given, errc, record>>
\* SessionTap.FeedUpstream, field by field.
TapsInput ==
  /\ pump["upstream"] = "tapInput"
  /\ usage' = [usage EXCEPT !.input = got["upstream"]]
  /\ Goes("upstream", "tapOutput")
  /\ UNCHANGED <<completed, main, conn, got, given, errc, record>>

TapsOutput ==
  /\ pump["upstream"] = "tapOutput"
  /\ usage' = [usage EXCEPT !.output = got["upstream"]]
  /\ Goes("upstream", Onward("upstream", got["upstream"]))
  /\ UNCHANGED <<completed, main, conn, got, given, errc, record>>

Blocked(x) == conn[Other(x)] = "stalled"

Writes(x) ==
  /\ pump[x] = "write" /\ conn[Other(x)] # "closed" /\ ~Blocked(x)
  /\ given' = IF x = "upstream" THEN given + 1 ELSE given
  /\ Goes(x, Onward(x, got[x]))
  /\ UNCHANGED <<completed, main, conn, got, errc, usage, record>>

\* Read and Write fail on a connection that either end has closed; what was
\* sent before that may be lost.
Fails(x) ==
  /\ \/ pump[x] = "read" /\ Gone(x)
     \/ pump[x] = "write" /\ Gone(Other(x))
  /\ Goes(x, "report")
  /\ UNCHANGED <<completed, main, conn, got, given, errc, usage, record>>

\* A mutant: the channel has no buffer, so only a waiting ServeHTTP can receive.
ErrcUnbuffered == errc = <<>> /\ main = "wait"
\* errc has room for both pumps.
ErrcRoom == Len(errc) < 2

Reports(x) ==
  /\ pump[x] = "report" /\ ErrcRoom
  /\ errc' = Append(errc, x)
  /\ Goes(x, "done")
  /\ UNCHANGED <<completed, main, conn, got, given, usage, record>>

-----------------------------------------------------------------------------
(***************************************************************************)
(* ServeHTTP.                                                              *)
(***************************************************************************)

\* A mutant: ServeHTTP waits for both ends.
WaitsForBoth ==
  /\ main = "wait" /\ Len(errc) = 2
  /\ errc' = <<>>
  /\ record' = [NoRecord EXCEPT !.by = Head(errc), !.owed = {}]
  /\ main' = "loadInput"
  /\ UNCHANGED <<completed, pump, conn, got, given, usage>>

Accept ==
  /\ main = "accept"
  /\ main' \in {"dial", "returned"}
  /\ UNCHANGED <<completed, pump, conn, got, given, errc, usage, record>>

\* Without upstream the client's connection is all there is to close.
Dial ==
  /\ main = "dial"
  /\ \/ main' = "wait" /\ pump' = [x \in Sides |-> "read"]
     \/ main' = "closeClient" /\ UNCHANGED pump
  /\ UNCHANGED <<completed, conn, got, given, errc, usage, record>>

\* The usages among the frames written to the client.
Owed == {k \in completed : k <= given}

FirstErr ==
  /\ main = "wait" /\ errc # <<>>
  /\ errc' = Tail(errc)
  /\ record' = [NoRecord EXCEPT !.by = Head(errc), !.owed = Owed]
  /\ main' = "loadInput"
  /\ UNCHANGED <<completed, pump, conn, got, given, usage>>

\* SessionTap.Usage: two loads, with no synchronisation with FeedUpstream.
LoadsInput ==
  /\ main = "loadInput"
  /\ record' = [record EXCEPT !.input = usage.input]
  /\ main' = "loadOutput"
  /\ UNCHANGED <<completed, pump, conn, got, given, errc, usage>>

LoadsOutput ==
  /\ main = "loadOutput"
  /\ record' = [record EXCEPT !.output = usage.output]
  /\ main' = "record"
  /\ UNCHANGED <<completed, pump, conn, got, given, errc, usage>>

\* recordActorSession loads the flag that says whether the actor's telemetry is
\* configured, which is not the session's to know; if not, it logs.
LoadsConfigured(configured) ==
  /\ main = "record"
  /\ main' = IF configured THEN "emit" ELSE "closeUpstream"
  /\ record' = IF configured THEN record ELSE [record EXCEPT !.as = "log"]
  /\ UNCHANGED <<completed, pump, conn, got, given, errc, usage>>

\* Only then, whatever has become of the telemetry, it uses the metrics.
Emits ==
  /\ main = "emit"
  /\ record' = [record EXCEPT !.as = "metric"]
  /\ main' = "closeUpstream"
  /\ UNCHANGED <<completed, pump, conn, got, given, errc, usage>>

\* The deferred CloseNow calls, the last one first.
ClosesUpstream ==
  /\ main = "closeUpstream"
  /\ conn' = [conn EXCEPT !["upstream"] = "closed"]
  /\ main' = "closeClient"
  /\ UNCHANGED <<completed, pump, got, given, errc, usage, record>>

ClosesClient ==
  /\ main = "closeClient"
  /\ conn' = [conn EXCEPT !["client"] = "closed"]
  /\ main' = "returned"
  /\ UNCHANGED <<completed, pump, got, given, errc, usage, record>>

Terminated ==
  /\ main = "returned" /\ \A x \in Sides : pump[x] \in {"none", "done"}
  /\ UNCHANGED vars

-----------------------------------------------------------------------------

ServeStep ==
  \/ Dial \/ FirstErr \/ LoadsInput \/ LoadsOutput
  \/ Emits \/ ClosesUpstream \/ ClosesClient
TapStep == TapsInput \/ TapsOutput
PumpStep(x) == Writes(x) \/ Fails(x) \/ Reports(x)

Running == ServeStep \/ TapStep \/ \E x \in Sides : Reads(x) \/ PumpStep(x) \/ PeerStep(x)

Next ==
  \/ Accept \/ Running \/ Terminated
  \/ \E configured \in BOOLEAN : LoadsConfigured(configured)

Spec == Init /\ [][Next]_vars

-----------------------------------------------------------------------------
(***************************************************************************)
(* Properties.                                                             *)
(***************************************************************************)

\* The variables have their types.
TypeOK ==
  /\ main \in {"accept", "dial", "wait", "loadInput", "loadOutput",
               "record", "emit", "closeUpstream", "closeClient", "returned"}
  /\ pump \in [Sides -> {"none", "read", "tapInput", "tapOutput", "write",
                         "report", "done"}]
  /\ completed \subseteq 1..MaxFrames
  /\ got \in [Sides -> 0..MaxFrames] /\ given \in 0..MaxFrames
  /\ conn \in [Sides -> {"open", "stalled", "left", "closed"}]
  /\ errc \in Seq(Sides)
  /\ usage \in [input : 0..MaxFrames, output : 0..MaxFrames]
  /\ record \in [by : Sides \cup {"none"}, input : 0..MaxFrames,
                  output : 0..MaxFrames, as : {"none", "metric", "log"},
                  owed : SUBSET completed]

Recorded == record.as # "none"

\* The usage of every completed response that the client was sent before the
\* session ended is in the record, or that of a later one: a client that leaves
\* on response.completed has its tokens counted.
DeliveredIsRecorded ==
  Recorded => \A k \in record.owed : record.input >= k /\ record.output >= k

\* The record of a session that upstream ended is that of one response, not the
\* input of one with the output of another.  (When the client's pump ends first,
\* the other may be feeding the tap: then the loads can be torn.)
RecordNotTorn ==
  (Recorded /\ record.by = "upstream") => record.input = record.output

\* Nobody waits in vain: a pump that has failed finds room in errc, ServeHTTP
\* finds the end of whichever pump is done, and after it has returned both
\* connections are closed, so that no Read and no Write is left waiting.
NobodyForgotten ==
  /\ \A x \in Sides : pump[x] = "report" => Len(errc) < 2
  /\ main = "wait" /\ (\E x \in Sides : pump[x] = "done") => errc # <<>>
  /\ main = "returned" /\ (\E x \in Sides : pump[x] # "none") =>
       \A x \in Sides : conn[x] = "closed"

\* A session ends when either side leaves; only a pump stuck in a write to a
\* side that takes nothing can fail to notice that the side it reads from left.
SessionEnds ==
  \A x \in Sides :
    conn[x] = "left" /\ main = "wait" ~> main = "returned" \/ (pump[x] = "write" /\ Blocked(x))

\* No pump outlives its session.
PumpsEnd == main = "returned" ~> \A x \in Sides : pump[x] \in {"none", "done"}
=============================================================================
