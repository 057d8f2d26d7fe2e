-------------------------------- MODULE SSETap --------------------------------
(***************************************************************************)
(* examples/sse-tap: the response handler writes an SSE body, chunk by     *)
(* chunk as Read returns it, into a HeadTail and at EOF extracts the token *)
(* usage from the two ends it kept.  The chunks and the buffer are         *)
(* HeadTail's; this module says what the bytes mean and adds extractUsage, *)
(* one line of scanLines' loop per step.                                   *)
(*                                                                         *)
(* A stream is a sequence of lines, of which only the kind, the tokens     *)
(* reported and where the line ends, newline included, matter.  A line     *)
(* whose beginning is cut off has lost its prefix and one whose newline is *)
(* cut off is not scanned, so only whole lines count.  Anthropic's streams *)
(* open with the event and the data of message_start, which nests its      *)
(* usage in the message, and close with those of message_delta; OpenAI's   *)
(* have usage chunks, at their end or anywhere.  A data line with usage at *)
(* its top level, message_delta's too, is a "usage" line here.             *)
(***************************************************************************)
EXTENDS HeadTail

CONSTANT Streams  \* the streams considered

Events == {"event: message_start", "event: message_delta"}
Line == [kind : Events \cup {"start", "usage", "other"}, end : Nat,
         in : Nat, out : Nat]

\* The bytes of a stream before line k, and all of them.
Before(s, k) == IF k = 1 THEN 0 ELSE s[k - 1].end
Total(s) == Before(s, Len(s) + 1)

\* No line is empty, and message_start's data follows its event.
ASSUME StreamsAssumption ==
  /\ Streams \subseteq Seq(Line)
  /\ \A s \in Streams : \A k \in 1..Len(s) :
       /\ \A j \in 1..k : Before(s, j) < s[k].end
       /\ s[k].kind = "start" => k > 1 /\ s[k - 1].kind = "event: message_start"

VARIABLES
  phase,         \* what extractUsage scans: no (before), head, tail, done
  body,          \* the stream that was read
  line,          \* the line that comes next
  curEvent,      \* the event read last
  input, output  \* u: the usage found so far

scanVars == <<phase, body, line, curEvent, input, output>>

TInit ==
  /\ Init
  /\ phase = "no" /\ body = <<>> /\ line = 1 /\ curEvent = "" /\ input = 0 /\ output = 0

\* The calls of the buffer; what an earlier scan has found is gone.
Calls ==
  /\ phase \in {"no", "done"}
  /\ Next
  /\ phase' = "no" /\ body' = <<>> /\ line' = 1 /\ curEvent' = ""
  /\ input' = 0 /\ output' = 0

\* tapResponseHandler at EOF, having written all of stream s: it takes the two
\* ends and scans the head.
TapEnds(s) ==
  /\ phase = "no"
  /\ turned = since /\ written - since = Total(s)
  /\ TailBytes
  /\ phase' = "head" /\ body' = s /\ line' = 1 /\ curEvent' = ""
  /\ input' = 0 /\ output' = 0

\* scanLines finds line k whole in a slice of the body.
Whole(slice, k) ==
  LET n == body[k].end - Before(body, k)
  IN  \E i \in 0..(Len(slice) - n) :
        \A j \in 1..n : slice[i + j] = since + Before(body, k) + j

\* Anthropic's input tokens, from the data line of message_start.
ScanHead(l) ==
  /\ curEvent' = IF l.kind \in Events THEN l.kind ELSE curEvent
  /\ input' = IF l.kind = "start" /\ curEvent = "event: message_start" /\ input = 0
              THEN l.in ELSE input
  /\ output' = output

\* A mutant: every usage line counts, whatever is known already.
ScanTailOverwrites(l) ==
  /\ curEvent' = IF l.kind \in Events THEN l.kind ELSE curEvent
  /\ input' = IF l.kind = "usage" THEN l.in ELSE input
  /\ output' = IF l.kind = "usage" THEN l.out ELSE output
\* A usage line fills in what is not yet known.  What the code does once more
\* for message_delta's finds the same number there.
ScanTail(l) ==
  /\ curEvent' = IF l.kind \in Events THEN l.kind ELSE curEvent
  /\ input' = IF l.kind = "usage" /\ input = 0 THEN l.in ELSE input
  /\ output' = IF l.kind = "usage" /\ output = 0 THEN l.out ELSE output

\* One turn of scanLines' loop over a slice of the body; what is no whole line
\* is passed over.
Turn(where, slice, Scanned) ==
  /\ phase = where /\ line <= Len(body)
  /\ IF Whole(slice, line) THEN Scanned
                           ELSE UNCHANGED <<curEvent, input, output>>
  /\ line' = line + 1
  /\ UNCHANGED <<vars, phase, body>>
HeadTurn == Turn("head", HeadBytes, ScanHead(body[line]))
TailTurn == Turn("tail", got, ScanTail(body[line]))

\* The event is forgotten between head and tail.
HeadScanned ==
  /\ phase = "head" /\ line > Len(body)
  /\ phase' = "tail" /\ line' = 1 /\ curEvent' = ""
  /\ UNCHANGED <<vars, body, input, output>>
TailScanned ==
  /\ phase = "tail" /\ line > Len(body)
  /\ phase' = "done"
  /\ UNCHANGED <<vars, body, line, curEvent, input, output>>

TNext ==
  \/ Calls
  \/ \E s \in Streams : TapEnds(s)
  \/ HeadTurn \/ HeadScanned \/ TailTurn \/ TailScanned

TSpec == TInit /\ [][TNext]_<<vars, scanVars>>

-----------------------------------------------------------------------------

\* Line k of the body lies in the first headSize bytes; in the last size bytes.
InHead(k) == body[k].end <= headSize
InTail(k) == Before(body, k) + size >= Total(body)

\* v is what the first of the given lines to report any tokens reports.
FirstReport(v, lines, tokens) ==
  \/ v = 0 /\ \A k \in lines : tokens[k] = 0
  \/ v # 0 /\ \E k \in lines : tokens[k] = v /\ \A j \in lines : j < k => tokens[j] = 0

Ins  == [k \in 1..Len(body) |-> body[k].in]
Outs == [k \in 1..Len(body) |-> body[k].out]

\* The lines the scans look for among the first n, and find whole.
Started(n) == {k \in 1..n : body[k].kind = "start" /\ InHead(k)}
Used(n)    == {k \in 1..n : body[k].kind = "usage" /\ InTail(k)}

\* However a stream is cut into chunks, and wherever its lines fall on the ends
\* of the two buffers, the tap reports as input what the first message_start
\* whole in the head does, and failing that the first usage line whole in the
\* tail; as output, what the first usage line whole in the tail does; and never
\* part of a line's number, a number twice or of the other kind.  That is less
\* than the package's comments say: DocumentedUsage.
UsageExtracted ==
  LET n == Len(body)
  IN  phase = "done" =>
        /\ \/ input # 0 /\ FirstReport(input, Started(n), Ins)
           \/ FirstReport(0, Started(n), Ins) /\ FirstReport(input, Used(n), Ins)
        /\ FirstReport(output, Used(n), Outs)

\* What the package's comments say: "input tokens appear near the START (e.g.
\* Anthropic message_start, OpenAI first usage chunk)", and the "head captures
\* message_start / early usage", so usage that lies whole in the head is counted
\* as input; "output tokens appear near the END (message_delta, final usage
\* chunk)", so the last usage that lies whole in the tail is the output.
DocumentedUsage ==
  LET used == Used(Len(body))
  IN  phase = "done" =>
        /\ input = 0 => \A k \in 1..Len(body) :
                          body[k].kind = "usage" /\ InHead(k) => body[k].in = 0
        /\ \A k \in used : (\A j \in used : j <= k) => output = body[k].out
===============================================================================
