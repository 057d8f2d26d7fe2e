-------------------------- MODULE WSLifecycleProofs --------------------------
(***************************************************************************)
(* Proofs about WSProxy, for sessions of any length, and about the         *)
(* configurations of WSLifecycle, however many there are and whichever     *)
(* export.                                                                 *)
(***************************************************************************)
EXTENDS WSLifecycle, TLAPS

u == "upstream"

\* What upstream's pump has tapped covers what it has written.
TapInv ==
  /\ pump[u] \in {"none", "read"} => given = got[u]
  /\ pump[u] \in {"tapInput", "tapOutput", "write"} => given + 1 = got[u]
  /\ given <= got[u]
  /\ usage.input <= got[u] /\ usage.output <= got[u]
  /\ pump[u] = "tapOutput" => usage.input = got[u]
  /\ pump[u] # "tapOutput" => usage.input = usage.output
  /\ \A k \in Owed : usage.input >= k /\ usage.output >= k
  /\ pump[u] = "write" /\ got[u] \in completed =>
       usage.input = got[u] /\ usage.output = got[u]

\* A pump has ended when its end is in errc, and before the record names it.
EndsInv ==
  /\ main \in {"accept", "dial"} => pump = [x \in Sides |-> "none"] /\ errc = <<>>
  /\ \A i \in 1..Len(errc) : pump[errc[i]] = "done"
  /\ record.by \in Sides => pump[record.by] = "done"

\* What the record holds at each place of ServeHTTP.
RecordInv ==
  /\ main \in {"loadInput", "loadOutput"} =>
       \A k \in record.owed : usage.input >= k /\ usage.output >= k
  /\ main = "loadOutput" =>
       /\ \A k \in record.owed : record.input >= k
       /\ record.by = u => record.input = usage.input
  /\ main \in {"record", "emit"} \/ Recorded =>
       /\ \A k \in record.owed : record.input >= k /\ record.output >= k
       /\ record.by = u => record.input = record.output
  /\ Recorded => main \in {"closeUpstream", "closeClient", "returned"}

SessionInv == TypeOK /\ TapInv /\ EndsInv /\ RecordInv

-----------------------------------------------------------------------------

LEMMA InitSession == Init => SessionInv
<1> SUFFICES ASSUME Init PROVE SessionInv
  OBVIOUS
<1> USE BoundAssumption DEF Init, NoRecord, Sides, u
<1>1. TypeOK
  BY DEF TypeOK
<1>2. TapInv
  BY DEF TapInv, Owed
<1>3. EndsInv
  BY DEF EndsInv
<1>4. RecordInv
  BY DEF RecordInv, Recorded
<1> QED
  BY <1>1, <1>2, <1>3, <1>4 DEF SessionInv

\* Pumps and peers keep the session's invariant, ...
LEMMA PumpsKeepSession ==
  ASSUME SessionInv,
         TapStep \/ \E x \in Sides : Reads(x) \/ PumpStep(x) \/ PeerStep(x)
  PROVE  SessionInv'
<1> USE BoundAssumption DEF SessionInv, TypeOK, TapInv, EndsInv, RecordInv,
        Recorded, Owed, Sides, Other, u, Goes, Onward, Usage
<1>1. CASE TapsInput
  BY <1>1 DEF TapsInput
<1>2. CASE TapsOutput
  BY <1>2 DEF TapsOutput
<1>3. ASSUME NEW x \in Sides, Reads(x) PROVE SessionInv'
  BY <1>3 DEF Reads
<1>4. ASSUME NEW x \in Sides, Writes(x) PROVE SessionInv'
  BY <1>4 DEF Writes
<1>5. ASSUME NEW x \in Sides, Fails(x) PROVE SessionInv'
  BY <1>5 DEF Fails
<1>6. ASSUME NEW x \in Sides, Reports(x) PROVE SessionInv'
  BY <1>6 DEF Reports
<1>7. ASSUME NEW x \in Sides, PeerStep(x) PROVE SessionInv'
  BY <1>7 DEF PeerStep
<1> QED
  BY <1>1, <1>2, <1>3, <1>4, <1>5, <1>6, <1>7, Zenon DEF TapStep, PumpStep

\* ... and so does ServeHTTP.
LEMMA ServeKeepsSession ==
  ASSUME SessionInv,
         Accept \/ ServeStep \/ \E b \in BOOLEAN : LoadsConfigured(b)
  PROVE  SessionInv'
<1> USE BoundAssumption DEF SessionInv, TypeOK, TapInv, EndsInv, RecordInv,
        Recorded, Owed, Sides, u
<1>1. CASE Accept
  BY <1>1 DEF Accept
<1>2. CASE Dial
  BY <1>2 DEF Dial
<1>3. CASE FirstErr
  <2>1. /\ Head(errc) \in Sides /\ pump[Head(errc)] = "done"
        /\ Tail(errc) \in Seq(Sides) /\ Len(Tail(errc)) = Len(errc) - 1
        /\ \A i \in 1..Len(Tail(errc)) : Tail(errc)[i] = errc[i + 1]
    BY <1>3 DEF FirstErr
  <2>2. record' = [by |-> Head(errc), input |-> 0, output |-> 0, as |-> "none",
                   owed |-> Owed]
    BY <1>3 DEF FirstErr, NoRecord
  <2>3. /\ errc' = Tail(errc) /\ main' = "loadInput"
        /\ UNCHANGED <<completed, pump, conn, got, given, usage>>
    BY <1>3 DEF FirstErr
  <2>4. record' \in [by : Sides \cup {"none"}, input : 0..MaxFrames,
                     output : 0..MaxFrames, as : {"none", "metric", "log"},
                     owed : SUBSET completed]
    BY <2>1, <2>2
  <2>5. TypeOK'
    BY <2>1, <2>3, <2>4
  <2>6. TapInv'
    BY <2>3
  <2>7. EndsInv'
    <3>1. /\ record'.by \in Sides => pump'[record'.by] = "done"
          /\ main' \notin {"accept", "dial"}
      BY <2>1, <2>2, <2>3
    <3>2. \A i \in 1..Len(errc') : pump'[errc'[i]] = "done"
      BY <2>1, <2>3
    <3> QED
      BY <3>1, <3>2
  <2>8. RecordInv'
    <3>1. record'.owed = Owed /\ record'.as = "none"
      BY <2>2
    <3> QED
      BY <2>3, <3>1
  <2> HIDE DEF TypeOK, TapInv, EndsInv, RecordInv
  <2> QED
    BY <2>5, <2>6, <2>7, <2>8
<1>4. CASE LoadsInput
  BY <1>4 DEF LoadsInput
<1>5. CASE LoadsOutput
  BY <1>5 DEF LoadsOutput
<1>6. CASE ClosesUpstream
  BY <1>6 DEF ClosesUpstream
<1>7. CASE ClosesClient
  BY <1>7 DEF ClosesClient
<1>8. ASSUME NEW b \in BOOLEAN, LoadsConfigured(b) PROVE SessionInv'
  <2>1. CASE b
    BY <1>8, <2>1 DEF LoadsConfigured
  <2>2. CASE ~b
    BY <1>8, <2>2 DEF LoadsConfigured
  <2> QED
    BY <2>1, <2>2
<1>9. CASE Emits
  BY <1>9 DEF Emits
<1> QED
  BY <1>1, <1>2, <1>3, <1>4, <1>5, <1>6, <1>7, <1>8, <1>9, Zenon DEF ServeStep

LEMMA NextSession == SessionInv /\ [Next]_vars => SessionInv'
<1>1. ASSUME SessionInv, Terminated \/ UNCHANGED vars PROVE SessionInv'
  <2>1. UNCHANGED vars
    BY <1>1, Zenon DEF Terminated
  <2> QED
    BY <1>1, <2>1 DEF vars, SessionInv, TypeOK, TapInv, EndsInv, RecordInv,
       Recorded, Owed
<1> QED
  BY <1>1, PumpsKeepSession, ServeKeepsSession, Zenon DEF Next, Running

LEMMA SessionInvCorrect == Spec => []SessionInv
  BY InitSession, NextSession, PTL DEF Spec

\* Every step of the composition is one of the session, or none of its business.
LEMMA StepIsWSProxy == [LNext]_allVars => [Next]_vars
<1> SUFFICES ASSUME [LNext]_allVars PROVE [Next]_vars
  OBVIOUS
<1>1. ASSUME NEW c \in Configs, ConfigStep(c) PROVE UNCHANGED vars
  BY <1>1, Zenon DEF ConfigStep, StartsExporter, RaisesFlag, Listens,
     StopsGroup, ClearsFlag, ShutsExporter
<1>2. ASSUME NEW c \in Configs, Hosts(c) PROVE Next
  BY <1>2, Zenon DEF Hosts, Next
<1>3. CASE SessionStep
  BY <1>3, Zenon DEF SessionStep, Next
<1>4. CASE LoadsFlag
  <2>1. \E b \in BOOLEAN : LoadsConfigured(b)
    <3>1. LoadsConfigured(TRUE) \/ LoadsConfigured(FALSE)
      BY <1>4 DEF LoadsFlag, LoadsConfigured
    <3> QED
      BY <3>1
  <2> QED
    BY <2>1, Zenon DEF Next
<1>5. CASE Over \/ UNCHANGED allVars
  BY <1>5, Zenon DEF Over, allVars
<1> QED
  BY <1>1, <1>2, <1>3, <1>4, <1>5, Zenon DEF LNext

\* Whatever becomes of the configurations, a session is one of WSProxy.
THEOREM LifecycleIsWSProxy == LSpec => Spec
<1>1. LInit => Init
  BY DEF LInit
<1> QED
  BY <1>1, StepIsWSProxy, PTL DEF LSpec, Spec

\* A client that was sent a completed response has it in the record, or a later
\* one (wsproxy.go, the pump taps before it writes).
THEOREM DeliveredIsRecordedCorrect == LSpec => []DeliveredIsRecorded
<1>1. SessionInv => DeliveredIsRecorded
  BY DEF SessionInv, RecordInv, DeliveredIsRecorded
<1> QED
  BY <1>1, SessionInvCorrect, LifecycleIsWSProxy, PTL

\* Usage is not torn when upstream's pump, the only one that feeds it, has ended
\* (wsproxy.go, the end of ServeHTTP).
THEOREM RecordNotTornCorrect == LSpec => []RecordNotTorn
<1>1. SessionInv => RecordNotTorn
  BY DEF SessionInv, RecordInv, RecordNotTorn, u
<1> QED
  BY <1>1, SessionInvCorrect, LifecycleIsWSProxy, PTL

-----------------------------------------------------------------------------
(***************************************************************************)
(* Nobody in a session waits in vain.                                      *)
(***************************************************************************)

Ended(x) == \E i \in 1..Len(errc) : errc[i] = x

\* Each pump that is done has its one end in the channel or with ServeHTTP, which
\* closes the connections in turn.
WaitInv ==
  /\ \A x \in Sides : pump[x] = "done" <=> Ended(x) \/ record.by = x
  /\ \A i, j \in 1..Len(errc) : errc[i] = errc[j] => i = j
  /\ \A i \in 1..Len(errc) : errc[i] # record.by
  /\ main \in {"accept", "dial", "wait"} => record.by = "none"
  /\ main \in {"accept", "dial"} => \A x \in Sides : pump[x] = "none"
  /\ main = "wait" => \A x \in Sides : pump[x] # "none"
  /\ main \in {"closeClient", "returned"} /\ (\E x \in Sides : pump[x] # "none") =>
       conn["upstream"] = "closed" /\ (main = "returned" => conn["client"] = "closed")

LEMMA InitWaitInv == Init => WaitInv
  BY DEF Init, WaitInv, Ended, NoRecord, Sides

\* A pump reports once, and where its end goes it can be found.
LEMMA ReportsWaitInv ==
  ASSUME SessionInv, WaitInv, NEW x \in Sides, Reports(x)
  PROVE  WaitInv'
<1>1. /\ errc \in Seq(Sides) /\ errc' = Append(errc, x)
      /\ pump[x] = "report" /\ pump'[x] = "done"
      /\ \A y \in Sides : y # x => pump'[y] = pump[y]
      /\ UNCHANGED <<main, conn, record>>
  BY DEF Reports, Goes, SessionInv, TypeOK
<1>2. /\ Len(errc') = Len(errc) + 1 /\ Len(errc) \in Nat
      /\ \A i \in 1..Len(errc) : errc'[i] = errc[i]
      /\ errc'[Len(errc) + 1] = x
  BY <1>1
<1>3. ~Ended(x) /\ record.by # x
  BY <1>1 DEF WaitInv
<1>4. \A y : Ended(y)' <=> Ended(y) \/ y = x
  BY <1>2 DEF Ended
<1>5. \A y \in Sides : pump'[y] = "done" <=> Ended(y)' \/ record'.by = y
  BY <1>1, <1>3, <1>4 DEF WaitInv
<1>6. /\ \A i, j \in 1..Len(errc') : errc'[i] = errc'[j] => i = j
      /\ \A i \in 1..Len(errc') : errc'[i] # record'.by
  <2>1. \A i \in 1..Len(errc') : i \in 1..Len(errc) \/ i = Len(errc) + 1
    BY <1>2
  <2> QED
    BY <1>1, <1>2, <1>3, <2>1 DEF WaitInv, Ended
<1>7. \A y \in Sides : pump[y] = "none" <=> pump'[y] = "none"
  BY <1>1
<1> QED
  BY <1>1, <1>5, <1>6, <1>7 DEF WaitInv

\* ServeHTTP takes the first end out of the channel.
LEMMA FirstErrWaitInv ==
  ASSUME SessionInv, WaitInv, FirstErr
  PROVE  WaitInv'
<1>1. /\ errc \in Seq(Sides) /\ errc # <<>> /\ errc' = Tail(errc)
      /\ main = "wait" /\ main' = "loadInput"
      /\ record'.by = Head(errc) /\ record.by = "none"
      /\ UNCHANGED <<pump, conn>>
  BY DEF FirstErr, NoRecord, SessionInv, TypeOK, WaitInv
<1>2. /\ Len(errc) \in Nat \ {0} /\ Len(errc') = Len(errc) - 1
      /\ Head(errc) = errc[1] /\ 1 \in 1..Len(errc)
      /\ \A i \in 1..Len(errc') : errc'[i] = errc[i + 1] /\ i + 1 \in 1..Len(errc)
  BY <1>1
<1>3. \A y \in Sides : Ended(y) <=> Ended(y)' \/ record'.by = y
  <2>1. ASSUME NEW y \in Sides, Ended(y) PROVE Ended(y)' \/ record'.by = y
    <3>1. PICK i \in 1..Len(errc) : errc[i] = y
      BY <2>1 DEF Ended
    <3>2. CASE i = 1
      BY <1>1, <1>2, <3>1, <3>2
    <3>3. CASE i # 1
      <4>1. i - 1 \in 1..Len(errc') /\ (i - 1) + 1 = i
        BY <1>2, <3>3
      <4> QED
        BY <1>2, <3>1, <4>1 DEF Ended
    <3> QED
      BY <3>2, <3>3
  <2>2. ASSUME NEW y \in Sides, Ended(y)' \/ record'.by = y PROVE Ended(y)
    BY <1>1, <1>2, <2>2 DEF Ended
  <2> QED
    BY <2>1, <2>2
<1>4. /\ \A i, j \in 1..Len(errc') : errc'[i] = errc'[j] => i = j
      /\ \A i \in 1..Len(errc') : errc'[i] # record'.by
  <2>1. ASSUME NEW i \in 1..Len(errc'), NEW j \in 1..Len(errc'), errc'[i] = errc'[j]
        PROVE  i = j
    <3>1. i + 1 = j + 1
      BY <1>2, <2>1 DEF WaitInv
    <3> QED
      BY <3>1
  <2>2. ASSUME NEW i \in 1..Len(errc') PROVE errc'[i] # record'.by
    <3>1. i + 1 # 1
      OBVIOUS
    <3> QED
      BY <1>1, <1>2, <3>1 DEF WaitInv
  <2> QED
    BY <2>1, <2>2
<1>5. \A y \in Sides : pump'[y] = "done" <=> Ended(y)' \/ record'.by = y
  <2>1. \A y \in Sides : record.by # y
    BY <1>1 DEF Sides
  <2> QED
    BY <1>1, <1>3, <2>1 DEF WaitInv
<1> QED
  BY <1>1, <1>4, <1>5 DEF WaitInv

\* Who has ended, and whose end is where, does not depend on what a pump reads
\* or taps.
LEMMA SameEndsWaitInv ==
  ASSUME WaitInv, UNCHANGED <<main, errc>>, record'.by = record.by,
         \A x \in Sides : pump'[x] = "none" <=> pump[x] = "none",
         \A x \in Sides : pump'[x] = "done" <=> pump[x] = "done",
         \A x \in Sides : conn[x] = "closed" => conn'[x] = "closed"
  PROVE  WaitInv'
<1>1. \A x : Ended(x)' <=> Ended(x)
  BY DEF Ended
<1>2. \A x \in Sides : pump'[x] = "done" <=> Ended(x)' \/ record'.by = x
  BY <1>1 DEF WaitInv
<1>3. /\ \A i, j \in 1..Len(errc') : errc'[i] = errc'[j] => i = j
      /\ \A i \in 1..Len(errc') : errc'[i] # record'.by
  BY DEF WaitInv
<1>4. /\ main' \in {"accept", "dial", "wait"} => record'.by = "none"
      /\ main' \in {"accept", "dial"} => \A x \in Sides : pump'[x] = "none"
      /\ main' = "wait" => \A x \in Sides : pump'[x] # "none"
  BY DEF WaitInv
<1>5. ASSUME main' \in {"closeClient", "returned"}, \E x \in Sides : pump'[x] # "none"
      PROVE  /\ conn'["upstream"] = "closed"
             /\ main' = "returned" => conn'["client"] = "closed"
  <2>1. \E x \in Sides : pump[x] # "none"
    BY <1>5
  <2>2. /\ conn["upstream"] = "closed"
        /\ main' = "returned" => conn["client"] = "closed"
    BY <1>5, <2>1 DEF WaitInv
  <2> QED
    BY <2>2 DEF Sides
<1> QED
  BY <1>2, <1>3, <1>4, <1>5 DEF WaitInv

LEMMA NextWaitInv == SessionInv /\ WaitInv /\ [Next]_vars => WaitInv'
<1> SUFFICES ASSUME SessionInv, WaitInv, [Next]_vars PROVE WaitInv'
  OBVIOUS
<1>1. ASSUME NEW x \in Sides, Reads(x) \/ Writes(x) \/ Fails(x) \/ PeerStep(x)
      PROVE  WaitInv'
  <2>1. UNCHANGED <<main, errc, record>>
    BY <1>1 DEF Reads, Writes, Fails, PeerStep
  <2>2. /\ \A y \in Sides : pump'[y] = "none" <=> pump[y] = "none"
        /\ \A y \in Sides : pump'[y] = "done" <=> pump[y] = "done"
        /\ \A y \in Sides : conn[y] = "closed" => conn'[y] = "closed"
    BY <1>1 DEF Reads, Writes, Fails, PeerStep, Goes, Onward, Gone, SessionInv,
       TypeOK, Sides
  <2> QED
    BY <2>1, <2>2, SameEndsWaitInv
<1>2. CASE TapStep
  <2>1. UNCHANGED <<main, errc, record, conn>>
    BY <1>2 DEF TapStep, TapsInput, TapsOutput
  <2>2. /\ \A y \in Sides : pump'[y] = "none" <=> pump[y] = "none"
        /\ \A y \in Sides : pump'[y] = "done" <=> pump[y] = "done"
    BY <1>2 DEF TapStep, TapsInput, TapsOutput, Goes, Onward, SessionInv, TypeOK,
       Sides
  <2> QED
    BY <2>1, <2>2, SameEndsWaitInv
<1>3. CASE \/ LoadsInput \/ LoadsOutput \/ Emits \/ Accept
           \/ \E b \in BOOLEAN : LoadsConfigured(b)
  <2>1. UNCHANGED <<pump, errc, conn>> /\ record'.by = record.by
    BY <1>3 DEF LoadsInput, LoadsOutput, LoadsConfigured, Emits, Accept, SessionInv,
       TypeOK
  <2>2. \/ main \notin {"accept", "dial", "wait", "closeClient", "returned"}
           /\ main' \notin {"accept", "dial", "wait", "closeClient", "returned"}
        \/ main = "accept" /\ main' \in {"dial", "returned"}
    BY <1>3 DEF LoadsInput, LoadsOutput, LoadsConfigured, Emits, Accept
  <2>3. \A x : Ended(x)' <=> Ended(x)
    BY <2>1 DEF Ended
  <2> QED
    BY <2>1, <2>2, <2>3 DEF WaitInv
<1>4. CASE Dial
  <2>1. /\ main = "dial" /\ UNCHANGED <<errc, conn, record>>
        /\ \/ main' = "wait" /\ \A x \in Sides : pump'[x] = "read"
           \/ main' = "closeClient" /\ pump' = pump
    BY <1>4 DEF Dial
  <2>2. \A x : Ended(x)' <=> Ended(x)
    BY <2>1 DEF Ended
  <2> QED
    BY <2>1, <2>2 DEF WaitInv
<1>5. CASE ClosesUpstream \/ ClosesClient
  <2>1. /\ UNCHANGED <<errc, pump, record>>
        /\ \/ main' = "closeClient" /\ conn'["upstream"] = "closed"
           \/ /\ main = "closeClient" /\ main' = "returned"
              /\ conn'["upstream"] = conn["upstream"] /\ conn'["client"] = "closed"
    BY <1>5 DEF ClosesUpstream, ClosesClient, SessionInv, TypeOK, Sides
  <2>2. \A x : Ended(x)' <=> Ended(x)
    BY <2>1 DEF Ended
  <2> QED
    BY <2>1, <2>2 DEF WaitInv
<1>6. CASE Terminated \/ UNCHANGED vars
  <2>1. UNCHANGED <<main, errc, record, pump, conn>>
    BY <1>6, Zenon DEF Terminated, vars
  <2> QED
    BY <2>1, SameEndsWaitInv
<1> QED
  BY <1>1, <1>2, <1>3, <1>4, <1>5, <1>6, ReportsWaitInv, FirstErrWaitInv,
     Zenon DEF Next, Running, ServeStep, PumpStep

\* No end of a pump is lost, and no pump is left to a connection that stays open:
\* the safety behind SessionEnds and PumpsEnd (wsproxy.go, ServeHTTP and its pumps).
THEOREM NobodyForgottenCorrect == LSpec => []NobodyForgotten
<1>1. SessionInv /\ WaitInv => NobodyForgotten
  <2> SUFFICES ASSUME SessionInv, WaitInv PROVE NobodyForgotten
    OBVIOUS
  <2>0. errc \in Seq(Sides) /\ Len(errc) \in Nat
    BY DEF SessionInv, TypeOK
  <2>1. ASSUME NEW x \in Sides, pump[x] = "report", Len(errc) >= 2 PROVE FALSE
    <3>1. 1 \in 1..Len(errc) /\ 2 \in 1..Len(errc)
      BY <2>0, <2>1
    <3>2. errc[1] \in Sides /\ errc[2] \in Sides /\ errc[1] # errc[2]
      BY <2>0, <3>1 DEF WaitInv
    <3>3. errc[1] = x \/ errc[2] = x
      BY <3>2, <2>1 DEF Sides
    <3>4. Ended(x)
      BY <3>1, <3>3 DEF Ended
    <3> QED
      BY <2>1, <3>4 DEF WaitInv
  <2>2. ASSUME main = "wait", NEW x \in Sides, pump[x] = "done" PROVE errc # <<>>
    <3>1. Ended(x)
      BY <2>2 DEF WaitInv, Sides
    <3> QED
      BY <3>1 DEF Ended
  <2>3. ASSUME main = "returned", \E x \in Sides : pump[x] # "none"
        PROVE  \A x \in Sides : conn[x] = "closed"
    BY <2>3 DEF WaitInv, Sides
  <2>4. \A x \in Sides : pump[x] = "report" => Len(errc) < 2
    BY <2>0, <2>1
  <2> QED
    BY <2>2, <2>3, <2>4 DEF NobodyForgotten
<1> QED
  BY <1>1, InitWaitInv, NextWaitInv, SessionInvCorrect, LifecycleIsWSProxy, PTL
     DEF Spec

-----------------------------------------------------------------------------

\* An exporter runs from before its flag is raised until after it is lowered; a
\* flag that is up was raised by a configuration that has not lowered it.
ExporterInv ==
  /\ stage \in [Configs -> {"new", "exporter", "listener", "live", "failed",
                            "stopped", "cleared", "down"}]
  /\ configured \in BOOLEAN /\ up \subseteq Exporting /\ muted \subseteq Exporting
  /\ \A c \in Configs : stage[c] \in {"exporter", "listener", "stopped", "cleared"}
                         => c \in Exporting
  /\ \A c \in Exporting : stage[c] \in {"exporter", "listener", "live", "stopped", "cleared"}
                           => c \in up
  /\ configured => \E c \in up : stage[c] \in {"listener", "live", "failed", "stopped"}

\* An exporting configuration that listens has its flag up, or another's
\* OnDestroy has lowered it; a session's host has been live.
CountedInv ==
  /\ \A c \in Exporting : stage[c] \in {"listener", "live"} => configured \/ c \in muted
  /\ host # 0 => host \in Configs /\ stage[host] \in {"live", "stopped", "cleared", "down"}
  /\ SessionCounted

LifecycleInv == SessionInv /\ ExporterInv /\ CountedInv

LEMMA InitLifecycle == LInit => LifecycleInv
<1> SUFFICES ASSUME LInit PROVE LifecycleInv
  OBVIOUS
<1>1. SessionInv
  BY InitSession DEF LInit
<1>2. ExporterInv
  BY ExportingAssumption DEF LInit, ExporterInv
<1>3. CountedInv
  BY ExportingAssumption
     DEF LInit, Init, NoRecord, CountedInv, SessionCounted, Configs
<1> QED
  BY <1>1, <1>2, <1>3 DEF LifecycleInv

\* Create and OnDestroy change nothing of a session.
LEMMA ConfigKeepsLifecycle ==
  ASSUME LifecycleInv, NEW c \in Configs, ConfigStep(c)
  PROVE  ExporterInv' /\ CountedInv'
<1> USE ExportingAssumption, LastAssumption
    DEF LifecycleInv, ExporterInv, CountedInv, SessionCounted, Enters, vars,
        Configs
<1>1. CASE StartsExporter(c)
  BY <1>1 DEF StartsExporter, Turn
<1>2. CASE RaisesFlag(c)
  BY <1>2 DEF RaisesFlag
<1>3. CASE Listens(c)
  BY <1>3 DEF Listens, Turn
<1>4. CASE StopsGroup(c)
  BY <1>4 DEF StopsGroup
<1>5. CASE ClearsFlag(c)
  BY <1>5 DEF ClearsFlag
<1>6. CASE ShutsExporter(c)
  BY <1>6 DEF ShutsExporter
<1> QED
  BY <1>1, <1>2, <1>3, <1>4, <1>5, <1>6, Zenon DEF ConfigStep

\* A session changes nothing of the configurations; it reads the flag.
LEMMA SessionKeepsLifecycle ==
  ASSUME LifecycleInv,
         (\E c \in Configs : Hosts(c)) \/ SessionStep \/ LoadsFlag
  PROVE  ExporterInv' /\ CountedInv'
<1> USE ExportingAssumption, LastAssumption
    DEF LifecycleInv, ExporterInv, CountedInv, SessionCounted, lvars, Configs
<1>1. ASSUME NEW c \in Configs, Hosts(c) PROVE ExporterInv' /\ CountedInv'
  <2>1. record' = record /\ record.as # "log"
    BY <1>1 DEF Hosts, Accept, SessionInv, RecordInv, Recorded
  <2> QED
    BY <1>1, <2>1 DEF Hosts
<1>2. CASE SessionStep
  <2>1. record'.as = "log" => record.as = "log"
    BY <1>2 DEF SessionStep, Running, ServeStep, Dial, FirstErr, LoadsInput,
       LoadsOutput, Emits, ClosesUpstream, ClosesClient, TapStep, TapsInput,
       TapsOutput, Reads, PumpStep, Writes, Fails, Reports, PeerStep, NoRecord,
       SessionInv, TypeOK
  <2> QED
    BY <1>2, <2>1 DEF SessionStep
<1>3. CASE LoadsFlag
  <2>1. configured => record'.as # "log"
    BY <1>3 DEF LoadsFlag, LoadsConfigured, SessionInv, TypeOK, RecordInv, Recorded
  <2> QED
    BY <1>3, <2>1 DEF LoadsFlag
<1> QED
  BY <1>1, <1>2, <1>3

LEMMA NextLifecycle == LifecycleInv /\ [LNext]_allVars => LifecycleInv'
<1> SUFFICES ASSUME LifecycleInv, [LNext]_allVars PROVE LifecycleInv'
  OBVIOUS
<1>1. SessionInv'
  BY StepIsWSProxy, NextSession DEF LifecycleInv
<1>2. ExporterInv' /\ CountedInv'
  <2>1. CASE Over \/ UNCHANGED allVars
    <3>1. UNCHANGED allVars
      BY <2>1, Zenon DEF Over
    <3> QED
      BY <3>1 DEF LifecycleInv, ExporterInv, CountedInv, SessionCounted,
         allVars, vars, lvars
  <2> QED
    BY <2>1, ConfigKeepsLifecycle, SessionKeepsLifecycle, Zenon DEF LNext
<1> QED
  BY <1>1, <1>2 DEF LifecycleInv

LEMMA LifecycleInvCorrect == LSpec => []LifecycleInv
  BY InitLifecycle, NextLifecycle, PTL DEF LSpec

\* A flag that is up means an exporter that runs at that moment, for any number
\* of configurations (observability.go, newActorObservability and Shutdown).
THEOREM FlagMeansExporterCorrect == LSpec => []FlagMeansExporter
<1>1. LifecycleInv => FlagMeansExporter
  BY DEF LifecycleInv, ExporterInv, FlagMeansExporter
<1> QED
  BY <1>1, LifecycleInvCorrect, PTL

\* A session is missing from telemetry only where an OnDestroy has lowered the
\* flag (observability.go, recordActorSession).
THEOREM SessionCountedCorrect == LSpec => []SessionCounted
<1>1. LifecycleInv => SessionCounted
  BY DEF LifecycleInv, CountedInv
<1> QED
  BY <1>1, LifecycleInvCorrect, PTL
===============================================================================
