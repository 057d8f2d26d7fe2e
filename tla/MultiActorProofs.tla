--------------------------- MODULE MultiActorProofs ---------------------------
(***************************************************************************)
(* Proofs about MultiActor: what a filter's Create and OnDestroy make of a *)
(* group is a Group, so that what GroupProofs proves of any group holds of *)
(* this one; and the ports it binds are released.                          *)
(***************************************************************************)
EXTENDS MultiActor, GroupProofs

\* Every step of the configuration is one of the group's, or none of its
\* business.
LEMMA MultiActorStep == [MNext]_mvars => [Next]_vars
<1> SUFFICES ASSUME [MNext]_mvars PROVE [Next]_vars
  OBVIOUS
<1>1. CASE CreateStep
  <2>1. Launch \/ Started \/ UNCHANGED vars
    BY <1>1, Zenon DEF CreateStep, BindsHTTP, BindsProbe, Binds, StartsGroup,
       CreateReturns
  <2> QED
    BY <2>1, Zenon DEF Next
<1>2. CASE OnDestroy
  <2>1. Destroy \in Stoppers
    BY ActorsAssumption DEF Stoppers
  <2> QED
    BY <1>2, <2>1 DEF OnDestroy, Next
<1>3. ASSUME NEW a \in Actors, ActorEnds(a) \/ Reports(a) PROVE Next
  BY <1>3 DEF ActorEnds, ActorStep, Next
<1>4. ASSUME NEW s \in Stoppers, MStopStep(s) PROVE Next
  BY <1>4 DEF MStopStep, StopsActor, StopStep, Next
<1>5. CASE WatcherWakes \/ AcceptsProbe \/ ProbeConnEnds
  BY <1>5 DEF AcceptsProbe, ProbeConnEnds, Next
<1>6. CASE MTerminated \/ UNCHANGED mvars
  BY <1>6 DEF MTerminated, mvars
<1> QED
  BY <1>1, <1>2, <1>3, <1>4, <1>5, <1>6 DEF MNext

\* What a filter's Create and OnDestroy make of a group is a group
\* (multi_actor.go and server.go).
THEOREM MultiActorIsGroup == MSpec => Spec
<1>1. MInit => Init
  BY DEF MInit
<1> QED
  BY <1>1, MultiActorStep, PTL DEF MSpec, Spec

-----------------------------------------------------------------------------

\* Ports are bound before Start; from then on they are only released: the
\* probe's by its stop function, the HTTP server's at the latest when its actor
\* ends.
PortsInv ==
  /\ create \in {"new", "http", "built", "live", "failed"}
  /\ bound \subseteq {HTTP, Probe}
  /\ started => create = "live"
  /\ create \in {"new", "http"} => launched = 0 /\ told = {}
  /\ Probe \in told => Probe \notin bound
  /\ actor[HTTP] \in {"report", "done"} => HTTP \notin bound

LEMMA InitPortsInv == MInit => PortsInv
<1> SUFFICES ASSUME MInit PROVE PortsInv
  OBVIOUS
<1>1. HTTP \in Actors
  BY ActorsAssumption DEF HTTP, Actors
<1> QED
  BY <1>1 DEF MInit, Init, PortsInv

LEMMA NextPortsInv == GroupInv /\ PortsInv /\ [MNext]_mvars => PortsInv'
<1> SUFFICES ASSUME GroupInv, PortsInv, [MNext]_mvars PROVE PortsInv'
  OBVIOUS
<1>1. /\ TypeOK /\ StartInv
      /\ HTTP \in Actors /\ Probe \in Actors /\ HTTP = 1 /\ Probe = 3
  BY ActorsAssumption DEF GroupInv, HTTP, Probe, Actors
<1>2. CASE BindsHTTP \/ BindsProbe
  <2>1. /\ create \in {"new", "http"} /\ create' \in {"http", "built", "failed"}
        /\ bound' \subseteq {HTTP, Probe} /\ UNCHANGED <<started, launched, told, actor>>
    BY <1>2 DEF BindsHTTP, BindsProbe, Binds, PortsInv, vars
  <2>2. actor[HTTP] = "no"
    BY <1>1, <2>1 DEF StartInv, PortsInv
  <2>3. ~started
    BY <2>1 DEF PortsInv
  <2> QED
    BY <2>1, <2>2, <2>3 DEF PortsInv
<1>3. CASE StartsGroup
  BY <1>1, <1>3 DEF StartsGroup, Launch, ownVars, PortsInv, TypeOK
<1>4. CASE CreateReturns
  BY <1>4 DEF CreateReturns, Started, PortsInv
<1>5. CASE OnDestroy
  BY <1>5 DEF OnDestroy, Calls, ownVars, PortsInv
<1>6. ASSUME NEW a \in Actors, ActorEnds(a) PROVE PortsInv'
  BY <1>1, <1>6 DEF ActorEnds, Ends, PortsInv, TypeOK
<1>7. ASSUME NEW a \in Actors, Reports(a), UNCHANGED ownVars PROVE PortsInv'
  BY <1>1, <1>7 DEF Reports, ownVars, PortsInv, TypeOK
<1>8. CASE WatcherWakes /\ UNCHANGED ownVars
  BY <1>8 DEF WatcherWakes, ownVars, PortsInv
<1>9. ASSUME NEW s \in Stoppers, StopsActor(s) PROVE PortsInv'
  <2>1. /\ create' = create /\ bound' \subseteq bound
        /\ UNCHANGED <<started, launched, actor>>
        /\ told' = told \cup {stopper[s].next} /\ stopper[s].at = "stop"
    BY <1>9 DEF StopsActor, TellsActor
  <2>2. create = "live"
    BY <1>1, <2>1 DEF StartInv, PortsInv
  <2>3. ASSUME Probe \in told' PROVE Probe \notin bound'
    <3>1. CASE stopper[s].next = Probe
      BY <1>1, <1>9, <3>1 DEF StopsActor
    <3>2. CASE stopper[s].next # Probe
      BY <2>1, <2>3, <3>2 DEF PortsInv
    <3> QED
      BY <3>1, <3>2
  <2> QED
    BY <2>1, <2>2, <2>3 DEF PortsInv
<1>10. ASSUME NEW s \in Stoppers, UNCHANGED ownVars,
              Enters(s) \/ Follows(s) \/ Cancels(s) \/ StopFunctionReturns(s)
                \/ Returns(s)
       PROVE  PortsInv'
  BY <1>10 DEF Enters, Follows, Cancels, StopFunctionReturns, Returns, ownVars,
               PortsInv
<1>11. CASE AcceptsProbe \/ ProbeConnEnds \/ MTerminated \/ UNCHANGED mvars
  BY <1>11 DEF AcceptsProbe, ProbeConnEnds, MTerminated, mvars, vars, ownVars,
               PortsInv
<1> QED
  BY <1>2, <1>3, <1>4, <1>5, <1>6, <1>7, <1>8, <1>9, <1>10, <1>11
     DEF MNext, CreateStep, MStopStep

\* When OnDestroy returns both ports are free, in whatever order the actors
\* failed, were told and ended (multi_actor.go, Create and OnDestroy).
THEOREM PortsReleasedCorrect == MSpec => []PortsReleased
<1>1. ASSUME GroupInv, PortsInv PROVE PortsReleased
  <2> SUFFICES ASSUME stopper[Destroy].at = "returned" PROVE bound = {}
    BY DEF PortsReleased
  <2>1. Destroy \in Stoppers /\ HTTP \in Actors /\ Probe \in Actors
    BY ActorsAssumption DEF Stoppers, HTTP, Probe, Actors
  <2>2. once = "done"
    BY <1>1, <2>1 DEF GroupInv, OnceInv
  <2>3. actor[HTTP] = "done" /\ Probe \in told
    BY <1>1, <2>1, <2>2 DEF GroupInv, OnceInv, ToldInv
  <2> QED
    BY <1>1, <2>3 DEF PortsInv
<1>2. [MNext]_mvars => [Next]_vars
  BY MultiActorStep
<1>3. MInit => Init
  BY DEF MInit
<1> QED
  BY <1>1, <1>2, <1>3, InitGroupInv, NextGroupInv, InitPortsInv, NextPortsInv,
     PTL DEF MSpec
===============================================================================
