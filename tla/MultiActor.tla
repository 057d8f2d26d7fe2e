------------------------------ MODULE MultiActor ------------------------------
(***************************************************************************)
(* examples/multi-actor: a filter configuration whose Create binds two     *)
(* listeners and starts a Group of three actors, an HTTP server, a         *)
(* periodic task and a probe server, and whose OnDestroy stops the group.  *)
(* Group is the module of that name, with N = 3, the task as its only      *)
(* AddGoroutine actor, and OnDestroy as the only caller of Stop besides    *)
(* the watcher; prof.Start, server.New and ws-proxy build the same thing   *)
(* with the HTTP actor alone.                                              *)
(*                                                                         *)
(* net/http is outside the repository: Shutdown closes a listener that     *)
(* Serve has taken over, and Serve closes its listener whenever it ends.   *)
(***************************************************************************)
EXTENDS Group

CONSTANT MaxConns  \* bound: probe connections served at a time

HTTP == 1
Refresh == 2
Probe == 3
Destroy == "destroy"

ASSUME MaxConnsAssumption == MaxConns \in Nat
ASSUME ActorsAssumption ==
  N = 3 /\ Goroutines = {Refresh} /\ Callers = {Destroy}

VARIABLES
  create,  \* Create: "new", "http" bound, "built", "live", or "failed"
  bound,   \* the listeners, named by their actor, that are bound
  conns    \* handleProbeConn goroutines

ownVars == <<create, bound, conns>>
mvars == <<vars, ownVars>>

MInit == Init /\ create = "new" /\ bound = {} /\ conns = 0

-----------------------------------------------------------------------------

\* Create binds a listener and goes on, or returns the error and nothing else:
\* what it has bound before stays bound.
Binds(from, a, to) ==
  /\ create = from
  /\ \/ create' = to /\ bound' = bound \cup {a}
     \/ create' = "failed" /\ UNCHANGED bound
  /\ UNCHANGED <<vars, conns>>

BindsHTTP  == Binds("new", HTTP, "http")
BindsProbe == Binds("http", Probe, "built")

StartsGroup == create = "built" /\ Launch /\ UNCHANGED ownVars

\* Start and Create return: Envoy has a factory.
CreateReturns ==
  /\ create = "built" /\ Started
  /\ create' = "live"
  /\ UNCHANGED <<bound, conns>>

\* Serve closes its listener on the way out, serveProbe does not: whatever made
\* Accept fail, the listener is its stop function's to close.
ActorEnds(a) ==
  /\ Ends(a)
  /\ bound' = bound \ ({a} \cap {HTTP})
  /\ UNCHANGED <<create, conns>>

\* A mutant: the probe's stop function leaves the listener to its actor.
StopLeavesProbe(s) ==
  /\ TellsActor(s)
  /\ bound' \in {bound, bound \ ({stopper[s].next} \cap {HTTP})}
  /\ UNCHANGED <<create, conns>>
\* Shutdown finds the HTTP listener only if Serve has begun; the probe's stop
\* function closes its own.
StopsActor(s) ==
  /\ TellsActor(s)
  /\ IF stopper[s].next = HTTP
     THEN bound' \in {bound, bound \ {HTTP}}
     ELSE bound' = bound \ {stopper[s].next}
  /\ UNCHANGED <<create, conns>>

OnDestroy == create = "live" /\ Calls(Destroy) /\ UNCHANGED ownVars

\* serveProbe's loop: a goroutine for each connection.
AcceptsProbe ==
  /\ actor[Probe] = "execute" /\ Probe \in bound /\ conns < MaxConns
  /\ conns' = conns + 1
  /\ UNCHANGED <<vars, create, bound>>

\* handleProbeConn returns: it has answered, the client has left, or the
\* deadline is over.
ProbeConnEnds ==
  /\ conns > 0
  /\ conns' = conns - 1
  /\ UNCHANGED <<vars, create, bound>>

\* Create failed, or everything has ended.
MTerminated ==
  /\ create = "failed" \/ Terminated
  /\ conns = 0
  /\ UNCHANGED mvars

-----------------------------------------------------------------------------

CreateStep == BindsHTTP \/ BindsProbe \/ StartsGroup \/ CreateReturns

MStopStep(s) ==
  \/ StopsActor(s)
  \/ (Enters(s) \/ Follows(s) \/ Cancels(s) \/ StopFunctionReturns(s) \/ Returns(s))
     /\ UNCHANGED ownVars

MNext ==
  \/ CreateStep \/ OnDestroy
  \/ \E a \in Actors : ActorEnds(a) \/ (Reports(a) /\ UNCHANGED ownVars)
  \/ WatcherWakes /\ UNCHANGED ownVars
  \/ \E s \in Stoppers : MStopStep(s)
  \/ AcceptsProbe \/ ProbeConnEnds
  \/ MTerminated

\* Group's fairness, and the deadline of a probe connection.
MFairness ==
  /\ WF_mvars(CreateStep) /\ WF_mvars(WatcherWakes /\ UNCHANGED ownVars)
  /\ \A a \in Actors : /\ WF_mvars(Told(a) /\ ActorEnds(a))
                       /\ WF_mvars(Reports(a) /\ UNCHANGED ownVars)
  /\ \A s \in Stoppers : WF_mvars(MStopStep(s))
  /\ WF_mvars(ProbeConnEnds)

MSpec == MInit /\ [][MNext]_mvars
MFairSpec == MSpec /\ MFairness

-----------------------------------------------------------------------------

\* What Create acquired is released: when OnDestroy returns neither port is
\* bound, in whatever order actors failed, were told and ended.  (A Create that
\* failed gets no OnDestroy.)
PortsReleased == stopper[Destroy].at = "returned" => bound = {}

\* The goroutines besides the actors end as well: the watcher, and those of the
\* probe connections, which no WaitGroup knows.
GoroutinesEnd == WatcherEnds /\ (stopper[Destroy].at = "returned" ~> conns = 0)
===============================================================================
