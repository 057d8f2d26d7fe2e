----------------------------- MODULE WSLifecycle -----------------------------
(***************************************************************************)
(* The configurations of examples/ws-proxy: each Create starts a telemetry *)
(* exporter, if the configuration has an OTEL endpoint, and a listener,    *)
(* each OnDestroy stops them.  Whether an actor's telemetry is configured  *)
(* is one flag of the process, and a session (WSProxy) reads it when it    *)
(* ends: its connection is hijacked, so group.Stop neither ends nor awaits *)
(* it, and the configuration that accepted it may be gone by then.         *)
(*                                                                         *)
(* Envoy creates one configuration at a time; it may destroy an old one    *)
(* before, while or after a new one is created, or never.  How Stop works  *)
(* is Group's matter: here it is the step at which no more sessions are    *)
(* accepted.  The telemetry libraries are outside the repository; the      *)
(* model says nothing of which sink the metrics reach, only which          *)
(* exporters run.                                                          *)
(***************************************************************************)
EXTENDS WSProxy

CONSTANTS
  Last,      \* bound: configurations 1..Last are created in this order
  Exporting  \* those with an OTEL endpoint

Configs == 1..Last

ASSUME LastAssumption == Last \in Nat
ASSUME ExportingAssumption == Exporting \subseteq Configs

VARIABLES
  stage,       \* where Create or OnDestroy of a configuration is
  configured,  \* actorObservabilityConfigured
  up,          \* configurations whose exporter runs
  host,        \* the configuration whose listener accepted the session, or 0
  muted        \* those whose flag another's OnDestroy has cleared

lvars == <<stage, configured, up, host, muted>>
allVars == <<vars, lvars>>

LInit ==
  /\ Init
  /\ stage = [c \in Configs |-> "new"]
  /\ configured = FALSE /\ up = {} /\ host = 0 /\ muted = {}

Enters(c, at) == stage' = [stage EXCEPT ![c] = at]

-----------------------------------------------------------------------------
(***************************************************************************)
(* Create.                                                                 *)
(***************************************************************************)

Turn(c) ==
  /\ stage[c] = "new"
  /\ \A d \in Configs : d < c => stage[d] \notin {"new", "exporter", "listener"}

\* newActorObservability returns the exporter's error, or starts its reader and
\* makes its sink the global one; ...
StartsExporter(c) ==
  /\ Turn(c) /\ c \in Exporting
  /\ \/ Enters(c, "exporter") /\ up' = up \cup {c}
     \/ Enters(c, "failed") /\ UNCHANGED up
  /\ UNCHANGED <<vars, configured, host, muted>>

\* A mutant: the flag is the first exporter's to raise.
RaisedOnce(c) ==
  /\ stage[c] = "exporter"
  /\ configured' = (configured \/ \A d \in Exporting : d >= c)
  /\ Enters(c, "listener")
  /\ UNCHANGED <<vars, up, host, muted>>
\* ... then it raises the flag.
RaisesFlag(c) ==
  /\ stage[c] = "exporter"
  /\ configured' = TRUE
  /\ Enters(c, "listener")
  /\ UNCHANGED <<vars, up, host, muted>>

\* Create binds its listener and starts the group, or fails and leaves the
\* exporter, and the flag, as they are.
Listens(c) ==
  /\ stage[c] = "listener" \/ (Turn(c) /\ c \notin Exporting)
  /\ \/ Enters(c, "live")
     \/ Enters(c, "failed")
  /\ UNCHANGED <<vars, configured, up, host, muted>>

-----------------------------------------------------------------------------
(***************************************************************************)
(* OnDestroy.                                                              *)
(***************************************************************************)

StopsGroup(c) ==
  /\ stage[c] = "live"
  /\ Enters(c, IF c \in Exporting THEN "stopped" ELSE "down")
  /\ UNCHANGED <<vars, configured, up, host, muted>>

\* A mutant: Shutdown leaves the flag as it is.
ClearsNothing(c) ==
  /\ stage[c] = "stopped"
  /\ Enters(c, "cleared")
  /\ UNCHANGED <<vars, configured, up, host, muted>>
\* Shutdown lowers the flag, whoever has raised it since, ...
ClearsFlag(c) ==
  /\ stage[c] = "stopped"
  /\ configured' = FALSE
  /\ muted' = muted \cup {d \in Exporting : stage[d] \in {"listener", "live"}}
  /\ Enters(c, "cleared")
  /\ UNCHANGED <<vars, up, host>>

\* ... then it stops the exporter.
ShutsExporter(c) ==
  /\ stage[c] = "cleared"
  /\ up' = up \ {c}
  /\ Enters(c, "down")
  /\ UNCHANGED <<vars, configured, host, muted>>

-----------------------------------------------------------------------------

\* Bound: configurations are followed to the end of the session.
ConfigStep(c) ==
  /\ main # "returned"
  /\ \/ StartsExporter(c) \/ RaisesFlag(c) \/ Listens(c)
     \/ StopsGroup(c) \/ ClearsFlag(c) \/ ShutsExporter(c)

\* A session begins on a listener that is open.
Hosts(c) ==
  /\ stage[c] = "live"
  /\ Accept
  /\ host' = c
  /\ UNCHANGED <<stage, configured, up, muted>>

SessionStep == Running /\ UNCHANGED lvars
LoadsFlag == LoadsConfigured(configured) /\ UNCHANGED lvars

\* The session is over, or no client ever comes.
Over == (Terminated \/ main = "accept") /\ UNCHANGED allVars

LNext ==
  \/ \E c \in Configs : ConfigStep(c) \/ Hosts(c)
  \/ SessionStep \/ LoadsFlag \/ Over

\* Go runs what can run, in a session that has begun; the peers owe nothing, not
\* even a frame to read, and Envoy owes no configuration.
LFairness ==
  /\ WF_allVars(ServeStep /\ UNCHANGED lvars) /\ WF_allVars(LoadsFlag)
  /\ WF_allVars(TapStep /\ UNCHANGED lvars)
  /\ \A x \in Sides : WF_allVars(PumpStep(x) /\ UNCHANGED lvars)

LSpec == LInit /\ [][LNext]_allVars
LFairSpec == LSpec /\ LFairness

-----------------------------------------------------------------------------
(***************************************************************************)
(* Properties.                                                             *)
(***************************************************************************)

\* Whoever finds the flag up finds some exporter running, at that moment, however
\* Creates, failed Creates and OnDestroys follow and overlap each other.  (It may
\* be gone when the metrics are used, a step later.)
FlagMeansExporter == configured => up # {}

\* The session of an exporting configuration is measured, unless its own
\* OnDestroy has begun or another configuration's has muted it: the flag has one
\* bit for all of them.  (OBSERVABILITY.md, by which the session's end emits metrics
\* when otel_endpoint is set, has no such exception.)
SessionCounted ==
  (record.as = "log" /\ host \in Exporting) =>
    stage[host] # "live" \/ host \in muted
=============================================================================
