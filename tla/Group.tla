-------------------------------- MODULE Group --------------------------------
(***************************************************************************)
(* server.Group: background actors that start together and stop together.  *)
(* Start launches one goroutine per actor and a watcher that calls Stop    *)
(* when the first actor ends; filters call Stop too, from OnDestroy, any   *)
(* number of times and from any thread, once Start has returned.           *)
(*                                                                         *)
(* Actors are numbered in the order of registration.  What an actor's      *)
(* execute does is its own affair: it may end at any time, by returning,   *)
(* with an error or with a panic, which wrapPanic turns into an error; and *)
(* it ends once it has been told to stop.                                  *)
(***************************************************************************)
EXTENDS Naturals, FiniteSets

CONSTANTS
  N,           \* number of registered actors
  Goroutines,  \* those registered with AddGoroutine: stopped by the context
  Callers      \* threads that call Stop

Actors == 1..N
Watcher == "watcher"
Stoppers == Callers \cup {Watcher}

ASSUME NAssumption          == N \in Nat
ASSUME GoroutinesAssumption == Goroutines \subseteq Actors
ASSUME CallersAssumption    == Watcher \notin Callers

VARIABLES
  launched,   \* actors whose goroutine Start has launched so far: 1..launched
  started,    \* Start has returned
  actor,      \* each actor's goroutine: "no", "execute", "report", "done"
  errc,       \* ends reported and not received
  cancelled,  \* g.ctx is cancelled
  told,       \* actors whose stop function has been called
  once,       \* g.once: "new", "running", "done"
  stopper     \* each thread that stops the group: where it is, and the actor
              \* whose stop function it is in or comes to next

vars == <<launched, started, actor, errc, cancelled, told, once, stopper>>

Init ==
  /\ launched = 0 /\ started = FALSE
  /\ actor = [a \in Actors |-> "no"]
  /\ errc = 0 /\ cancelled = FALSE /\ told = {} /\ once = "new"
  /\ stopper = [s \in Stoppers |-> [at |-> "idle", next |-> 1]]

-----------------------------------------------------------------------------

\* One turn of Start's loop: wg.Add and the goroutine.
Launch ==
  /\ ~started /\ launched < N
  /\ launched' = launched + 1
  /\ actor' = [actor EXCEPT ![launched + 1] = "execute"]
  /\ UNCHANGED <<started, errc, cancelled, told, once, stopper>>

\* Start returns, with the watcher launched unless there is no actor at all.
Started ==
  /\ ~started /\ launched = N
  /\ started' = TRUE
  /\ stopper' = IF N = 0 THEN stopper
                ELSE [stopper EXCEPT ![Watcher].at = "watch"]
  /\ UNCHANGED <<launched, actor, errc, cancelled, told, once>>

\* execute ends, in one of its ways.
Ends(a) ==
  /\ actor[a] = "execute"
  /\ actor' = [actor EXCEPT ![a] = "report"]
  /\ UNCHANGED <<launched, started, errc, cancelled, told, once, stopper>>

\* A mutant: the channel has room for the first end only.
ErrcRoomForOne == errc < 1
\* errc has room for every actor.
ErrcRoom == errc < N

\* A mutant: an actor that ends while the group is stopping does not report it.
ReportsUnlessStopping(a) ==
  /\ actor[a] = "report" /\ ErrcRoom
  /\ errc' = IF cancelled THEN errc ELSE errc + 1
  /\ actor' = [actor EXCEPT ![a] = "done"]
  /\ UNCHANGED <<launched, started, cancelled, told, once, stopper>>
\* The send to errc, then the deferred wg.Done.
Reports(a) ==
  /\ actor[a] = "report" /\ ErrcRoom
  /\ errc' = errc + 1
  /\ actor' = [actor EXCEPT ![a] = "done"]
  /\ UNCHANGED <<launched, started, cancelled, told, once, stopper>>

Moves(s, at) == stopper' = [stopper EXCEPT ![s].at = at]

\* A mutant: the watcher takes the first end and stops nothing.
WatcherGivesUp ==
  /\ stopper[Watcher].at = "watch" /\ errc > 0
  /\ errc' = errc - 1
  /\ Moves(Watcher, "returned")
  /\ UNCHANGED <<launched, started, actor, cancelled, told, once>>
WatcherWakes ==
  /\ stopper[Watcher].at = "watch" /\ errc > 0
  /\ errc' = errc - 1
  /\ Moves(Watcher, "call")
  /\ UNCHANGED <<launched, started, actor, cancelled, told, once>>

Calls(s) ==
  /\ started /\ s \in Callers /\ stopper[s].at = "idle"
  /\ Moves(s, "call")
  /\ UNCHANGED <<launched, started, actor, errc, cancelled, told, once>>

\* A mutant: every call of Stop does the work.
EntersAlways(s) ==
  /\ stopper[s].at = "call"
  /\ once' = "running"
  /\ Moves(s, "cancel")
  /\ UNCHANGED <<launched, started, actor, errc, cancelled, told>>
\* once.Do: the first call does the work, ...
Enters(s) ==
  /\ stopper[s].at = "call" /\ once = "new"
  /\ once' = "running"
  /\ Moves(s, "cancel")
  /\ UNCHANGED <<launched, started, actor, errc, cancelled, told>>

\* A mutant: a later call does not wait for the first.
FollowsAtOnce(s) ==
  /\ stopper[s].at = "call" /\ once # "new"
  /\ Moves(s, "returned")
  /\ UNCHANGED <<launched, started, actor, errc, cancelled, told, once>>
\* ... any other waits until it is done.
Follows(s) ==
  /\ stopper[s].at = "call" /\ once = "done"
  /\ Moves(s, "returned")
  /\ UNCHANGED <<launched, started, actor, errc, cancelled, told, once>>

Cancels(s) ==
  /\ stopper[s].at = "cancel"
  /\ cancelled' = TRUE
  /\ Moves(s, "stop")
  /\ UNCHANGED <<launched, started, actor, errc, told, once>>

\* The stop functions, one after the other.  A listener's is http.Server's
\* Shutdown, which ends Serve at once and returns when the connections are idle
\* or the timeout is over; an AddGoroutine actor's does nothing.
TellsActor(s) ==
  /\ stopper[s].at = "stop" /\ stopper[s].next <= N
  /\ told' = told \cup {stopper[s].next}
  /\ Moves(s, "shutdown")
  /\ UNCHANGED <<launched, started, actor, errc, cancelled, once>>

StopFunctionReturns(s) ==
  /\ stopper[s].at = "shutdown"
  /\ stopper' = [stopper EXCEPT ![s] = [at |-> "stop", next |-> @.next + 1]]
  /\ UNCHANGED <<launched, started, actor, errc, cancelled, told, once>>

\* wg.Wait, and Stop returns.
Returns(s) ==
  /\ stopper[s].at = "stop" /\ stopper[s].next = N + 1
  /\ \A a \in Actors : actor[a] \in {"no", "done"}
  /\ once' = "done"
  /\ Moves(s, "returned")
  /\ UNCHANGED <<launched, started, actor, errc, cancelled, told>>

\* Everything has ended, or the group is empty and nobody calls Stop.
Terminated ==
  /\ started /\ \A a \in Actors : actor[a] = "done"
  /\ \A s \in Stoppers : stopper[s].at \in {"idle", "returned"}
  /\ UNCHANGED vars

-----------------------------------------------------------------------------

ActorStep(a) == Ends(a) \/ Reports(a)
StopStep(s) ==
  \/ Enters(s) \/ Follows(s) \/ Cancels(s) \/ TellsActor(s)
  \/ StopFunctionReturns(s) \/ Returns(s)

Next ==
  \/ Launch \/ Started
  \/ \E a \in Actors : ActorStep(a)
  \/ WatcherWakes
  \/ \E s \in Stoppers : Calls(s) \/ StopStep(s)
  \/ Terminated

\* What makes execute return: its own stop function, or the context for an
\* AddGoroutine actor.
Told(a) == IF a \in Goroutines THEN cancelled ELSE a \in told

\* Go runs runnable goroutines; an actor that has been told to stop does (Add's
\* contract), one that has not need never end; nobody need ever call Stop.
Fairness ==
  /\ WF_vars(Launch) /\ WF_vars(Started) /\ WF_vars(WatcherWakes)
  /\ \A a \in Actors : WF_vars(Told(a) /\ Ends(a)) /\ WF_vars(Reports(a))
  /\ \A s \in Stoppers : WF_vars(StopStep(s))

Spec == Init /\ [][Next]_vars
FairSpec == Spec /\ Fairness

-----------------------------------------------------------------------------
(***************************************************************************)
(* Properties.                                                             *)
(***************************************************************************)

\* Every variable has its type; errc never holds more than one end per actor.
TypeOK ==
  /\ launched \in 0..N /\ started \in BOOLEAN
  /\ actor \in [Actors -> {"no", "execute", "report", "done"}]
  /\ errc \in 0..N /\ cancelled \in BOOLEAN /\ told \subseteq Actors
  /\ once \in {"new", "running", "done"}
  /\ stopper \in [Stoppers ->
       [at : {"idle", "watch", "call", "cancel", "stop", "shutdown",
              "returned"},
        next : 1..(N + 1)]]

\* Whichever call of Stop returns, and however many overlap, no actor's
\* goroutine is left: OnDestroy may be followed by unloading what they use.
StopMeansStopped ==
  \A s \in Stoppers :
    stopper[s].at = "returned" => \A a \in Actors : actor[a] = "done"

\* At most one thread is inside Stop's body, so no stop function is called
\* twice; actors are told in the order of registration.
StoppedOnce ==
  /\ Cardinality({s \in Stoppers : stopper[s].at \in {"cancel", "stop", "shutdown"}}) <= 1
  /\ \A a \in told : \A b \in 1..a : b \in told

\* No wake-up is lost, which is what liveness rests on: an actor that has ended
\* finds room in errc; an end is there for the watcher to receive; a thread
\* waits for the once only while another is in Stop's body; and wg.Wait waits
\* only for actors that have ended or been told to.
NobodyForgotten ==
  /\ \A a \in Actors : actor[a] = "report" => ErrcRoom
  /\ \A a \in Actors :
       actor[a] = "done" /\ stopper[Watcher].at = "watch" => errc > 0
  /\ \A s \in Stoppers : stopper[s].at = "call" /\ once = "running" =>
       \E t \in Stoppers : stopper[t].at \in {"cancel", "stop", "shutdown"}
  /\ \A s \in Stoppers : stopper[s].at = "stop" /\ stopper[s].next = N + 1 =>
       \A a \in Actors : actor[a] \in {"report", "done"} \/ Told(a)

\* When one actor ends, for whatever reason, all do.
EndTogether ==
  (\E a \in Actors : actor[a] = "done") ~> (\A a \in Actors : actor[a] = "done")

\* Every call of Stop returns.
StopReturns ==
  \A s \in Stoppers : stopper[s].at = "call" ~> stopper[s].at = "returned"

\* The watcher's goroutine does not outlive a group that was stopped.
WatcherEnds == once = "done" ~> stopper[Watcher].at \in {"idle", "returned"}
===============================================================================
