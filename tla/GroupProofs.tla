------------------------------ MODULE GroupProofs ------------------------------
(***************************************************************************)
(* Proofs about Group, for any number of actors, whichever of them are     *)
(* goroutines, and any set of threads that call Stop.                      *)
(***************************************************************************)
EXTENDS Group, FiniteSetTheorems, TLAPS

InBody(s) == stopper[s].at \in {"cancel", "stop", "shutdown"}

\* Actors exist once launched; nobody stops the group before Start returned.
StartInv ==
  /\ \A a \in Actors : actor[a] = "no" <=> a > launched
  /\ started => launched = N
  /\ \A s \in Stoppers : stopper[s].at # "idle" => started

\* The once admits one thread to Stop's body, and is done only when that thread
\* has seen every actor end.
OnceInv ==
  /\ \A s \in Stoppers : InBody(s) => once = "running"
  /\ \A s, t \in Stoppers : InBody(s) /\ InBody(t) => s = t
  /\ \A s \in Stoppers : stopper[s].at = "returned" => once = "done"
  /\ once = "done" => \A a \in Actors : actor[a] = "done"

\* Who has been told is known from the place of the thread in the body.
ToldInv ==
  /\ \A a \in told : \A b \in 1..a : b \in told
  /\ once = "new" => told = {}
  /\ once = "done" => told = Actors
  /\ \A s \in Stoppers :
       /\ stopper[s].at \in {"idle", "watch", "call"} => stopper[s].next = 1
       /\ stopper[s].at = "cancel" => told = {} /\ stopper[s].next = 1
       /\ stopper[s].at = "stop" => told = 1..(stopper[s].next - 1)
       /\ stopper[s].at = "shutdown" => told = 1..stopper[s].next /\ stopper[s].next <= N

GroupInv == TypeOK /\ StartInv /\ OnceInv /\ ToldInv

-----------------------------------------------------------------------------

\* The group before Start.
LEMMA InitGroupInv == Init => GroupInv
<1> SUFFICES ASSUME Init PROVE GroupInv
  OBVIOUS
<1> USE NAssumption DEF Init
<1>1. TypeOK
  <2>1. started \in BOOLEAN /\ cancelled \in BOOLEAN
    BY Zenon
  <2> QED
    BY <2>1 DEF TypeOK
<1>2. StartInv
  BY DEF StartInv, Actors
<1>3. OnceInv
  BY DEF OnceInv, InBody
<1>4. ToldInv
  BY DEF ToldInv
<1> QED
  BY <1>1, <1>2, <1>3, <1>4 DEF GroupInv

\* Every step of Start, of an actor or of a stopper keeps it.
LEMMA NextGroupInv == GroupInv /\ [Next]_vars => GroupInv'
<1> SUFFICES ASSUME GroupInv, [Next]_vars PROVE GroupInv'
  OBVIOUS
<1> USE NAssumption DEF GroupInv, TypeOK, StartInv, OnceInv, ToldInv, InBody,
        Actors, Stoppers, Moves, vars
<1>1. CASE Launch
  BY <1>1 DEF Launch
<1>2. CASE Started
  BY <1>2 DEF Started
<1>3. ASSUME NEW a \in Actors, Ends(a) PROVE GroupInv'
  BY <1>3 DEF Ends
<1>4. ASSUME NEW a \in Actors, Reports(a) PROVE GroupInv'
  BY <1>4 DEF Reports, ErrcRoom
<1>5. CASE WatcherWakes
  BY <1>5 DEF WatcherWakes
<1>6. ASSUME NEW s \in Stoppers, Calls(s) PROVE GroupInv'
  BY <1>6 DEF Calls
<1>7. ASSUME NEW s \in Stoppers, Enters(s) PROVE GroupInv'
  BY <1>7 DEF Enters
<1>8. ASSUME NEW s \in Stoppers, Follows(s) PROVE GroupInv'
  BY <1>8 DEF Follows
<1>9. ASSUME NEW s \in Stoppers, Cancels(s) PROVE GroupInv'
  <2>1. TypeOK'
    <3>1. stopper' \in [Stoppers -> [at : {"idle", "watch", "call", "cancel",
                           "stop", "shutdown", "returned"}, next : 1..(N + 1)]]
      BY <1>9 DEF Cancels
    <3> QED
      BY <1>9, <3>1, Zenon DEF Cancels
  <2>2. StartInv'
    BY <1>9 DEF Cancels
  <2>3. OnceInv'
    BY <1>9 DEF Cancels
  <2>4. ToldInv'
    <3>1. told = {} /\ stopper[s].next = 1 /\ once = "running" /\ 1..0 = {}
      BY <1>9 DEF Cancels
    <3>2. told' = told /\ once' = once /\ stopper'[s].at = "stop" /\ stopper'[s].next = 1
      BY <1>9, <3>1 DEF Cancels
    <3>3. \A t \in Stoppers : t # s => stopper'[t] = stopper[t] /\ ~InBody(t)
      BY <1>9 DEF Cancels
    <3> QED
      BY <3>1, <3>2, <3>3
  <2> HIDE DEF TypeOK, StartInv, OnceInv, ToldInv
  <2> QED
    BY <2>1, <2>2, <2>3, <2>4
<1>10. ASSUME NEW s \in Stoppers, TellsActor(s) PROVE GroupInv'
  BY <1>10 DEF TellsActor
<1>11. ASSUME NEW s \in Stoppers, StopFunctionReturns(s) PROVE GroupInv'
  BY <1>11 DEF StopFunctionReturns
<1>12. ASSUME NEW s \in Stoppers, Returns(s) PROVE GroupInv'
  BY <1>12 DEF Returns
<1>13. CASE Terminated \/ UNCHANGED vars
  <2>1. UNCHANGED vars
    BY <1>13 DEF Terminated
  <2> QED
    BY <2>1, Zenon
<1> HIDE DEF GroupInv, TypeOK, StartInv, OnceInv, ToldInv, InBody, Actors,
        Stoppers, Moves, vars
<1> QED
  BY <1>1, <1>2, <1>3, <1>4, <1>5, <1>6, <1>7, <1>8, <1>9, <1>10, <1>11,
     <1>12, <1>13 DEF Next, ActorStep, StopStep

\* What GroupInv says at any time.
LEMMA GroupInvCorrect == Spec => []GroupInv
  BY InitGroupInv, NextGroupInv, PTL DEF Spec

\* Every variable has its type; errc holds at most one end per actor, so no
\* actor waits to report.
THEOREM TypeCorrect == Spec => []TypeOK
  BY GroupInvCorrect, PTL DEF GroupInv

\* Whichever call of Stop returns, and however many overlap, no actor's
\* goroutine is left (server.go, Stop).
THEOREM StopMeansStoppedCorrect == Spec => []StopMeansStopped
<1>1. GroupInv => StopMeansStopped
  BY DEF GroupInv, OnceInv, StopMeansStopped
<1> QED
  BY <1>1, GroupInvCorrect, PTL

\* At most one thread is inside Stop's body, and actors are told in the order of
\* registration.
THEOREM StoppedOnceCorrect == Spec => []StoppedOnce
<1>1. ASSUME GroupInv PROVE StoppedOnce
  <2> DEFINE Body == {s \in Stoppers : stopper[s].at \in {"cancel", "stop", "shutdown"}}
  <2>1. Cardinality(Body) <= 1
    <3>1. CASE Body = {}
      BY <3>1, FS_EmptySet
    <3>2. CASE Body # {}
      <4>1. PICK s \in Body : TRUE
        BY <3>2
      <4>2. Body = {s}
        BY <1>1, <4>1 DEF GroupInv, OnceInv, InBody
      <4>3. Cardinality({s}) = 1
        BY FS_Singleton, Zenon
      <4> QED
        BY <4>2, <4>3
    <3> QED
      BY <3>1, <3>2
  <2>2. \A a \in told : \A b \in 1..a : b \in told
    BY <1>1 DEF GroupInv, ToldInv
  <2> QED
    BY <2>1, <2>2 DEF StoppedOnce
<1> QED
  BY <1>1, GroupInvCorrect, PTL

-----------------------------------------------------------------------------

Done == {a \in Actors : actor[a] = "done"}

\* The ends in errc are those of the actors that are done, less the one that the
\* watcher has received; the once runs while a thread is in the body.
WaitInv ==
  /\ errc <= Cardinality(Done)
  /\ stopper[Watcher].at \in {"idle", "watch"} => errc = Cardinality(Done)
  /\ once = "running" => \E s \in Stoppers : InBody(s)
  /\ \A s \in Stoppers : stopper[s].at \in {"stop", "shutdown"} => cancelled

\* The actors that are done are finitely many, one more for each that reports.
LEMMA DoneCounted ==
  /\ IsFiniteSet(Done) /\ Cardinality(Done) \in Nat
  /\ \A a \in Actors : a \notin Done =>
       /\ Cardinality(Done) < N
       /\ Cardinality(Done \cup {a}) = Cardinality(Done) + 1
<1>1. IsFiniteSet(Actors) /\ Cardinality(Actors) = N
  BY NAssumption, FS_Interval DEF Actors
<1>2. Done \in SUBSET Actors
  BY DEF Done
<1>3. IsFiniteSet(Done) /\ Cardinality(Done) \in Nat
  BY <1>1, <1>2, FS_Subset, FS_CardinalityType
<1>4. ASSUME NEW a \in Actors, a \notin Done
      PROVE  /\ Cardinality(Done) < N
             /\ Cardinality(Done \cup {a}) = Cardinality(Done) + 1
  <2>1. Cardinality(Done \cup {a}) = Cardinality(Done) + 1
    BY <1>3, <1>4, FS_AddElement
  <2>2. Done \cup {a} \in SUBSET Actors
    BY <1>2
  <2>3. Cardinality(Done \cup {a}) <= N
    BY <1>1, <2>2, FS_Subset
  <2> QED
    BY <1>3, <2>1, <2>3, NAssumption
<1> QED
  BY <1>3, <1>4

LEMMA InitWaitInv == Init => WaitInv
<1> SUFFICES ASSUME Init PROVE WaitInv
  OBVIOUS
<1>1. Done = {}
  BY DEF Init, Done
<1>2. Cardinality(Done) = 0
  BY <1>1, FS_EmptySet
<1> QED
  BY <1>2 DEF Init, WaitInv

LEMMA NextWaitInv == GroupInv /\ WaitInv /\ [Next]_vars => WaitInv'
<1> SUFFICES ASSUME GroupInv, WaitInv, [Next]_vars PROVE WaitInv'
  OBVIOUS
<1>1. TypeOK /\ StartInv /\ OnceInv
  BY DEF GroupInv
<1>2. Watcher \in Stoppers
  BY DEF Stoppers
<1>3. Cardinality(Done) \in Nat /\ errc \in Nat
  BY <1>1, DoneCounted, NAssumption DEF TypeOK
<1> USE DEF WaitInv, InBody, Moves
<1>4. CASE Launch
  <2>1. Done' = Done
    BY <1>1, <1>4, NAssumption DEF Launch, Done, TypeOK, StartInv, Actors
  <2> QED
    BY <1>4, <2>1 DEF Launch
<1>5. CASE Started
  <2>1. Done' = Done
    BY <1>5 DEF Started, Done
  <2>2. \A s \in Stoppers : s # Watcher => stopper'[s] = stopper[s]
    BY <1>1, <1>5 DEF Started, TypeOK
  <2>3. stopper[Watcher].at = "idle"
    BY <1>1, <1>2, <1>5 DEF Started, StartInv
  <2>4. stopper'[Watcher].at \in {"idle", "watch"}
    BY <1>1, <1>2, <1>5, <2>3 DEF Started, TypeOK
  <2>5. once' = once /\ cancelled' = cancelled /\ errc' = errc
    BY <1>5 DEF Started
  <2> QED
    BY <2>1, <2>2, <2>3, <2>4, <2>5
<1>6. ASSUME NEW a \in Actors, Ends(a) PROVE WaitInv'
  <2>1. Done' = Done
    BY <1>1, <1>6 DEF Ends, Done, TypeOK
  <2> QED
    BY <1>6, <2>1 DEF Ends
<1>7. ASSUME NEW a \in Actors, Reports(a) PROVE WaitInv'
  <2>1. a \notin Done
    BY <1>7 DEF Reports, Done
  <2>2. Done' = Done \cup {a}
    BY <1>1, <1>7 DEF Reports, Done, TypeOK
  <2>3. Cardinality(Done)' = Cardinality(Done) + 1
    BY <2>1, <2>2, DoneCounted
  <2> QED
    BY <1>3, <1>7, <2>3 DEF Reports
<1>8. ASSUME WatcherWakes \/ \E s \in Stoppers : Calls(s) \/ StopStep(s)
      PROVE  Done' = Done
  BY <1>8 DEF Done, WatcherWakes, Calls, StopStep, Enters, Follows, Cancels,
              TellsActor, StopFunctionReturns, Returns
<1>9. CASE WatcherWakes
  <2>1. /\ errc' = errc - 1 /\ stopper'[Watcher].at = "call"
        /\ \A s \in Stoppers : s # Watcher => stopper'[s] = stopper[s]
        /\ stopper[Watcher].at = "watch"
        /\ once' = once /\ cancelled' = cancelled
    BY <1>1, <1>2, <1>9 DEF WatcherWakes, TypeOK
  <2> QED
    BY <1>3, <1>8, <1>9, <2>1
<1>10. ASSUME NEW s \in Stoppers, Calls(s) PROVE WaitInv'
  <2>1. /\ s # Watcher /\ stopper[s].at = "idle" /\ stopper'[s].at = "call"
        /\ \A t \in Stoppers : t # s => stopper'[t] = stopper[t]
        /\ errc' = errc /\ once' = once /\ cancelled' = cancelled
    BY <1>1, <1>10, CallersAssumption DEF Calls, TypeOK
  <2>2. Done' = Done
    BY <1>8, <1>10
  <2>3. once' = "running" => \E t \in Stoppers : InBody(t)'
    BY <2>1
  <2>4. stopper'[Watcher] = stopper[Watcher]
    BY <1>2, <2>1
  <2> QED
    BY <2>1, <2>2, <2>3, <2>4
<1>11. ASSUME NEW s \in Stoppers, StopStep(s) PROVE WaitInv'
  <2>1. /\ errc' = errc
        /\ \A t \in Stoppers : t # s => stopper'[t] = stopper[t]
        /\ stopper[s].at \notin {"idle", "watch"}
        /\ stopper'[s].at \notin {"idle", "watch"}
    BY <1>1, <1>11 DEF StopStep, TypeOK, Enters, Follows, Cancels, TellsActor,
                       StopFunctionReturns, Returns
  <2>2. ASSUME once' = "running" PROVE \E t \in Stoppers : InBody(t)'
    <3>1. CASE Follows(s)
      BY <2>2, <3>1 DEF Follows
    <3>2. CASE Returns(s)
      BY <2>2, <3>2 DEF Returns
    <3>3. CASE Enters(s) \/ Cancels(s) \/ TellsActor(s) \/ StopFunctionReturns(s)
      BY <1>1, <3>3 DEF TypeOK, Enters, Cancels, TellsActor, StopFunctionReturns
    <3> QED
      BY <1>11, <3>1, <3>2, <3>3 DEF StopStep
  <2>3. ASSUME NEW t \in Stoppers, stopper'[t].at \in {"stop", "shutdown"}
        PROVE  cancelled'
    <3>1. CASE Cancels(s)
      BY <3>1 DEF Cancels
    <3>2. CASE ~Cancels(s)
      <4>1. cancelled' = cancelled
        BY <1>11, <3>2 DEF StopStep, Enters, Follows, TellsActor,
                           StopFunctionReturns, Returns
      <4>2. stopper[t].at \in {"stop", "shutdown"}
        <5>1. CASE t # s
          BY <2>1, <2>3, <5>1
        <5>2. CASE t = s
          BY <1>1, <1>11, <2>3, <3>2, <5>2 DEF StopStep, TypeOK, Enters, Follows,
             TellsActor, StopFunctionReturns, Returns
        <5> QED
          BY <5>1, <5>2
      <4> QED
        BY <4>1, <4>2
    <3> QED
      BY <3>1, <3>2
  <2> QED
    BY <1>2, <1>8, <1>11, <2>1, <2>2, <2>3
<1>12. CASE Terminated \/ UNCHANGED vars
  <2>1. UNCHANGED vars
    BY <1>12 DEF Terminated
  <2> QED
    BY <2>1 DEF vars, Done
<1> QED
  BY <1>4, <1>5, <1>6, <1>7, <1>9, <1>10, <1>11, <1>12 DEF Next, ActorStep

\* No wake-up is lost between actors, the watcher and the callers of Stop, for
\* any number of them (server.go, Start and Stop): an actor that has ended never
\* waits for room in errc, the watcher never sleeps through an end, nobody waits
\* for a once that no thread is in, and wg.Wait waits for nobody who goes on.
THEOREM NobodyForgottenCorrect == Spec => []NobodyForgotten
<1>1. ASSUME GroupInv, WaitInv PROVE NobodyForgotten
  <2>1. TypeOK /\ ToldInv /\ Watcher \in Stoppers /\ Cardinality(Done) \in Nat
    BY <1>1, DoneCounted DEF GroupInv, Stoppers
  <2>2. ASSUME NEW a \in Actors, actor[a] = "report" PROVE ErrcRoom
    <3>1. a \notin Done
      BY <2>2 DEF Done
    <3>2. Cardinality(Done) < N
      BY <3>1, DoneCounted
    <3> QED
      BY <1>1, <2>1, <3>2, NAssumption DEF ErrcRoom, WaitInv, TypeOK
  <2>3. ASSUME NEW a \in Actors, actor[a] = "done", stopper[Watcher].at = "watch"
        PROVE  errc > 0
    <3>1. Done # {}
      BY <2>3 DEF Done
    <3>2. Cardinality(Done) # 0
      BY <3>1, DoneCounted, FS_EmptySet
    <3> QED
      BY <1>1, <2>1, <2>3, <3>2 DEF WaitInv
  <2>4. ASSUME NEW s \in Stoppers, once = "running"
        PROVE  \E t \in Stoppers : stopper[t].at \in {"cancel", "stop", "shutdown"}
    BY <1>1, <2>4 DEF WaitInv, InBody
  <2>5. ASSUME NEW s \in Stoppers, stopper[s].at = "stop", stopper[s].next = N + 1,
               NEW a \in Actors
        PROVE  Told(a)
    <3>1. cancelled
      BY <1>1, <2>5 DEF WaitInv
    <3>2. a \in told
      BY <2>1, <2>5, NAssumption DEF ToldInv, Actors
    <3> QED
      BY <3>1, <3>2 DEF Told
  <2> QED
    BY <2>2, <2>3, <2>4, <2>5 DEF NobodyForgotten
<1> QED
  BY <1>1, GroupInvCorrect, InitWaitInv, NextWaitInv, PTL DEF Spec
===============================================================================
