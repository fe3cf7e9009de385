-------------------------------- MODULE Remotes_proofs -------------------------------
(***************************************************************************)
(* The remotes, seen from the server and from the terminal interface: the    *)
(* guard of a start and the session of an orchestration, and the tabs over   *)
(* their clients, for any number of each.                                    *)
(*                                                                         *)
(* That the session stands for the one execution nobody stopped needs to be  *)
(* known at the awaits: which executor a start is about to execute, whom the *)
(* server listens to, and that a handler that awaits a stop finds the        *)
(* session it stopped, as long as no two handlers do so at once.             *)
(*                                                                         *)
(* That the tabs show their clients is inductive with the types.  That the    *)
(* selected tab is live is not: what a render relies on is that its data is   *)
(* asked for whenever it is not on the screen.                               *)
(***************************************************************************)
EXTENDS RemoteOrchestration, InstanceManager, WellFoundedInduction, TLAPS

-----------------------------------------------------------------------------
(* The orchestration.                                                        *)

(* A start that logs has made an executor nobody else is about to execute.   *)
StartInv ==
    /\ \A c \in Client : starts[c].at = "logging" =>
          starts[c].id \in Orchestration /\ executor[starts[c].id].state = "made"
    /\ \A c, d \in Client :
          starts[c].at = "logging" /\ starts[d].at = "logging" /\ starts[c].id = starts[d].id
          => c = d

(* The server listens to the executor of its session only. *)
HeardInv == guardLost \/ \A i \in Orchestration : executor[i].heard => session.id = i

(* Who awaits a stop, by request or by close, awaits that of the session.    *)
AwaitsOf(c, id) ==
    id # NoId => session.id = id /\ executor[id].stop

AwaitInv ==
    overlapped \/ guardLost \/
    /\ \A c \in Client : /\ AwaitsOf(c, stops[c].request) /\ AwaitsOf(c, stops[c].close)
                         /\ stops[c].request = NoId \/ stops[c].close = NoId
    /\ \A c, d \in Client : AwaitsStop(c) /\ AwaitsStop(d) => c = d

(* The executor of a stop that is awaited has been told to stop. *)
StoppedInv ==
    \A c \in Client : \A i \in Orchestration :
        stops[c].request = i \/ stops[c].close = i => executor[i].stop

IInv ==
    /\ TypeOK /\ GuardBelongsToOneStart /\ NoSessionWhileStarting
    /\ StartInv /\ HeardInv /\ AwaitInv /\ StoppedInv
    /\ OneExecution /\ SessionsAreTakenByOverlap /\ ReportedEndIsReal

-----------------------------------------------------------------------------
(* The type of an executor, and steps that keep it.                          *)
Executor == [state : {"none", "made", "running", "ended"}, owner : Client \cup {NoOne},
             stop : BOOLEAN, paused : BOOLEAN, heard : BOOLEAN]

(* The flags an executor is given.                                           *)
LEMMA ExecutorSteps ==
    ASSUME NEW x \in Executor
    PROVE  /\ [x EXCEPT !.paused = TRUE] \in Executor
           /\ [x EXCEPT !.paused = FALSE] \in Executor
           /\ [x EXCEPT !.stop = TRUE, !.paused = FALSE] \in Executor
           /\ [x EXCEPT !.heard = FALSE] \in Executor
BY DEF Executor

(* No session and no executor.                                               *)
LEMMA InitInv == Init => IInv
<1>. SUFFICES ASSUME Init PROVE IInv
  OBVIOUS
<1>. USE RemoteOrchestrationAssumption DEF Init, NoSession, NotMade, NoStart, NoStop
<1>1. TypeOK
  BY DEF TypeOK
<1>2. GuardBelongsToOneStart /\ NoSessionWhileStarting
  BY DEF GuardBelongsToOneStart, NoSessionWhileStarting
<1>3. StartInv /\ HeardInv /\ AwaitInv /\ StoppedInv
  BY DEF StartInv, HeardInv, AwaitInv, AwaitsOf, AwaitsStop, StoppedInv
<1>4. OneExecution /\ SessionsAreTakenByOverlap /\ ReportedEndIsReal
  BY DEF OneExecution, SessionsAreTakenByOverlap, ReportedEndIsReal
<1>. QED
  BY <1>1, <1>2, <1>3, <1>4 DEF IInv

(* While a start is prepared there is no session, so nothing is heard and    *)
(* nobody awaits a stop, save where two stops overlapped.                    *)
LEMMA WhilePreparing ==
    ASSUME IInv, ~guardLost, NEW c \in Client, starts[c].at = "preparing"
    PROVE  /\ starting /\ session = NoSession /\ session.id = NoId
           /\ \A d \in Client : starts[d].at = "preparing" => d = c
           /\ \A i \in Orchestration : ~executor[i].heard
           /\ overlapped \/ \A d \in Client : ~AwaitsStop(d)
<1>1. starting /\ \A d \in Client : starts[d].at = "preparing" => d = c
  BY DEF IInv, GuardBelongsToOneStart
<1>2. session = NoSession /\ session.id = NoId
  BY <1>1 DEF IInv, NoSessionWhileStarting, NoSession
<1>3. \A i \in Orchestration : ~executor[i].heard
  BY <1>2, RemoteOrchestrationAssumption DEF IInv, HeardInv
<1>4. overlapped \/ \A d \in Client : ~AwaitsStop(d)
  BY <1>2, RemoteOrchestrationAssumption DEF IInv, AwaitInv, AwaitsOf, AwaitsStop
<1>. QED
  BY <1>1, <1>2, <1>3, <1>4

(* A start that is asked for, fails, or executes.                            *)
LEMMA StartKeeps ==
    ASSUME IInv, NEW c \in Client, 
           StartRequested(c) \/ StartFails(c) \/ Executes(c) \/ LogFails(c)
    PROVE  IInv'
<1>. USE RemoteOrchestrationAssumption DEF ghosts
<1>1. CASE StartRequested(c)
  <2>. USE <1>1 DEF StartRequested, MayStart
  <2>1. TypeOK'
    <3>1. starts' \in [Client -> [at : {"none", "preparing", "logging"},
                                  id : Orchestration \cup {NoId}]]
      BY DEF IInv, TypeOK
    <3>. QED
      BY <3>1 DEF IInv, TypeOK
  <2>2. \A d \in Client : starts'[d].at = IF d = c THEN "preparing" ELSE starts[d].at
    BY DEF IInv, TypeOK
  <2>3. guardLost \/ \A d \in Client : starts[d].at # "preparing"
    BY DEF IInv, GuardBelongsToOneStart
  <2>4. GuardBelongsToOneStart' /\ NoSessionWhileStarting'
    BY <2>2, <2>3 DEF IInv, GuardBelongsToOneStart, NoSessionWhileStarting
  <2>5. \A d \in Client : starts'[d].id = starts[d].id
    BY DEF IInv, TypeOK
  <2>6. StartInv'
    BY <2>2, <2>5 DEF IInv, StartInv
  <2>7. HeardInv' /\ AwaitInv' /\ StoppedInv' /\ OneExecution' /\ SessionsAreTakenByOverlap'
        /\ ReportedEndIsReal'
    BY DEF IInv, HeardInv, AwaitInv, AwaitsOf, AwaitsStop, StoppedInv, OneExecution,
       SessionsAreTakenByOverlap, ReportedEndIsReal
  <2>. QED
    BY <2>1, <2>4, <2>6, <2>7 DEF IInv
<1>2. CASE StartFails(c)
  <2>. USE <1>2 DEF StartFails, ReleaseGuard
  <2>1. TypeOK'
    BY DEF IInv, TypeOK, NoStart
  <2>2. \A d \in Client : starts'[d] = IF d = c THEN NoStart ELSE starts[d]
    BY DEF IInv, TypeOK
  <2>3. GuardBelongsToOneStart' /\ NoSessionWhileStarting'
    BY <2>2, WhilePreparing DEF IInv, GuardBelongsToOneStart, NoSessionWhileStarting, NoStart
  <2>4. StartInv'
    BY <2>2 DEF IInv, StartInv, NoStart
  <2>5. HeardInv' /\ AwaitInv' /\ StoppedInv' /\ OneExecution' /\ SessionsAreTakenByOverlap'
        /\ ReportedEndIsReal'
    BY DEF IInv, HeardInv, AwaitInv, AwaitsOf, AwaitsStop, StoppedInv, OneExecution,
       SessionsAreTakenByOverlap, ReportedEndIsReal
  <2>. QED
    BY <2>1, <2>3, <2>4, <2>5 DEF IInv
<1>3. CASE Executes(c)
  <2>. DEFINE id == starts[c].id
  <2>1. id \in Orchestration /\ executor[id].state = "made"
    BY <1>3 DEF Executes, IInv, StartInv
  <2>2. TypeOK'
    <3>1. executor' = [executor EXCEPT ![id].state = "running"] /\ starts' = [starts EXCEPT ![c] = NoStart]
      BY <1>3 DEF Executes
    <3>. HIDE DEF id
    <3>2. executor' \in [Orchestration ->
            [state : {"none", "made", "running", "ended"}, owner : Client \cup {NoOne},
             stop : BOOLEAN, paused : BOOLEAN, heard : BOOLEAN]]
      <4>1. executor \in [Orchestration -> Executor]
        BY DEF IInv, TypeOK, Executor
      <4>2. [executor[id] EXCEPT !.state = "running"] \in Executor
        BY <2>1, <4>1 DEF Executor
      <4>. QED
        BY <2>1, <3>1, <4>1, <4>2 DEF Executor
    <3>3. starts' \in [Client -> [at : {"none", "preparing", "logging"},
                                  id : Orchestration \cup {NoId}]]
      BY <3>1 DEF IInv, TypeOK, NoStart
    <3>. QED
      BY <1>3, <3>2, <3>3 DEF Executes, IInv, TypeOK
  <2>3. \A d \in Client : starts'[d] = IF d = c THEN NoStart ELSE starts[d]
    BY <1>3 DEF Executes, IInv, TypeOK
  <2>4. /\ \A i \in Orchestration \ {id} : executor'[i] = executor[i]
        /\ executor'[id].state = "running"
        /\ executor'[id].stop = executor[id].stop /\ executor'[id].heard = executor[id].heard
    BY <1>3, <2>1 DEF Executes, IInv, TypeOK
  <2>. HIDE DEF id
  <2>5. GuardBelongsToOneStart' /\ NoSessionWhileStarting'
    BY <1>3, <2>3 DEF Executes, IInv, GuardBelongsToOneStart, NoSessionWhileStarting, NoStart
  <2>6. StartInv'
    <3>1. \A d \in Client : d # c /\ starts[d].at = "logging" => starts[d].id # id
      BY <1>3 DEF Executes, IInv, StartInv, id
    <3>. QED
      BY <2>3, <2>4, <3>1 DEF IInv, StartInv, NoStart
  <2>7. HeardInv' /\ AwaitInv' /\ StoppedInv'
    <3>1. \A i \in Orchestration : /\ executor'[i].heard = executor[i].heard
                                   /\ executor'[i].stop = executor[i].stop
      BY <2>4
    <3>2. \A d \in Client : /\ stops[d].request \in Orchestration \cup {NoId}
                            /\ stops[d].close \in Orchestration \cup {NoId}
      BY DEF IInv, TypeOK
    <3>. QED
      BY <1>3, <3>1, <3>2 DEF Executes, IInv, HeardInv, AwaitInv, AwaitsOf, AwaitsStop, StoppedInv
  <2>8. OneExecution' /\ SessionsAreTakenByOverlap'
    BY <1>3, <2>1, <2>4 DEF Executes, IInv, OneExecution, SessionsAreTakenByOverlap
  <2>9. ReportedEndIsReal'
    <3>1. session' = session /\ guardLost' = guardLost
      BY <1>3 DEF Executes
    <3>2. session.id \in Orchestration \/ session = NoSession
      BY DEF IInv, TypeOK
    <3>. QED
      BY <2>1, <2>4, <3>1, <3>2 DEF IInv, ReportedEndIsReal, NoSession
  <2>. QED
    BY <2>2, <2>5, <2>6, <2>7, <2>8, <2>9 DEF IInv
<1>4. CASE LogFails(c)
  <2>. USE <1>4 DEF LogFails, ReleaseGuard
  <2>1. TypeOK'
    <3>1. guardLost' \in BOOLEAN
      BY Zenon
    <3>. QED
      BY <3>1 DEF IInv, TypeOK, NoStart
  <2>2. \A d \in Client : starts'[d] = IF d = c THEN NoStart ELSE starts[d]
    BY DEF IInv, TypeOK
  <2>3. guardLost => guardLost'
    OBVIOUS
  <2>4. ~guardLost' => \A d \in Client : starts[d].at # "preparing"
    BY DEF IInv, GuardBelongsToOneStart
  <2>5. GuardBelongsToOneStart' /\ NoSessionWhileStarting'
    BY <2>2, <2>4 DEF GuardBelongsToOneStart, NoSessionWhileStarting, NoStart
  <2>6. StartInv'
    BY <2>2 DEF IInv, StartInv, NoStart
  <2>7. HeardInv' /\ AwaitInv' /\ StoppedInv' /\ OneExecution' /\ SessionsAreTakenByOverlap'
        /\ ReportedEndIsReal'
    BY <2>3 DEF IInv, HeardInv, AwaitInv, AwaitsOf, AwaitsStop, StoppedInv, OneExecution,
       SessionsAreTakenByOverlap, ReportedEndIsReal
  <2>. QED
    BY <2>1, <2>5, <2>6, <2>7 DEF IInv
<1>. QED
  BY <1>1, <1>2, <1>3, <1>4

(* A start that succeeds makes the session and its executor.                 *)
LEMMA StartSucceedsKeeps ==
    ASSUME IInv, NEW c \in Client, StartSucceeds(c)
    PROVE  IInv'
<1>. DEFINE n == NextId
<1>. USE RemoteOrchestrationAssumption
<1>1. n \in Orchestration /\ executor[n] = NotMade
  BY DEF StartSucceeds, NextId
<1>2. /\ executor' = [executor EXCEPT ![n] =
                         [NotMade EXCEPT !.state = "made", !.owner = c, !.heard = TRUE]]
      /\ session' = [id |-> n, owner |-> c, status |-> "running"]
      /\ starting' = FALSE
      /\ starts' = [starts EXCEPT ![c] = [at |-> "logging", id |-> n]]
      /\ starts[c].at = "preparing"
      /\ orphaned' = orphaned \cup ({session.id} \ {NoId})
      /\ UNCHANGED <<clients, gone, stops, overlapped, guardLost, leftEarly>>
  BY DEF StartSucceeds, ReleaseGuard
<1>. HIDE DEF n
<1>3. /\ \A i \in Orchestration \ {n} : executor'[i] = executor[i]
      /\ executor'[n].state = "made" /\ executor'[n].owner = c
      /\ ~executor'[n].stop /\ ~executor'[n].paused /\ executor'[n].heard
      /\ executor'[n] \in [state : {"none", "made", "running", "ended"},
                            owner : Client \cup {NoOne},
                            stop : BOOLEAN, paused : BOOLEAN, heard : BOOLEAN]
  BY <1>1, <1>2 DEF IInv, TypeOK, NotMade
<1>4. \A d \in Client : starts'[d] = IF d = c THEN [at |-> "logging", id |-> n] ELSE starts[d]
  BY <1>2 DEF IInv, TypeOK
<1>5. TypeOK'
  <2>1. executor' \in [Orchestration ->
            [state : {"none", "made", "running", "ended"}, owner : Client \cup {NoOne},
             stop : BOOLEAN, paused : BOOLEAN, heard : BOOLEAN]]
    BY <1>1, <1>2, <1>3 DEF IInv, TypeOK
  <2>2. starts' \in [Client -> [at : {"none", "preparing", "logging"},
                                id : Orchestration \cup {NoId}]]
    BY <1>1, <1>2 DEF IInv, TypeOK
  <2>3. /\ session' \in [id : Orchestration \cup {NoId}, owner : Client \cup {NoOne},
                          status : {"none", "running", "paused", "completed", "failed"}]
        /\ session'.id # NoId /\ session' # NoSession
    BY <1>1, <1>2 DEF NoSession
  <2>4. orphaned' \subseteq Orchestration
    BY <1>2 DEF IInv, TypeOK
  <2>. QED
    BY <1>2, <2>1, <2>2, <2>3, <2>4 DEF IInv, TypeOK
<1>6. GuardBelongsToOneStart' /\ NoSessionWhileStarting'
  BY <1>2, <1>4, WhilePreparing DEF GuardBelongsToOneStart, NoSessionWhileStarting
<1>7. StartInv'
  <2>1. \A d \in Client : starts[d].at = "logging" => starts[d].id # n
    BY <1>1 DEF IInv, StartInv, NotMade
  <2>. QED
    BY <1>1, <1>3, <1>4, <2>1 DEF IInv, StartInv
<1>8. HeardInv'
  BY <1>2, <1>3, WhilePreparing DEF HeardInv
<1>9. AwaitInv'
  <2>1. CASE overlapped \/ guardLost
    BY <1>2, <2>1 DEF AwaitInv
  <2>2. CASE \A d \in Client : ~AwaitsStop(d)
    BY <1>2, <2>2 DEF AwaitInv, AwaitsOf, AwaitsStop
  <2>. QED
    BY <1>2, <2>1, <2>2, WhilePreparing
<1>10. StoppedInv'
  BY <1>1, <1>2, <1>3 DEF IInv, StoppedInv, NotMade
<1>12. OneExecution' /\ SessionsAreTakenByOverlap'
  <2>1. \A i \in Orchestration :
           executor[i].state \in {"made", "running"} /\ ~executor[i].stop => i \in orphaned'
    BY <1>2 DEF IInv, OneExecution
  <2>2. OneExecution'
    BY <1>2, <1>3, <2>1 DEF OneExecution
  <2>3. guardLost \/ orphaned' = orphaned
    BY <1>2, WhilePreparing
  <2>4. SessionsAreTakenByOverlap'
    BY <1>2, <2>3 DEF IInv, SessionsAreTakenByOverlap
  <2>. QED
    BY <2>2, <2>4
<1>11. ReportedEndIsReal'
  BY <1>2 DEF ReportedEndIsReal
<1>. QED
  BY <1>5, <1>6, <1>7, <1>8, <1>9, <1>10, <1>11, <1>12 DEF IInv

(* An end is written to the session of the execution that ended. *)
LEMMA EndKeeps ==
    ASSUME IInv, NEW i \in Orchestration, ExecutionEnds(i)
    PROVE  IInv'
<1>. USE RemoteOrchestrationAssumption
<1>1. /\ executor' = [executor EXCEPT ![i].state = "ended"] /\ executor[i].state = "running"
      /\ UNCHANGED <<clients, gone, starting, starts, stops, overlapped, guardLost, orphaned,
                     leftEarly>>
  BY DEF ExecutionEnds, ghosts
<1>2. /\ \A j \in Orchestration \ {i} : executor'[j] = executor[j]
      /\ executor'[i].state = "ended"
      /\ \A j \in Orchestration : /\ executor'[j].stop = executor[j].stop
                                   /\ executor'[j].heard = executor[j].heard
  BY <1>1 DEF IInv, TypeOK
<1>3. /\ session'.id = session.id /\ session'.owner = session.owner
      /\ session = NoSession <=> session' = NoSession
      /\ guardLost \/ session' = session \/ session.id = i
  <2>1. CASE session' = session
    BY <2>1
  <2>2. CASE /\ executor[i].heard /\ session # NoSession
             /\ \E st \in {"completed", "failed"} : session' = [session EXCEPT !.status = st]
    <3>1. guardLost \/ session.id = i
      BY <2>2 DEF IInv, HeardInv
    <3>2. session'.id = session.id /\ session'.owner = session.owner
      BY <2>2 DEF IInv, TypeOK
    <3>. QED
      BY <2>2, <3>1, <3>2 DEF NoSession
  <2>. QED
    BY <2>1, <2>2 DEF ExecutionEnds
<1>4. TypeOK'
  <2>1. executor' \in [Orchestration ->
            [state : {"none", "made", "running", "ended"}, owner : Client \cup {NoOne},
             stop : BOOLEAN, paused : BOOLEAN, heard : BOOLEAN]]
    BY <1>1 DEF IInv, TypeOK
  <2>2. session' \in [id : Orchestration \cup {NoId}, owner : Client \cup {NoOne},
                      status : {"none", "running", "paused", "completed", "failed"}]
    BY DEF ExecutionEnds, IInv, TypeOK
  <2>. QED
    BY <1>1, <1>3, <2>1, <2>2 DEF IInv, TypeOK
<1>5. GuardBelongsToOneStart' /\ NoSessionWhileStarting'
  BY <1>1, <1>3 DEF IInv, GuardBelongsToOneStart, NoSessionWhileStarting
<1>6. StartInv'
  BY <1>1, <1>2 DEF IInv, StartInv
<1>7. HeardInv' /\ AwaitInv' /\ StoppedInv'
  <2>1. \A d \in Client : /\ stops[d].request \in Orchestration \cup {NoId}
                          /\ stops[d].close \in Orchestration \cup {NoId}
    BY DEF IInv, TypeOK
  <2>. QED
    BY <1>1, <1>2, <1>3, <2>1 DEF IInv, HeardInv, AwaitInv, AwaitsOf, AwaitsStop, StoppedInv
<1>8. OneExecution' /\ SessionsAreTakenByOverlap'
  BY <1>1, <1>2, <1>3 DEF IInv, OneExecution, SessionsAreTakenByOverlap
<1>9. ReportedEndIsReal'
  <2>1. session.id \in Orchestration \/ session = NoSession
    BY DEF IInv, TypeOK
  <2>. QED
    BY <1>1, <1>2, <1>3, <2>1 DEF IInv, ReportedEndIsReal, NoSession
<1>. QED
  BY <1>4, <1>5, <1>6, <1>7, <1>8, <1>9 DEF IInv

(* A step that leaves the starts alone, and of the executors what they have   *)
(* come to and whom the server listens to, and the session where it is.      *)
LEMMA ControlKeeps ==
    ASSUME IInv, TypeOK', UNCHANGED <<starting, starts>>,
           session'.id = session.id, session' = NoSession <=> session = NoSession,
           session'.status \in {"completed", "failed"} => session' = session,
           \A i \in Orchestration : /\ executor'[i].state = executor[i].state
                                    /\ executor'[i].heard = executor[i].heard
                                    /\ executor[i].stop => executor'[i].stop,
           overlapped => overlapped', UNCHANGED <<guardLost, orphaned>>, AwaitInv',
           StoppedInv'
    PROVE  IInv'
<1>1. GuardBelongsToOneStart' /\ NoSessionWhileStarting'
  BY DEF IInv, GuardBelongsToOneStart, NoSessionWhileStarting
<1>2. StartInv' /\ HeardInv'
  BY DEF IInv, StartInv, HeardInv
<1>3. OneExecution' /\ SessionsAreTakenByOverlap'
  BY DEF IInv, OneExecution, SessionsAreTakenByOverlap
<1>4. ReportedEndIsReal'
  <2>1. session.id \in Orchestration \/ session = NoSession
    BY DEF IInv, TypeOK
  <2>. QED
    BY <2>1 DEF IInv, ReportedEndIsReal, NoSession
<1>. QED
  BY <1>1, <1>2, <1>3, <1>4 DEF IInv

(* Pausing and resuming touch the session's own executor.                    *)
LEMMA PauseKeeps ==
    ASSUME IInv, NEW c \in Client, Pause(c) \/ Resume(c)
    PROVE  IInv'
<1>. USE RemoteOrchestrationAssumption
<1>. DEFINE id == session.id
<1>1. session # NoSession /\ id \in Orchestration
  BY DEF Pause, Resume, IInv, TypeOK
<1>2. PICK paused \in BOOLEAN, st \in {"paused", "running"} :
        /\ executor' = [executor EXCEPT ![id].paused = paused]
        /\ session' = [session EXCEPT !.status = st]
  <2>1. CASE Pause(c)
    <3>1. (executor[id].paused \/ executor[id].state # "ended") \in BOOLEAN
      BY Zenon
    <3>. QED
      BY <2>1, <3>1 DEF Pause
  <2>2. CASE Resume(c)
    BY <2>2 DEF Resume
  <2>. QED
    BY <2>1, <2>2
<1>3. UNCHANGED <<clients, gone, starting, starts, stops, overlapped, guardLost, orphaned,
                  leftEarly>>
  BY DEF Pause, Resume, ghosts
<1>. HIDE DEF id
<1>4. \A i \in Orchestration : /\ executor'[i].state = executor[i].state
                               /\ executor'[i].heard = executor[i].heard
                               /\ executor'[i].stop = executor[i].stop
  BY <1>1, <1>2 DEF IInv, TypeOK
<1>5. /\ session'.id = session.id /\ session'.status = st
      /\ session' # NoSession /\ session'.id # NoId
      /\ session' \in [id : Orchestration \cup {NoId}, owner : Client \cup {NoOne},
                        status : {"none", "running", "paused", "completed", "failed"}]
  BY <1>1, <1>2 DEF IInv, TypeOK, NoSession, id
<1>6. TypeOK'
  <2>1. executor' \in [Orchestration ->
            [state : {"none", "made", "running", "ended"}, owner : Client \cup {NoOne},
             stop : BOOLEAN, paused : BOOLEAN, heard : BOOLEAN]]
    <3>1. executor \in [Orchestration -> Executor]
      BY DEF IInv, TypeOK, Executor
    <3>2. [executor[id] EXCEPT !.paused = paused] \in Executor
      BY <1>1, <3>1, ExecutorSteps, Zenon
    <3>3. executor' \in [Orchestration -> Executor]
      BY <1>1, <1>2, <3>1, <3>2
    <3>. QED
      BY <3>3 DEF Executor
  <2>. QED
    BY <1>3, <1>5, <2>1 DEF IInv, TypeOK
<1>7. AwaitInv' /\ StoppedInv'
  <2>1. \A d \in Client : /\ stops[d].request \in Orchestration \cup {NoId}
                          /\ stops[d].close \in Orchestration \cup {NoId}
    BY DEF IInv, TypeOK
  <2>. QED
    BY <1>3, <1>4, <1>5, <2>1 DEF IInv, AwaitInv, AwaitsOf, AwaitsStop, StoppedInv
<1>. QED
  BY <1>1, <1>3, <1>4, <1>5, <1>6, <1>7, ControlKeeps

(* A handler stops the session's executor and awaits its end.                *)
LEMMA StopKeeps ==
    ASSUME IInv, NEW c \in Client, session.id \in Orchestration,
           executor' = StopExecutor(session.id),
           NEW stop \in [request : Orchestration \cup {NoId}, close : Orchestration \cup {NoId}],
           stops' = [stops EXCEPT ![c] = stop],
           stop = [stops[c] EXCEPT !.request = session.id]
             \/ stop = [stops[c] EXCEPT !.close = session.id],
           overlapped' = (overlapped \/ StopsAwaited # {}),
           UNCHANGED <<starting, session, starts, clients, guardLost, orphaned>>,
           gone' \subseteq Client, leftEarly' \subseteq Client
    PROVE  IInv'
<1>. USE RemoteOrchestrationAssumption
<1>. DEFINE id == session.id
<1>1. executor' = [executor EXCEPT ![id].stop = TRUE, ![id].paused = FALSE]
  BY DEF StopExecutor
<1>5. id \in Orchestration
  OBVIOUS
<1>. HIDE DEF id
<1>2. /\ \A i \in Orchestration : /\ executor'[i].state = executor[i].state
                                  /\ executor'[i].heard = executor[i].heard
                                  /\ executor[i].stop => executor'[i].stop
      /\ executor'[id].stop
  BY <1>1 DEF IInv, TypeOK, id
<1>3. TypeOK'
  <2>1. executor' \in [Orchestration ->
            [state : {"none", "made", "running", "ended"}, owner : Client \cup {NoOne},
             stop : BOOLEAN, paused : BOOLEAN, heard : BOOLEAN]]
    <3>1. executor \in [Orchestration -> Executor]
      BY DEF IInv, TypeOK, Executor
    <3>2. executor' = [executor EXCEPT ![id] = [executor[id] EXCEPT !.stop = TRUE, !.paused = FALSE]]
      BY <1>1, <1>5, <3>1
    <3>3. [executor[id] EXCEPT !.stop = TRUE, !.paused = FALSE] \in Executor
      BY <1>5, <3>1, ExecutorSteps, Zenon
    <3>4. executor' \in [Orchestration -> Executor]
      BY <1>5, <3>1, <3>2, <3>3
    <3>. QED
      BY <3>4 DEF Executor
  <2>2. stops' \in [Client -> [request : Orchestration \cup {NoId},
                               close : Orchestration \cup {NoId}]]
    BY DEF IInv, TypeOK
  <2>3. overlapped' \in BOOLEAN
    BY Zenon
  <2>. QED
    BY <2>1, <2>2, <2>3 DEF IInv, TypeOK
<1>4. AwaitInv'
  <2>1. SUFFICES ASSUME ~overlapped' PROVE AwaitInv'
    BY DEF AwaitInv
  <2>2. ~overlapped /\ \A d \in Client : ~AwaitsStop(d)
    BY <2>1 DEF StopsAwaited
  <2>3. \A d \in Client : stops[d].request = NoId /\ stops[d].close = NoId
    BY <2>2 DEF AwaitsStop
  <2>4. \A d \in Client : stops'[d] = IF d = c THEN stop ELSE stops[d]
    BY DEF IInv, TypeOK
  <2>5. \/ stop.request = id /\ stop.close = NoId
        \/ stop.request = NoId /\ stop.close = id
    BY <2>3 DEF IInv, TypeOK, id
  <2>. QED
    BY <1>2, <2>3, <2>4, <2>5 DEF AwaitInv, AwaitsOf, AwaitsStop, id
<1>6. StoppedInv'
  <2>1. \A d \in Client : stops'[d] = IF d = c THEN stop ELSE stops[d]
    BY DEF IInv, TypeOK
  <2>2. \/ stop.request = id /\ stop.close = stops[c].close
        \/ stop.request = stops[c].request /\ stop.close = id
    BY DEF IInv, TypeOK, id
  <2>. QED
    BY <1>2, <2>1, <2>2 DEF IInv, StoppedInv
<1>. QED
  BY <1>2, <1>3, <1>4, <1>6, ControlKeeps

(* A handler whose stop has settled drops the session it stopped.            *)
LEMMA DropKeeps ==
    ASSUME IInv, NEW c \in Client, NEW id \in {stops[c].request, stops[c].close}, id # NoId,
           DropSession(id),
           NEW stop \in [request : Orchestration \cup {NoId}, close : Orchestration \cup {NoId}],
           stops' = [stops EXCEPT ![c] = stop],
           \/ stop.request = NoId /\ stop.close = stops[c].close /\ stops[c].request # NoId
           \/ stop.close = NoId /\ stop.request = stops[c].request /\ stops[c].close # NoId,
           UNCHANGED <<starting, starts, overlapped, guardLost>>,
           clients' \subseteq Client, gone' \subseteq Client, leftEarly' \subseteq Client
    PROVE  IInv'
<1>. USE RemoteOrchestrationAssumption
<1>1. session' = NoSession /\ session'.id = NoId /\ session'.status = "none"
  BY DEF DropSession, NoSession
<1>2. executor \in [Orchestration -> Executor]
  BY DEF IInv, TypeOK, Executor
<1>3. session = NoSession \/ session.id \in Orchestration
  BY DEF IInv, TypeOK
<1>4. /\ executor' \in [Orchestration -> Executor]
      /\ \A i \in Orchestration : /\ executor'[i].state = executor[i].state
                                  /\ executor'[i].stop = executor[i].stop
                                  /\ guardLost \/ ~executor'[i].heard
  <2>1. CASE session = NoSession
    <3>1. executor' = executor
      BY <2>1 DEF DropSession
    <3>2. guardLost \/ \A i \in Orchestration : ~executor[i].heard
      BY <2>1 DEF IInv, HeardInv, NoSession
    <3>. QED
      BY <1>2, <3>1, <3>2
  <2>2. CASE session # NoSession
    <3>. DEFINE n == session.id
    <3>1. n \in Orchestration
      BY <1>3, <2>2
    <3>2. executor' = [executor EXCEPT ![n].heard = FALSE]
      BY <2>2 DEF DropSession
    <3>3. guardLost \/ \A i \in Orchestration : executor[i].heard => i = n
      BY DEF IInv, HeardInv
    <3>. HIDE DEF n
    <3>4. executor' = [executor EXCEPT ![n] = [executor[n] EXCEPT !.heard = FALSE]]
      BY <1>2, <3>1, <3>2
    <3>5. [executor[n] EXCEPT !.heard = FALSE] \in Executor
      BY <1>2, <3>1, ExecutorSteps, Zenon
    <3>6. executor' \in [Orchestration -> Executor]
      BY <1>2, <3>1, <3>4, <3>5
    <3>7. \A i \in Orchestration : /\ executor'[i].state = executor[i].state
                                   /\ executor'[i].stop = executor[i].stop
                                   /\ guardLost \/ ~executor'[i].heard
      BY <1>2, <3>1, <3>3, <3>4 DEF Executor
    <3>. QED
      BY <3>6, <3>7
  <2>. QED
    BY <2>1, <2>2
<1>5. \A d \in Client : stops'[d] = IF d = c THEN stop ELSE stops[d]
  BY DEF IInv, TypeOK
<1>6. TypeOK'
  <2>1. stops' \in [Client -> [request : Orchestration \cup {NoId},
                               close : Orchestration \cup {NoId}]]
    BY DEF IInv, TypeOK
  <2>2. session' \in [id : Orchestration \cup {NoId}, owner : Client \cup {NoOne},
                      status : {"none", "running", "paused", "completed", "failed"}]
    BY <1>1 DEF NoSession
  <2>3. /\ starting' \in BOOLEAN /\ overlapped' \in BOOLEAN /\ guardLost' \in BOOLEAN
        /\ orphaned' \subseteq Orchestration
        /\ starts' \in [Client -> [at : {"none", "preparing", "logging"},
                                   id : Orchestration \cup {NoId}]]
    BY DEF IInv, TypeOK, DropSession
  <2>. QED
    BY <1>1, <1>4, <2>1, <2>2, <2>3 DEF TypeOK, Executor
<1>7. GuardBelongsToOneStart' /\ NoSessionWhileStarting'
  BY <1>1 DEF IInv, GuardBelongsToOneStart, NoSessionWhileStarting
<1>8. StartInv' /\ HeardInv' /\ StoppedInv'
  BY <1>4, <1>5 DEF IInv, StartInv, HeardInv, StoppedInv, DropSession
<1>9. /\ id \in Orchestration
      /\ stops[c].request # NoId \/ stops[c].close # NoId
      /\ stops[c].request = id \/ stops[c].close = id
  BY DEF IInv, TypeOK
<1>10. AwaitInv'
  <2>1. overlapped \/ guardLost \/ \A e \in Client : stops'[e].request = NoId /\ stops'[e].close = NoId
    BY <1>5, <1>9 DEF IInv, AwaitInv, AwaitsStop
  <2>. QED
    BY <2>1 DEF AwaitInv, AwaitsOf, AwaitsStop
<1>11. overlapped \/ guardLost \/ (session.id = id /\ executor[id].stop)
  BY <1>9 DEF IInv, AwaitInv, AwaitsOf
<1>12. SessionsAreTakenByOverlap'
  BY <1>11 DEF DropSession, IInv, SessionsAreTakenByOverlap
<1>13. OneExecution'
  <2>1. ASSUME NEW i \in Orchestration, executor'[i].state \in {"made", "running"},
               ~executor'[i].stop, i \notin orphaned'
        PROVE  FALSE
    <3>1. /\ executor[i].state \in {"made", "running"} /\ ~executor[i].stop
          /\ i \notin orphaned
      BY <1>4, <2>1 DEF DropSession
    <3>2. session.id = i
      BY <3>1 DEF IInv, OneExecution
    <3>3. i = id
      BY <2>1, <3>2 DEF DropSession
    <3>4. executor[id].stop
      BY <1>9 DEF IInv, StoppedInv
    <3>. QED
      BY <3>1, <3>3, <3>4
  <2>. QED
    BY <2>1 DEF OneExecution
<1>14. ReportedEndIsReal'
  BY <1>1 DEF ReportedEndIsReal
<1>. QED
  BY <1>6, <1>7, <1>8, <1>10, <1>12, <1>13, <1>14 DEF IInv

-----------------------------------------------------------------------------
(* Every step keeps the invariant.                                           *)
LEMMA StepInv == IInv /\ [Next]_vars => IInv'
<1>. SUFFICES ASSUME IInv, [Next]_vars PROVE IInv'
  OBVIOUS
<1>. USE RemoteOrchestrationAssumption
<1>1. \A c \in Client : stops[c] \in [request : Orchestration \cup {NoId},
                                      close : Orchestration \cup {NoId}]
  BY DEF IInv, TypeOK
<1>2. clients \subseteq Client /\ gone \subseteq Client /\ leftEarly \subseteq Client
  BY DEF IInv, TypeOK
<1>3. session # NoSession => session.id \in Orchestration
  BY DEF IInv, TypeOK
<1>4. ASSUME NEW c \in Client, 
               StartRequested(c) \/ StartFails(c) \/ Executes(c) \/ LogFails(c)
      PROVE  IInv'
  BY <1>4, StartKeeps
<1>5. ASSUME NEW c \in Client, StartSucceeds(c) PROVE IInv'
  BY <1>5, StartSucceedsKeeps
<1>6. ASSUME NEW c \in Client, Pause(c) \/ Resume(c) PROVE IInv'
  BY <1>6, PauseKeeps
<1>7. ASSUME NEW c \in Client, StopRequested(c) PROVE IInv'
  <2>. DEFINE stop == [stops[c] EXCEPT !.request = session.id]
  <2>1. session.id \in Orchestration /\ stops[c].request = NoId
    BY <1>3, <1>7 DEF StopRequested
  <2>2. stop \in [request : Orchestration \cup {NoId}, close : Orchestration \cup {NoId}]
    BY <1>1, <2>1
  <2>3. stops' = [stops EXCEPT ![c] = stop]
    BY <1>7 DEF StopRequested, IInv, TypeOK
  <2>. HIDE DEF stop
  <2>4. /\ executor' = StopExecutor(session.id)
        /\ overlapped' = (overlapped \/ StopsAwaited # {})
        /\ UNCHANGED <<clients, gone, starting, session, starts, guardLost, orphaned, leftEarly>>
    BY <1>7 DEF StopRequested
  <2>. QED
    BY <1>2, <2>1, <2>2, <2>3, <2>4, StopKeeps DEF stop
<1>8. ASSUME NEW c \in Client, StopSettles(c) PROVE IInv'
  <2>. DEFINE stop == [stops[c] EXCEPT !.request = NoId]
  <2>1. stop \in [request : Orchestration \cup {NoId}, close : Orchestration \cup {NoId}]
    BY <1>1
  <2>2. stop.request = NoId /\ stop.close = stops[c].close
    BY <1>1
  <2>3. stops' = [stops EXCEPT ![c] = stop]
    BY <1>8 DEF StopSettles, IInv, TypeOK
  <2>. HIDE DEF stop
  <2>4. /\ stops[c].request # NoId /\ DropSession(stops[c].request)
        /\ UNCHANGED <<clients, gone, starting, starts, overlapped, guardLost, leftEarly>>
    BY <1>8 DEF StopSettles
  <2>. QED
    BY <1>2, <2>1, <2>2, <2>3, <2>4, DropKeeps
<1>9. ASSUME NEW c \in Client, Close(c) PROVE IInv'
  <2>1. gone' \subseteq Client /\ leftEarly' \subseteq Client
    BY <1>2, <1>9 DEF Close
  <2>2. CASE OwnsSession(c)
    <3>. DEFINE stop == [stops[c] EXCEPT !.close = session.id]
    <3>1. session.id \in Orchestration
      BY <1>3, <2>2 DEF OwnsSession, NoSession
    <3>2. stop \in [request : Orchestration \cup {NoId}, close : Orchestration \cup {NoId}]
      BY <1>1, <3>1
    <3>3. stops' = [stops EXCEPT ![c] = stop]
      BY <1>9, <2>2 DEF Close, IInv, TypeOK
    <3>. HIDE DEF stop
    <3>4. /\ executor' = StopExecutor(session.id)
          /\ overlapped' = (overlapped \/ StopsAwaited # {})
          /\ UNCHANGED <<clients, starting, session, starts, guardLost, orphaned>>
      BY <1>9, <2>2 DEF Close
    <3>. QED
      BY <2>1, <3>1, <3>2, <3>3, <3>4, StopKeeps DEF stop
  <2>3. CASE ~OwnsSession(c)
    <3>1. /\ clients' = clients \ {c}
          /\ UNCHANGED <<starting, session, executor, starts, stops, overlapped,
                       guardLost, orphaned>>
      BY <1>9, <2>3 DEF Close
    <3>2. TypeOK'
      BY <1>2, <2>1, <3>1 DEF IInv, TypeOK
    <3>3. AwaitInv' /\ StoppedInv'
      BY <3>1 DEF IInv, AwaitInv, AwaitsOf, AwaitsStop, StoppedInv
    <3>. QED
      BY <3>1, <3>2, <3>3, ControlKeeps
  <2>. QED
    BY <2>2, <2>3
<1>10. ASSUME NEW c \in Client, CloseSettles(c) PROVE IInv'
  <2>. DEFINE stop == [stops[c] EXCEPT !.close = NoId]
  <2>1. stop \in [request : Orchestration \cup {NoId}, close : Orchestration \cup {NoId}]
    BY <1>1
  <2>2. stop.close = NoId /\ stop.request = stops[c].request
    BY <1>1
  <2>3. stops' = [stops EXCEPT ![c] = stop]
    BY <1>10 DEF CloseSettles, IInv, TypeOK
  <2>. HIDE DEF stop
  <2>4. /\ stops[c].close # NoId /\ DropSession(stops[c].close)
        /\ clients' \subseteq Client
        /\ UNCHANGED <<gone, starting, starts, overlapped, guardLost, leftEarly>>
    BY <1>2, <1>10 DEF CloseSettles
  <2>. QED
    BY <1>2, <2>1, <2>2, <2>3, <2>4, DropKeeps
<1>11. ASSUME NEW i \in Orchestration, ExecutionEnds(i) PROVE IInv'
  BY <1>11, EndKeeps
<1>12. CASE UNCHANGED vars
  <2>. USE <1>12 DEF vars
  <2>1. TypeOK' /\ AwaitInv' /\ StoppedInv'
    BY DEF IInv, TypeOK, AwaitInv, AwaitsOf, AwaitsStop, StoppedInv
  <2>. QED
    BY <2>1, ControlKeeps
<1>. QED
  BY <1>4, <1>5, <1>6, <1>7, <1>8, <1>9, <1>10, <1>11, <1>12 DEF Next

(* The invariant the theorems below rest on. *)
THEOREM Invariant == Spec => []IInv
  BY InitInv, StepInv, PTL DEF Spec

(* One start is prepared at a time, it alone holds the guard, and there is no *)
(* session beside it, until a start whose log failed has cleared the guard of *)
(* another (handleOrchestrateStart of server.ts).                             *)
THEOREM OneStartAtATime == Spec => []StartsAreExclusive
<1>1. IInv => StartsAreExclusive
  BY DEF IInv, StartsAreExclusive
<1>. QED
  BY <1>1, Invariant, PTL

(* An execution nobody stopped is the session's, or its session was taken from *)
(* it, which happens only where two stops overlapped or a failed log cleared  *)
(* the guard; and a session that reports an end belongs to an execution that  *)
(* has ended (the awaits of the orchestrate handlers of server.ts).            *)
THEOREM SessionStandsForExecution == Spec => []SessionIsItsExecution
<1>1. IInv => SessionIsItsExecution
  BY DEF IInv, SessionIsItsExecution
<1>. QED
  BY <1>1, Invariant, PTL

-----------------------------------------------------------------------------
(* The tabs.                                                                  *)

(* The tabs, the clients and the statuses agree. *)
Elements(s) == {s[i] : i \in DOMAIN s}
TabClients == [Alias -> ConnectionStatus \cup {"absent"}]
Shown == [Alias -> ConnectionStatus]
Agree(shownTabs, names, held, statuses) ==
    \A a \in Alias :
        /\ held[a] # "absent" => a \in shownTabs /\ a \in names /\ statuses[a] = held[a]
        /\ held[a] = "absent" => statuses[a] = "disconnected"

(* While the selected tab shows connected, its data is asked for, or it is on   *)
(* the screen and the subscription under way or made, save for what went wrong. *)
LiveInv ==
    EffectIsOn =>
        \/ [at |-> "state", from |-> SelectedTab] \in fetches
        \/ /\ shown = SelectedTab \/ stale
           /\ \/ [at |-> "tasks", from |-> NoAlias] \in fetches
              \/ SelectedTab \in subscribed \/ deaf

TabsInv == TabsInOrder /\ LiveInv

-----------------------------------------------------------------------------
(* A tab is appended.                                                        *)
LEMMA AppendedTab ==
    ASSUME NEW S, NEW s \in Seq(S), NEW a \in S
    PROVE  /\ Append(s, a) \in Seq(S)
           /\ Elements(Append(s, a)) = Elements(s) \cup {a}
           /\ \A i \in DOMAIN s : i \in DOMAIN Append(s, a) /\ Append(s, a)[i] = s[i]
           /\ 1 \in DOMAIN Append(s, a)
<1>. DEFINE r == Append(s, a)
<1>1. /\ r \in Seq(S) /\ Len(s) \in Nat /\ DOMAIN s = 1..Len(s) /\ DOMAIN r = 1..(Len(s) + 1)
      /\ r[Len(s) + 1] = a /\ \A i \in DOMAIN s : r[i] = s[i]
  OBVIOUS
<1>. HIDE DEF r
<1>2. Elements(r) = Elements(s) \cup {a}
  BY <1>1 DEF Elements
<1>. QED
  BY <1>1, <1>2 DEF r

(* A tab is cut out.                                                         *)
LEMMA RemovedTab ==
    ASSUME NEW S, NEW s \in Seq(S), NEW k \in DOMAIN s
    PROVE  LET r == Without(s, k)
           IN  /\ r \in Seq(S) /\ DOMAIN r = 1..(Len(s) - 1) /\ Len(s) \in Nat \ {0}
               /\ Elements(s) \ {s[k]} \subseteq Elements(r)
               /\ Elements(r) \subseteq Elements(s)
               /\ \A i \in DOMAIN r : r[i] = IF i < k THEN s[i] ELSE s[i + 1]
<1>. DEFINE r == Without(s, k)
<1>1. /\ Len(s) \in Nat /\ DOMAIN s = 1..Len(s) /\ k \in 1..Len(s)
  OBVIOUS
<1>2. /\ r \in Seq(S) /\ DOMAIN r = 1..(Len(s) - 1)
      /\ \A i \in DOMAIN r : r[i] = IF i < k THEN s[i] ELSE s[i + 1]
  <2>. DEFINE b == SubSeq(s, 1, k - 1)
              e == SubSeq(s, k + 1, Len(s))
  <2>1. /\ b \in Seq(S) /\ Len(b) = k - 1 /\ \A i \in 1..(k - 1) : b[i] = s[i]
    BY <1>1
  <2>2. /\ e \in Seq(S) /\ Len(e) = Len(s) - k /\ \A i \in 1..(Len(s) - k) : e[i] = s[k + i]
    BY <1>1
  <2>. HIDE DEF b, e
  <2>3. /\ b \o e \in Seq(S) /\ Len(b \o e) = Len(b) + Len(e)
        /\ \A i \in 1..(Len(b) + Len(e)) :
              (b \o e)[i] = IF i <= Len(b) THEN b[i] ELSE e[i - Len(b)]
    <3>1. b \in Seq(S) /\ e \in Seq(S)
      BY <2>1, <2>2
    <3>. QED
      BY <3>1
  <2>4. Len(b) + Len(e) = Len(s) - 1
    BY <1>1, <2>1, <2>2
  <2>5. ASSUME NEW i \in 1..(Len(s) - 1) PROVE (b \o e)[i] = IF i < k THEN s[i] ELSE s[i + 1]
    <3>1. CASE i < k
      <4>1. i <= Len(b) /\ i \in 1..(k - 1)
        BY <1>1, <2>1, <3>1
      <4>. QED
        BY <2>1, <2>3, <2>4, <3>1, <4>1
    <3>2. CASE ~(i < k)
      <4>1. ~(i <= Len(b)) /\ i - Len(b) \in 1..(Len(s) - k) /\ k + (i - Len(b)) = i + 1
        BY <1>1, <2>1, <3>2
      <4>. QED
        BY <2>2, <2>3, <2>4, <3>2, <4>1
    <3>. QED
      BY <3>1, <3>2
  <2>6. DOMAIN (b \o e) = 1..(Len(s) - 1)
    BY <2>3, <2>4
  <2>7. r = b \o e
    BY DEF Without, b, e
  <2>. QED
    BY <2>3, <2>5, <2>6, <2>7
<1>. HIDE DEF r
<1>3. ASSUME NEW i \in DOMAIN s, i # k PROVE s[i] \in Elements(r)
  <2>1. CASE i < k
    BY <1>1, <1>2, <1>3, <2>1 DEF Elements
  <2>2. CASE i > k
    <3>1. i - 1 \in DOMAIN r /\ r[i - 1] = s[i]
      BY <1>1, <1>2, <1>3, <2>2
    <3>. QED
      BY <3>1 DEF Elements
  <2>. QED
    BY <1>1, <1>3, <2>1, <2>2
<1>4. ASSUME NEW i \in DOMAIN r PROVE r[i] \in Elements(s)
  <2>1. PICK j \in DOMAIN s : r[i] = s[j]
    BY <1>1, <1>2, <1>4
  <2>. QED
    BY <2>1 DEF Elements
<1>5. Elements(s) \ {s[k]} \subseteq Elements(r) /\ Elements(r) \subseteq Elements(s)
  BY <1>3, <1>4 DEF Elements
<1>. QED
  BY <1>1, <1>2, <1>5 DEF r

(* A tab is found by its alias. *)
LEMMA FirstTab ==
    ASSUME tabs \in Seq(Alias \cup {Local}), NEW a \in TabSet
    PROVE  IndexOf(a) \in DOMAIN tabs /\ tabs[IndexOf(a)] = a
<1>. DEFINE places == {i \in DOMAIN tabs : tabs[i] = a}
<1>1. places # {} /\ places \subseteq Nat /\ DOMAIN tabs \subseteq Nat
  BY DEF TabSet
<1>2. PICK n \in places : \A m \in places : <<m, n>> \notin OpToRel(<, Nat)
  BY <1>1, WFMin, NatLessThanWellFounded
<1>3. \A m \in places : ~(m < n)
  BY <1>1, <1>2 DEF OpToRel
<1>4. n \in DOMAIN tabs /\ tabs[n] = a /\ \A j \in 1 .. n - 1 : tabs[j] # a
  <2>1. \A j \in 1 .. n - 1 : j \in DOMAIN tabs /\ j < n
    BY <1>1
  <2>. QED
    BY <1>3, <2>1
<1>. QED
  BY <1>4 DEF IndexOf

(* What the types say of the tabs. *)
LEMMA TabFacts ==
    ASSUME TabsInOrder
    PROVE  /\ tabs \in Seq(Alias \cup {Local}) /\ TabSet = Elements(tabs)
           /\ TabSet \subseteq Alias \cup {Local} /\ Local \notin Alias /\ NoAlias \notin TabSet
           /\ NoAlias \notin Alias /\ Len(tabs) \in Nat /\ DOMAIN tabs = 1..Len(tabs)
           /\ \A i \in DOMAIN tabs : tabs[i] \in TabSet
           /\ \A a \in TabSet : IndexOf(a) \in DOMAIN tabs /\ tabs[IndexOf(a)] = a
           /\ known \subseteq Alias
           /\ client \in TabClients /\ status \in Shown /\ Agree(TabSet, known, client, status)
<1>1. tabs \in Seq(Alias \cup {Local}) /\ TabSet = Elements(tabs)
  BY DEF TabsInOrder, TabsTypeOK, TabSet, Elements
<1>2. /\ Len(tabs) \in Nat /\ DOMAIN tabs = 1..Len(tabs)
      /\ \A i \in DOMAIN tabs : tabs[i] \in TabSet
      /\ TabSet \subseteq Alias \cup {Local}
  BY <1>1 DEF TabSet
<1>3. \A a \in TabSet : IndexOf(a) \in DOMAIN tabs /\ tabs[IndexOf(a)] = a
  BY <1>1, FirstTab
<1>4. /\ client \in TabClients /\ status \in Shown /\ Agree(TabSet, known, client, status)
      /\ known \subseteq Alias
  BY DEF TabsInOrder, TabsTypeOK, TabsShowTheirClients, TabClients, Shown, Agree
<1>. QED
  BY <1>1, <1>2, <1>3, <1>4, InstanceManagerAssumption

(* A remote that is known and has a tab is connected; more tabs and more remotes *)
(* make no difference to the others.                                           *)
LEMMA ConnectAgrees ==
    ASSUME NEW T, NEW K, NEW U, NEW L, NEW c \in TabClients, NEW s \in Shown,
           Agree(T, K, c, s), T \subseteq U, K \subseteq L, NEW a \in Alias, a \in U, a \in L
    PROVE  /\ ConnectTo(c, a) \in TabClients /\ StatusAfterConnect(s, c, a) \in Shown
           /\ Agree(U, L, ConnectTo(c, a), StatusAfterConnect(s, c, a))
<1>1. CASE c[a] = "connected"
  <2>1. ConnectTo(c, a) = c /\ StatusAfterConnect(s, c, a) = s
    BY <1>1 DEF ConnectTo, StatusAfterConnect
  <2>. QED
    BY <2>1 DEF Agree
<1>2. CASE c[a] # "connected"
  <2>1. StatusAfterConnect(s, c, a) = [s EXCEPT ![a] = "connecting"]
    BY <1>2 DEF StatusAfterConnect
  <2>2. ConnectTo(c, a) = [c EXCEPT ![a] = "connecting"]
    BY <1>2 DEF ConnectTo, TabClients
  <2>. QED
    BY <2>1, <2>2 DEF TabClients, Shown, Agree, ConnectionStatus
<1>. QED
  BY <1>1, <1>2

(* A remote goes with its first tab. *)
LEMMA GoneAgrees ==
    ASSUME NEW T, NEW K, NEW U, NEW c \in TabClients, NEW s \in Shown, Agree(T, K, c, s),
           NEW a \in Alias, T \ {a} \subseteq U
    PROVE  /\ [c EXCEPT ![a] = "absent"] \in TabClients /\ [s EXCEPT ![a] = "disconnected"] \in Shown
           /\ Agree(U, K \ {a}, [c EXCEPT ![a] = "absent"], [s EXCEPT ![a] = "disconnected"])
BY DEF TabClients, Shown, Agree, ConnectionStatus

(* The effect, in any step, keeps the types.                                 *)
LEMMA RenderTyped ==
    ASSUME TabsTypeOK, Render
    PROVE  /\ fetches' \subseteq [at : {"state", "tasks"}, from : Alias \cup {NoAlias}]
           /\ subscribed' \subseteq Alias /\ stale' \in BOOLEAN /\ deaf' \in BOOLEAN
<1>1. SelectedClient' \in Alias \cup {NoAlias}
  BY DEF SelectedClient, ViewingRemote
<1>2. [at |-> "state", from |-> SelectedClient'] \in [at : {"state", "tasks"}, from : Alias \cup {NoAlias}]
  BY <1>1
<1>3. CASE EffectKey' = EffectKey
  <2>. DEFINE unnoticed == EffectIsOn /\ SelectedTab' # SelectedTab
  <2>1. /\ subscribed' \subseteq subscribed /\ fetches' = fetches
        /\ stale' = (stale \/ unnoticed) /\ deaf' = (deaf \/ unnoticed)
    BY <1>3 DEF Render
  <2>2. (stale \/ unnoticed) \in BOOLEAN /\ (deaf \/ unnoticed) \in BOOLEAN
    BY Zenon
  <2>. QED
    BY <2>1, <2>2 DEF TabsTypeOK
<1>4. CASE EffectKey' # EffectKey
  <2>1. /\ subscribed' \subseteq subscribed /\ stale' = FALSE /\ deaf' = FALSE
        /\ \/ fetches' = fetches
           \/ fetches' = fetches \cup {[at |-> "state", from |-> SelectedClient']}
    BY <1>4 DEF Render
  <2>. HIDE DEF SelectedClient
  <2>. QED
    BY <1>2, <2>1 DEF TabsTypeOK
<1>. QED
  BY <1>3, <1>4

(* What a step has to leave: the tabs, the selection and the clients, and the  *)
(* saves.                                                                      *)
InOrder(someTabs, i, names, held, statuses) ==
    /\ someTabs \in Seq(Alias \cup {Local})
    /\ IF someTabs = <<>> THEN i = 1 ELSE i \in DOMAIN someTabs
    /\ names \subseteq Alias
    /\ held \in TabClients /\ statuses \in Shown
    /\ Agree(Elements(someTabs), names, held, statuses)

SaveRecord == [kind : Kinds, alias : Alias \cup {NoAlias}, new : Alias \cup {NoAlias}]
SaveTyped(save) ==
    /\ save \in SaveRecord
    /\ save.kind # "done" => save.alias \in Alias
    /\ save.kind = "rename" => save.new \in Alias
SavesTyped == saves \in Seq(SaveRecord) /\ \A s \in DOMAIN saves : SaveTyped(saves[s])

LEMMA SavesFacts == ASSUME TabsInOrder PROVE SavesTyped /\ editing \in Alias \cup {NoAlias}
<1>1. /\ saves \in Seq(SaveRecord) /\ editing \in Alias \cup {NoAlias}
      /\ \A s \in DOMAIN saves :
           /\ saves[s].kind # "done" => saves[s].alias \in Alias
           /\ saves[s].kind = "rename" => saves[s].new \in Alias
  BY DEF TabsInOrder, TabsTypeOK, SaveRecord
<1>2. \A s \in DOMAIN saves : saves[s] \in SaveRecord
  <2>. HIDE DEF SaveRecord
  <2>. QED
    BY <1>1
<1>. QED
  BY <1>1, <1>2 DEF SavesTyped, SaveTyped

LEMMA OrderIsKept ==
    ASSUME TabsTypeOK, Render, shown' = shown, editing' \in Alias \cup {NoAlias}, SavesTyped',
           InOrder(tabs', selected', known', client', status')
    PROVE  TabsInOrder'
<1>1. /\ fetches' \subseteq [at : {"state", "tasks"}, from : Alias \cup {NoAlias}]
      /\ subscribed' \subseteq Alias /\ stale' \in BOOLEAN /\ deaf' \in BOOLEAN
  BY RenderTyped
<1>2. TabsTypeOK'
  BY <1>1 DEF TabsTypeOK, InOrder, TabClients, Shown, SavesTyped, SaveTyped, SaveRecord
<1>3. TabsShowTheirClients'
  BY DEF TabsShowTheirClients, InOrder, Agree, TabSet, Elements
<1>. QED
  BY <1>2, <1>3 DEF TabsInOrder

(* A save that is done, or goes on to its next await. *)
LEMMA SaveGoesOn ==
    ASSUME TabsInOrder, NEW s \in DOMAIN saves, NEW save, SaveTyped(save),
           saves' = [saves EXCEPT ![s] = save]
    PROVE  SavesTyped'
<1>1. saves \in Seq(SaveRecord) /\ \A t \in DOMAIN saves : SaveTyped(saves[t])
  BY SavesFacts DEF SavesTyped
<1>2. save \in SaveRecord
  BY DEF SaveTyped
<1>3. /\ saves' \in Seq(SaveRecord) /\ DOMAIN saves' = DOMAIN saves
      /\ \A t \in DOMAIN saves : saves'[t] = IF t = s THEN save ELSE saves[t]
  BY <1>1, <1>2
<1>. QED
  BY <1>1, <1>3 DEF SavesTyped

LEMMA SaveIsDone == ASSUME TabsInOrder, NEW s \in DOMAIN saves, Done(s) PROVE SavesTyped'
<1>1. SaveTyped(SaveOf("done", NoAlias))
  BY DEF SaveTyped, SaveOf, SaveRecord, Kinds
<1>. QED
  BY <1>1, SaveGoesOn DEF Done

(* The alias of a save that waits. *)
LEMMA SaveFacts ==
    ASSUME TabsInOrder, NEW s \in DOMAIN saves
    PROVE  SaveTyped(saves[s]) /\ (saves[s].kind # "done" => saves[s].alias \in Alias)
  BY SavesFacts DEF SavesTyped, SaveTyped

(* Selecting a tab connects it where it shows disconnected. *)
LEMMA SelectionInOrder ==
    ASSUME TabsInOrder, NEW i \in DOMAIN tabs, Select(i), tabs' = tabs, known' = known
    PROVE  InOrder(tabs', selected', known', client', status')
<1>. DEFINE a == tabs[i]
<1>1. a \in TabSet /\ (a # Local => a \in Alias) /\ tabs # <<>> /\ selected' = i
  BY TabFacts DEF Select
<1>2. client' \in TabClients /\ status' \in Shown /\ Agree(TabSet, known, client', status')
  <2>1. CASE a # Local /\ StatusOfTab(i) = "disconnected" /\ a \in known
    <3>1. client' = ConnectTo(client, a) /\ status' = StatusAfterConnect(status, client, a)
      BY <2>1 DEF Select
    <3>. HIDE DEF a
    <3>. QED
      BY <1>1, <2>1, <3>1, TabFacts, ConnectAgrees
  <2>2. CASE ~(a # Local /\ StatusOfTab(i) = "disconnected" /\ a \in known)
    <3>1. UNCHANGED <<client, status>>
      BY <2>2 DEF Select
    <3>. QED
      BY <3>1, TabFacts
  <2>. QED
    BY <2>1, <2>2
<1>. QED
  BY <1>1, <1>2, TabFacts DEF InOrder

(* The selection stays in the tabs that are left.                            *)
LEMMA RemovalInRange ==
    ASSUME TabsInOrder, NEW k \in DOMAIN tabs
    PROVE  LET r == Without(tabs, k)
           IN  /\ IF r = <<>> THEN IndexAfterRemoval(k) = 1 ELSE IndexAfterRemoval(k) \in DOMAIN r
               /\ selected \in DOMAIN tabs /\ selected # k =>
                    /\ IndexAfterRemoval(k) \in DOMAIN r
                    /\ r[IndexAfterRemoval(k)] = tabs[selected]
<1>. DEFINE r == Without(tabs, k)
            n == IndexAfterRemoval(k)
<1>1. /\ r \in Seq(Alias \cup {Local}) /\ DOMAIN r = 1..(Len(tabs) - 1) /\ Len(tabs) \in Nat \ {0}
      /\ \A i \in DOMAIN r : r[i] = IF i < k THEN tabs[i] ELSE tabs[i + 1]
      /\ DOMAIN tabs = 1..Len(tabs) /\ selected \in DOMAIN tabs
  <2>1. tabs # <<>>
    OBVIOUS
  <2>. QED
    BY <2>1, TabFacts, RemovedTab DEF TabsInOrder, TabsTypeOK
<1>. HIDE DEF r
<1>2. CASE Len(tabs) = 1
  <2>1. r = <<>> /\ selected = 1 /\ k = 1
    BY <1>1, <1>2
  <2>2. n = 1
    BY <1>2, <2>1 DEF IndexAfterRemoval
  <2>. QED
    BY <2>1, <2>2 DEF r
<1>3. CASE Len(tabs) > 1
  <2>1. r # <<>>
    BY <1>1, <1>3
  <2>2. n \in DOMAIN r
    BY <1>1, <1>3 DEF IndexAfterRemoval
  <2>3. ASSUME selected # k PROVE r[n] = tabs[selected]
    <3>1. CASE selected = Len(tabs)
      <4>1. n = Len(tabs) - 1 /\ ~(n < k)
        <5>1. k < Len(tabs) /\ selected > Len(tabs) - 1
          BY <1>1, <2>3, <3>1
        <5>2. n = Len(tabs) - 1
          BY <1>3, <5>1 DEF IndexAfterRemoval
        <5>. QED
          BY <1>1, <5>1, <5>2
      <4>. QED
        BY <1>1, <2>2, <3>1, <4>1
    <3>2. CASE selected < Len(tabs) /\ selected > k
      <4>1. n = selected - 1 /\ ~(n < k)
        BY <1>1, <1>3, <3>2 DEF IndexAfterRemoval
      <4>. QED
        BY <1>1, <2>2, <3>2, <4>1
    <3>3. CASE selected < Len(tabs) /\ selected < k
      <4>1. n = selected
        BY <1>1, <1>3, <3>3 DEF IndexAfterRemoval
      <4>. QED
        BY <1>1, <2>2, <3>3, <4>1
    <3>. QED
      BY <1>1, <2>3, <3>1, <3>2, <3>3
  <2>. QED
    BY <1>1, <2>1, <2>2, <2>3 DEF r
<1>. QED
  BY <1>1, <1>2, <1>3

LEMMA TabsStart == ASSUME TabsInit PROVE TabsInv
<1>0. known = {Configured[i] : i \in DOMAIN Configured} /\ selected = 1
  BY DEF TabsInit
<1>1. /\ Configured \in Seq(Alias) /\ Local \notin Alias
      /\ NoAlias \notin Alias \cup {Local} /\ RemoteOnly \in BOOLEAN
  BY InstanceManagerAssumption
<1>2. /\ tabs \in Seq(Alias \cup {Local})
      /\ IF tabs = <<>> THEN selected = 1 ELSE selected \in DOMAIN tabs
      /\ known \subseteq Alias
  <2>0. known \subseteq Alias
    BY <1>0, <1>1
  <2>1. CASE RemoteOnly
    <3>1. tabs = Configured /\ Configured \in Seq(Alias \cup {Local})
      BY <1>1, <2>1 DEF TabsInit
    <3>2. selected = 1 /\ (Configured # <<>> => 1 \in DOMAIN Configured)
      BY <1>1 DEF TabsInit
    <3>. QED
      BY <1>0, <2>0, <3>1, <3>2
  <2>2. CASE ~RemoteOnly
    <3>1. tabs = <<Local>> \o Configured /\ selected = 1
      BY <2>2 DEF TabsInit
    <3>2. <<Local>> \o Configured \in Seq(Alias \cup {Local}) /\ 1 \in DOMAIN (<<Local>> \o Configured)
      BY <1>1
    <3>. QED
      BY <2>0, <3>1, <3>2
  <2>. QED
    BY <2>1, <2>2
<1>3. saves = <<>> /\ saves \in Seq([kind : Kinds, alias : Alias \cup {NoAlias}, new : Alias \cup {NoAlias}])
      /\ DOMAIN saves = {}
  BY DEF TabsInit
<1>4. TabsTypeOK
  BY <1>2, <1>3 DEF TabsInit, TabsTypeOK, ConnectionStatus
<1>5. TabsShowTheirClients
  BY DEF TabsInit, TabsShowTheirClients
<1>6. ~EffectIsOn
  <2>1. ViewingRemote => tabs[selected] \in Alias
    BY <1>1 DEF ViewingRemote, SelectedTab
  <2>. QED
    BY <2>1 DEF EffectIsOn, SelectedStatus, StatusOfTab, TabsInit, SelectedTab, ViewingRemote
<1>. QED
  BY <1>4, <1>5, <1>6 DEF TabsInv, TabsInOrder, LiveInv

-----------------------------------------------------------------------------
(* Each step keeps the tabs in order.                                        *)

(* The state as the steps find it. *)
LEMMA OrderFacts ==
    ASSUME TabsInOrder
    PROVE  InOrder(tabs, selected, known, client, status)
BY TabFacts DEF InOrder, TabsInOrder, TabsTypeOK

LEMMA SelectTabKeepsOrder ==
    ASSUME TabsInOrder, NEW i \in DOMAIN tabs, SelectTab(i) PROVE TabsInOrder'
<1>1. /\ Select(i) /\ tabs' = tabs /\ known' = known /\ editing' = editing
      /\ saves' = saves /\ shown' = shown /\ Render
  BY DEF SelectTab
<1>2. InOrder(tabs', selected', known', client', status')
  BY <1>1, SelectionInOrder
<1>3. SavesTyped'
  BY <1>1, SavesFacts DEF SavesTyped
<1>. QED
  BY <1>1, <1>2, <1>3, SavesFacts, OrderIsKept DEF TabsInOrder

LEMMA SubmitKeepsOrder ==
    ASSUME TabsInOrder, NEW save, SaveTyped(save), Submit(save), editing' \in Alias \cup {NoAlias}
    PROVE  TabsInOrder'
<1>1. /\ saves' = Append(saves, save) /\ tabs' = tabs /\ selected' = selected /\ known' = known
      /\ status' = status /\ client' = client /\ shown' = shown /\ Render
  BY DEF Submit
<1>2. SavesTyped'
  <2>1. saves \in Seq(SaveRecord) /\ save \in SaveRecord /\ \A s \in DOMAIN saves : SaveTyped(saves[s])
    BY SavesFacts DEF SavesTyped, SaveTyped
  <2>2. /\ Append(saves, save) \in Seq(SaveRecord)
        /\ \A s \in DOMAIN Append(saves, save) :
             \/ s \in DOMAIN saves /\ Append(saves, save)[s] = saves[s]
             \/ Append(saves, save)[s] = save
    BY <2>1
  <2>. QED
    BY <1>1, <2>1, <2>2 DEF SavesTyped
<1>3. InOrder(tabs', selected', known', client', status')
  BY <1>1, OrderFacts
<1>. QED
  BY <1>1, <1>2, <1>3, OrderIsKept DEF TabsInOrder

LEMMA SubmitAddKeepsOrder ==
    ASSUME TabsInOrder, NEW a \in Alias, SubmitAdd(a) PROVE TabsInOrder'
<1>1. SaveTyped(SaveOf("add", a))
  BY DEF SaveTyped, SaveOf, SaveRecord, Kinds
<1>. QED
  BY <1>1, SavesFacts, SubmitKeepsOrder DEF SubmitAdd

LEMMA SubmitChangeKeepsOrder ==
    ASSUME TabsInOrder, NEW a \in Alias, SubmitChange(a) PROVE TabsInOrder'
<1>1. editing' \in Alias \cup {NoAlias}
  BY DEF SubmitChange
<1>2. SaveTyped(SaveOf("edit", a)) /\ SaveTyped(SaveOf("delete", a))
  BY DEF SaveTyped, SaveOf, SaveRecord, Kinds
<1>3. \A b \in Alias : SaveTyped([SaveOf("rename", a) EXCEPT !.new = b])
  BY DEF SaveTyped, SaveOf, SaveRecord, Kinds
<1>. QED
  BY <1>1, <1>2, <1>3, SubmitKeepsOrder DEF SubmitChange

LEMMA SaveFailsKeepsOrder ==
    ASSUME TabsInOrder, NEW s \in DOMAIN saves, SaveFails(s) PROVE TabsInOrder'
<1>1. /\ Done(s) /\ tabs' = tabs /\ selected' = selected /\ known' = known /\ editing' = editing
      /\ status' = status /\ client' = client /\ shown' = shown /\ Render
  BY DEF SaveFails
<1>2. InOrder(tabs', selected', known', client', status')
  BY <1>1, OrderFacts
<1>. QED
  BY <1>1, <1>2, SavesFacts, SaveIsDone, OrderIsKept DEF TabsInOrder

(* A tab comes at the end, connecting. *)
LEMMA AddInOrder ==
    ASSUME TabsInOrder, NEW a \in Alias, AddAndConnect(a)
    PROVE  InOrder(tabs', selected', known', client', status')
<1>. DEFINE r == Append(tabs, a)
<1>1. /\ known' = known \cup {a} /\ tabs' = r /\ client' = ConnectTo(client, a)
      /\ status' = StatusAfterConnect(status, client, a) /\ selected' = selected
  BY DEF AddAndConnect
<1>2. /\ r \in Seq(Alias \cup {Local}) /\ Elements(r) = TabSet \cup {a}
      /\ \A i \in DOMAIN tabs : i \in DOMAIN r
      /\ 1 \in DOMAIN r
  BY TabFacts, AppendedTab
<1>. HIDE DEF r
<1>3. r # <<>> /\ selected \in DOMAIN r
  BY <1>2 DEF TabsInOrder, TabsTypeOK
<1>4. /\ client' \in TabClients /\ status' \in Shown
      /\ Agree(TabSet \cup {a}, known \cup {a}, client', status')
  BY <1>1, TabFacts, ConnectAgrees
<1>. QED
  BY <1>1, <1>2, <1>3, <1>4, TabFacts DEF InOrder

LEMMA AddRemoteKeepsOrder ==
    ASSUME TabsInOrder, NEW s \in DOMAIN saves, AddRemote(s) PROVE TabsInOrder'
<1>1. /\ saves[s].kind = "add" /\ AddAndConnect(saves[s].alias)
      /\ saves' = [saves EXCEPT ![s] = [saves[s] EXCEPT !.kind = "select"]]
      /\ editing' = editing /\ shown' = shown /\ Render
  BY DEF AddRemote
<1>2. saves[s].alias \in Alias /\ SaveTyped([saves[s] EXCEPT !.kind = "select"])
  BY <1>1, SaveFacts DEF SaveTyped, SaveRecord, Kinds
<1>3. InOrder(tabs', selected', known', client', status')
  BY <1>1, <1>2, AddInOrder
<1>. QED
  BY <1>1, <1>2, <1>3, SavesFacts, SaveGoesOn, OrderIsKept DEF TabsInOrder

LEMMA AddRenamedKeepsOrder ==
    ASSUME TabsInOrder, NEW s \in DOMAIN saves, AddRenamed(s) PROVE TabsInOrder'
<1>1. /\ saves[s].kind = "renamed" /\ AddAndConnect(saves[s].alias)
      /\ Done(s) /\ editing' = editing /\ shown' = shown /\ Render
  BY DEF AddRenamed
<1>2. saves[s].alias \in Alias
  BY <1>1, SaveFacts
<1>3. InOrder(tabs', selected', known', client', status')
  BY <1>1, <1>2, AddInOrder
<1>. QED
  BY <1>1, <1>3, SavesFacts, SaveIsDone, OrderIsKept DEF TabsInOrder

LEMMA AddSettlesKeepsOrder ==
    ASSUME TabsInOrder, NEW s \in DOMAIN saves, AddSettles(s) PROVE TabsInOrder'
<1>. DEFINE a == saves[s].alias
<1>1. /\ Done(s) /\ tabs' = tabs /\ known' = known /\ editing' = editing /\ shown' = shown /\ Render
      /\ IF a \in TabSet THEN Select(IndexOf(a)) ELSE UNCHANGED <<selected, client, status>>
  BY DEF AddSettles
<1>. HIDE DEF a
<1>2. InOrder(tabs', selected', known', client', status')
  <2>1. CASE a \in TabSet
    <3>1. IndexOf(a) \in DOMAIN tabs /\ Select(IndexOf(a))
      BY <1>1, <2>1, TabFacts
    <3>. QED
      BY <1>1, <3>1, SelectionInOrder
  <2>2. CASE a \notin TabSet
    BY <1>1, <2>2, OrderFacts
  <2>. QED
    BY <2>1, <2>2
<1>. QED
  BY <1>1, <1>2, SavesFacts, SaveIsDone, OrderIsKept DEF TabsInOrder

LEMMA EditRemoteKeepsOrder ==
    ASSUME TabsInOrder, NEW s \in DOMAIN saves, EditRemote(s) PROVE TabsInOrder'
<1>. DEFINE a == saves[s].alias
<1>1. /\ saves[s].kind = "edit" /\ Done(s) /\ tabs' = tabs /\ selected' = selected
      /\ known' = known \cup {a} /\ editing' = editing /\ shown' = shown /\ Render
      /\ IF a \in TabSet
         THEN /\ client' = [[client EXCEPT ![a] = "absent"] EXCEPT ![a] = "connecting"]
              /\ status' = [status EXCEPT ![a] = "connecting"]
         ELSE client' = [client EXCEPT ![a] = "absent"] /\ status' = status
  BY DEF EditRemote, ForgetClient
<1>2. a \in Alias
  BY <1>1, SaveFacts
<1>. HIDE DEF a
<1>3. client' \in TabClients /\ status' \in Shown /\ Agree(TabSet, known \cup {a}, client', status')
  <2>1. CASE a \in TabSet
    <3>1. client' = [client EXCEPT ![a] = "connecting"] /\ status' = [status EXCEPT ![a] = "connecting"]
      BY <1>1, <2>1, TabFacts DEF TabClients
    <3>. QED
      BY <1>2, <2>1, <3>1, TabFacts DEF TabClients, Shown, Agree, ConnectionStatus
  <2>2. CASE a \notin TabSet
    <3>1. client[a] = "absent" /\ status[a] = "disconnected"
      BY <1>2, <2>2, TabFacts DEF Agree
    <3>. QED
      BY <1>1, <1>2, <2>2, <3>1, TabFacts DEF TabClients, Shown, Agree
  <2>. QED
    BY <2>1, <2>2
<1>4. InOrder(tabs', selected', known', client', status')
  BY <1>1, <1>2, <1>3, OrderFacts, TabFacts DEF InOrder
<1>. QED
  BY <1>1, <1>4, SavesFacts, SaveIsDone, OrderIsKept DEF TabsInOrder

(* A tab goes with its client. *)
LEMMA GoneTabInOrder ==
    ASSUME TabsInOrder, NEW a \in Alias
    PROVE  /\ TabsWithout(a) \in Seq(Alias \cup {Local})
           /\ TabsWithout(a) # <<>> => 1 \in DOMAIN TabsWithout(a)
           /\ ForgetClient(a) \in TabClients /\ [status EXCEPT ![a] = "disconnected"] \in Shown
           /\ known \ {a} \subseteq Alias
           /\ Agree(Elements(TabsWithout(a)), known \ {a}, ForgetClient(a),
                    [status EXCEPT ![a] = "disconnected"])
<1>. DEFINE r == TabsWithout(a)
<1>1. r \in Seq(Alias \cup {Local}) /\ TabSet \ {a} \subseteq Elements(r)
  <2>1. CASE a \in TabSet
    <3>1. IndexOf(a) \in DOMAIN tabs /\ tabs[IndexOf(a)] = a /\ tabs \in Seq(Alias \cup {Local})
          /\ TabSet = Elements(tabs)
      BY <2>1, TabFacts
    <3>2. r = Without(tabs, IndexOf(a))
      BY <2>1 DEF TabsWithout
    <3>. HIDE DEF r
    <3>. QED
      BY <3>1, <3>2, RemovedTab
  <2>2. CASE a \notin TabSet
    BY <2>2, TabFacts DEF TabsWithout
  <2>. QED
    BY <2>1, <2>2
<1>. HIDE DEF r
<1>2. /\ ForgetClient(a) \in TabClients /\ [status EXCEPT ![a] = "disconnected"] \in Shown
      /\ Agree(Elements(r), known \ {a}, ForgetClient(a), [status EXCEPT ![a] = "disconnected"])
  BY <1>1, TabFacts, GoneAgrees DEF ForgetClient
<1>3. r # <<>> => 1 \in DOMAIN r
  BY <1>1
<1>4. known \ {a} \subseteq Alias
  BY TabFacts
<1>. QED
  BY <1>1, <1>2, <1>3, <1>4 DEF r

LEMMA RenameRemoteKeepsOrder ==
    ASSUME TabsInOrder, NEW s \in DOMAIN saves, RenameRemote(s) PROVE TabsInOrder'
<1>. DEFINE a == saves[s].alias
<1>1. /\ saves[s].kind = "rename" /\ saves' = [saves EXCEPT ![s] = SaveOf("renamed", saves[s].new)]
      /\ client' = ForgetClient(a) /\ status' = [status EXCEPT ![a] = "disconnected"]
      /\ known' = known \ {a} /\ tabs' = TabsWithout(a)
      /\ selected' = IF a \in TabSet THEN IndexAfterRemoval(IndexOf(a)) ELSE selected
      /\ editing' = editing /\ shown' = shown /\ Render
  BY DEF RenameRemote
<1>2. a \in Alias /\ SaveTyped(SaveOf("renamed", saves[s].new))
  BY <1>1, SaveFacts DEF SaveTyped, SaveOf, SaveRecord, Kinds
<1>. HIDE DEF a
<1>3. IF TabsWithout(a) = <<>> THEN selected' = 1 ELSE selected' \in DOMAIN TabsWithout(a)
  <2>1. CASE a \in TabSet
    <3>1. IndexOf(a) \in DOMAIN tabs
      BY <2>1, TabFacts
    <3>. QED
      BY <1>1, <2>1, <3>1, RemovalInRange DEF TabsWithout
  <2>2. CASE a \notin TabSet
    BY <1>1, <2>2 DEF TabsWithout, TabsInOrder, TabsTypeOK
  <2>. QED
    BY <2>1, <2>2
<1>4. InOrder(tabs', selected', known', client', status')
  BY <1>1, <1>2, <1>3, GoneTabInOrder DEF InOrder
<1>. QED
  BY <1>1, <1>2, <1>4, SavesFacts, SaveGoesOn, OrderIsKept DEF TabsInOrder

LEMMA DeleteRemoteKeepsOrder ==
    ASSUME TabsInOrder, NEW s \in DOMAIN saves, DeleteRemote(s) PROVE TabsInOrder'
<1>. DEFINE a     == saves[s].alias
            r     == TabsWithout(a)
            first == r[1]
            dropped  == [status EXCEPT ![a] = "disconnected"]
            connect == /\ r # <<>> /\ first # Local
                       /\ dropped[first] = "disconnected" /\ first \in known \ {a}
<1>1. /\ saves[s].kind = "delete" /\ Done(s) /\ tabs' = r /\ known' = known \ {a} /\ selected' = 1
      /\ editing' = editing /\ shown' = shown /\ Render
      /\ IF connect
         THEN /\ client' = ConnectTo(ForgetClient(a), first)
              /\ status' = StatusAfterConnect(dropped, ForgetClient(a), first)
         ELSE client' = ForgetClient(a) /\ status' = dropped
  BY DEF DeleteRemote
<1>2. a \in Alias
  BY <1>1, SaveFacts
<1>. HIDE DEF a
<1>3. /\ r \in Seq(Alias \cup {Local}) /\ (r # <<>> => 1 \in DOMAIN r)
      /\ ForgetClient(a) \in TabClients /\ dropped \in Shown /\ known \ {a} \subseteq Alias
      /\ Agree(Elements(r), known \ {a}, ForgetClient(a), dropped)
  BY <1>2, GoneTabInOrder
<1>. HIDE DEF r, dropped
<1>4. client' \in TabClients /\ status' \in Shown /\ Agree(Elements(r), known \ {a}, client', status')
  <2>1. CASE connect
    <3>1. first \in Elements(r) /\ first \in known \ {a} /\ first \in Alias
      BY <1>3, <2>1 DEF Elements
    <3>2. /\ client' = ConnectTo(ForgetClient(a), first)
          /\ status' = StatusAfterConnect(dropped, ForgetClient(a), first)
      BY <1>1, <2>1
    <3>. HIDE DEF first, connect
    <3>. QED
      BY <1>3, <3>1, <3>2, ConnectAgrees
  <2>2. CASE ~connect
    BY <1>1, <1>3, <2>2
  <2>. QED
    BY <2>1, <2>2
<1>5. InOrder(tabs', selected', known', client', status')
  BY <1>1, <1>3, <1>4 DEF InOrder
<1>. QED
  BY <1>1, <1>5, SavesFacts, SaveIsDone, OrderIsKept DEF TabsInOrder

LEMMA ClientStepKeepsOrder ==
    ASSUME TabsInOrder, NEW a \in Alias, ClientStep(a) PROVE TabsInOrder'
<1>1. PICK st \in ConnectionStatus :
        /\ client' = [client EXCEPT ![a] = st]
        /\ status' = IF a \in TabSet THEN [status EXCEPT ![a] = st] ELSE status
  BY DEF ClientStep
<1>2. /\ client[a] # "absent" /\ tabs' = tabs /\ selected' = selected /\ known' = known
      /\ editing' = editing /\ saves' = saves /\ shown' = shown /\ Render
  BY DEF ClientStep
<1>3. a \in TabSet /\ a \in known
  BY <1>2, TabFacts DEF Agree
<1>4. client' \in TabClients /\ status' \in Shown /\ Agree(TabSet, known, client', status')
  BY <1>1, <1>3, TabFacts DEF TabClients, Shown, Agree, ConnectionStatus
<1>5. InOrder(tabs', selected', known', client', status')
  BY <1>2, <1>4, OrderFacts, TabFacts DEF InOrder
<1>6. SavesTyped'
  BY <1>2, SavesFacts DEF SavesTyped
<1>. QED
  BY <1>2, <1>5, <1>6, SavesFacts, OrderIsKept DEF TabsInOrder

LEMMA FetchKeepsOrder ==
    ASSUME TabsInOrder, NEW f \in fetches, FetchState(f) \/ FetchTasks(f) PROVE TabsInOrder'
<1>1. UNCHANGED <<tabs, selected, known, status, client, editing, saves>>
  BY DEF FetchState, FetchTasks
<1>2. SelectedClient \in Alias \cup {NoAlias}
  BY DEF SelectedClient, ViewingRemote
<1>3. f.from \in Alias \cup {NoAlias} /\ [at |-> "tasks", from |-> NoAlias]
                                          \in [at : {"state", "tasks"}, from : Alias \cup {NoAlias}]
  BY DEF TabsInOrder, TabsTypeOK
<1>4. stale' \in BOOLEAN /\ deaf' \in BOOLEAN
  <2>1. /\ stale' = stale \/ stale' = (stale \/ SelectedTab # f.from)
           \/ stale' = (stale \/ SelectedClient = f.from)
        /\ deaf' = deaf \/ deaf' = TRUE
    BY DEF FetchState, FetchTasks
  <2>2. (stale \/ SelectedTab # f.from) \in BOOLEAN /\ (stale \/ SelectedClient = f.from) \in BOOLEAN
    BY Zenon
  <2>. QED
    BY <2>1, <2>2 DEF TabsInOrder, TabsTypeOK
<1>5. /\ shown' \in Alias \cup {NoAlias} /\ subscribed' \subseteq Alias
      /\ fetches' \subseteq [at : {"state", "tasks"}, from : Alias \cup {NoAlias}]
  BY <1>2, <1>3 DEF FetchState, FetchTasks, TabsInOrder, TabsTypeOK
<1>6. TabsTypeOK'
  BY <1>1, <1>4, <1>5 DEF TabsInOrder, TabsTypeOK
<1>7. TabsShowTheirClients'
  BY <1>1 DEF TabsInOrder, TabsShowTheirClients, TabSet
<1>. QED
  BY <1>6, <1>7 DEF TabsInOrder

LEMMA OrderIsInductive == ASSUME TabsInOrder, [TabsNext]_tabsVars PROVE TabsInOrder'
<1>1. CASE UNCHANGED tabsVars
  BY <1>1 DEF TabsInOrder, TabsTypeOK, TabsShowTheirClients, TabSet, tabsVars
<1>2. CASE TabsNext
  <2>1. CASE \E i \in DOMAIN tabs : SelectTab(i)
    BY <2>1, SelectTabKeepsOrder
  <2>2. CASE \E a \in Alias : SubmitAdd(a) \/ SubmitChange(a)
    BY <2>2, SubmitAddKeepsOrder, SubmitChangeKeepsOrder
  <2>3. CASE \E s \in DOMAIN saves :
               \/ SaveFails(s) \/ AddRemote(s) \/ AddSettles(s) \/ EditRemote(s)
               \/ RenameRemote(s) \/ AddRenamed(s) \/ DeleteRemote(s)
    BY <2>3, SaveFailsKeepsOrder, AddRemoteKeepsOrder, AddSettlesKeepsOrder, EditRemoteKeepsOrder,
       RenameRemoteKeepsOrder, AddRenamedKeepsOrder, DeleteRemoteKeepsOrder
  <2>4. CASE \E a \in Alias : ClientStep(a)
    BY <2>4, ClientStepKeepsOrder
  <2>5. CASE \E f \in fetches : FetchState(f) \/ FetchTasks(f)
    BY <2>5, FetchKeepsOrder
  <2>. QED
    BY <1>2, <2>1, <2>2, <2>3, <2>4, <2>5 DEF TabsNext
<1>. QED
  BY <1>1, <1>2

-----------------------------------------------------------------------------
(* While the effect is on, the selected tab is that of a connected client.    *)
LEMMA EffectFacts ==
    ASSUME TabsInOrder, EffectIsOn
    PROVE  /\ ViewingRemote /\ SelectedTab \in Alias /\ client[SelectedTab] = "connected"
           /\ SelectedClient = SelectedTab /\ SelectedTab # NoAlias
<1>1. ViewingRemote /\ StatusOfTab(selected) = "connected"
  BY DEF EffectIsOn, SelectedStatus
<1>2. SelectedTab \in Alias /\ SelectedTab # NoAlias /\ SelectedTab = tabs[selected]
  BY <1>1, InstanceManagerAssumption DEF ViewingRemote, SelectedTab
<1>3. status[SelectedTab] = "connected"
  BY <1>1, <1>2 DEF StatusOfTab
<1>4. client[SelectedTab] = "connected"
  BY <1>2, <1>3 DEF TabsInOrder, TabsShowTheirClients
<1>. QED
  BY <1>1, <1>2, <1>4 DEF SelectedClient

(* A step that renders keeps the selected tab's data asked for or on the screen. *)
LEMMA RenderKeepsLive ==
    ASSUME TabsInv, TabsInOrder', Render, shown' = shown PROVE LiveInv'
<1>1. SUFFICES ASSUME EffectIsOn'
               PROVE  \/ [at |-> "state", from |-> SelectedTab'] \in fetches'
                      \/ /\ shown' = SelectedTab' \/ stale'
                         /\ \/ [at |-> "tasks", from |-> NoAlias] \in fetches'
                            \/ SelectedTab' \in subscribed' \/ deaf'
  BY DEF LiveInv
<1>2. client'[SelectedTab'] = "connected" /\ SelectedClient' = SelectedTab'
  <2>1. ViewingRemote' /\ StatusOfTab(selected)' = "connected"
    BY <1>1 DEF EffectIsOn, SelectedStatus
  <2>2. SelectedTab' \in Alias /\ SelectedTab' = tabs'[selected']
    BY <2>1, InstanceManagerAssumption DEF ViewingRemote, SelectedTab
  <2>3. status'[SelectedTab'] = "connected"
    BY <2>1, <2>2 DEF StatusOfTab
  <2>4. client'[SelectedTab'] = "connected"
    BY <2>2, <2>3 DEF TabsInOrder, TabsShowTheirClients
  <2>. QED
    BY <2>1, <2>4 DEF SelectedClient
<1>3. CASE EffectKey' # EffectKey
  <2>1. fetches' = fetches \cup {[at |-> "state", from |-> SelectedClient']}
    BY <1>1, <1>3 DEF Render
  <2>. QED
    BY <1>2, <2>1
<1>4. CASE EffectKey' = EffectKey
  <2>1. /\ subscribed' = {a \in subscribed : client'[a] = "connected"}
        /\ stale' = (stale \/ (EffectIsOn /\ SelectedTab' # SelectedTab))
        /\ deaf' = (deaf \/ (EffectIsOn /\ SelectedTab' # SelectedTab))
        /\ fetches' = fetches
    BY <1>4 DEF Render
  <2>2. EffectIsOn
    BY <1>1, <1>4 DEF EffectKey, EffectIsOn
  <2>3. CASE SelectedTab' # SelectedTab
    BY <2>1, <2>2, <2>3
  <2>4. CASE SelectedTab' = SelectedTab
    BY <1>2, <2>1, <2>2, <2>4 DEF TabsInv, LiveInv
  <2>. QED
    BY <2>3, <2>4
<1>. QED
  BY <1>3, <1>4

(* An answer or its failure does so too. *)
LEMMA FetchKeepsLive ==
    ASSUME TabsInv, NEW f \in fetches, FetchState(f) \/ FetchTasks(f) PROVE LiveInv'
<1>. DEFINE c == SelectedTab
            asked == [at |-> "state", from |-> c]
            tasks == [at |-> "tasks", from |-> NoAlias]
<1>1. /\ SelectedTab' = c /\ EffectIsOn' = EffectIsOn
  BY DEF FetchState, FetchTasks, SelectedTab, EffectIsOn, SelectedStatus, ViewingRemote,
     StatusOfTab, IndexOf
<1>2. SUFFICES ASSUME EffectIsOn
               PROVE  \/ asked \in fetches'
                      \/ (shown' = c \/ stale') /\ (tasks \in fetches' \/ c \in subscribed' \/ deaf')
  BY <1>1 DEF LiveInv
<1>3. /\ SelectedClient = c /\ c # NoAlias
      /\ \/ asked \in fetches
         \/ (shown = c \/ stale) /\ (tasks \in fetches \/ c \in subscribed \/ deaf)
  BY <1>2, EffectFacts DEF TabsInv, LiveInv
<1>. HIDE DEF c
<1>4. CASE FetchState(f)
  <2>1. /\ fetches' = (fetches \ {f}) \cup {tasks}
        /\ \/ shown' = f.from /\ stale' = (stale \/ c # f.from)
           \/ shown' = shown /\ stale' = (stale \/ c = f.from)
    BY <1>3, <1>4 DEF FetchState, c
  <2>2. asked.from = c /\ tasks \in fetches'
    BY <2>1
  <2>3. asked \in fetches' \/ shown' = c \/ stale'
    BY <1>3, <2>1, <2>2
  <2>. QED
    BY <2>2, <2>3
<1>5. CASE FetchTasks(f)
  <2>1. /\ f.at = "tasks" /\ fetches' = fetches \ {f} /\ shown' = shown /\ stale' = stale
        /\ subscribed' = subscribed \cup ({c} \ {NoAlias}) \/ deaf' = TRUE
    BY <1>3, <1>5 DEF FetchTasks
  <2>2. f # asked
    BY <2>1
  <2>. QED
    BY <1>3, <2>1, <2>2
<1>. QED
  BY <1>4, <1>5

LEMMA TabsInvIsInductive == ASSUME TabsInv, [TabsNext]_tabsVars PROVE TabsInv'
<1>1. TabsInOrder'
  BY OrderIsInductive DEF TabsInv
<1>2. LiveInv'
  <2>1. CASE UNCHANGED tabsVars
    BY <2>1 DEF TabsInv, LiveInv, EffectIsOn, SelectedStatus, StatusOfTab, IndexOf, ViewingRemote,
                SelectedTab, tabsVars
  <2>2. CASE \E f \in fetches : FetchState(f) \/ FetchTasks(f)
    BY <2>2, FetchKeepsLive
  <2>3. CASE TabsNext /\ ~\E f \in fetches : FetchState(f) \/ FetchTasks(f)
    <3>1. Render /\ shown' = shown
      BY <2>3 DEF TabsNext, SelectTab, SubmitAdd, SubmitChange, Submit, SaveFails, AddRemote,
         AddSettles,
                  EditRemote, RenameRemote, AddRenamed, DeleteRemote, ClientStep
    <3>. QED
      BY <1>1, <3>1, RenderKeepsLive
  <2>. QED
    BY <2>1, <2>2, <2>3
<1>. QED
  BY <1>1, <1>2 DEF TabsInv

LEMMA TabsInvHolds == TabsSpec => []TabsInv
<1>1. TabsInit => TabsInv
  BY TabsStart
<1>2. TabsInv /\ [TabsNext]_tabsVars => TabsInv'
  BY TabsInvIsInductive
<1>. QED
  BY <1>1, <1>2, PTL DEF TabsSpec

(* Every remote with a client has a tab that shows its status, one without a     *)
(* client shows disconnected, and the selection is in range: whatever the user    *)
(* adds, edits, renames and deletes, however many of these saves are under way    *)
(* or fail, and while connects are (instance-manager.ts and RunApp.tsx).          *)
THEOREM TabsStayInOrder == TabsSpec => []TabsInOrder
<1>1. TabsInv => TabsInOrder
  BY DEF TabsInv
<1>. QED
  BY <1>1, TabsInvHolds, PTL

(* Once the fetches are done, a selected tab that shows connected has its own     *)
(* data on the screen and its events, unless a request failed, a late answer      *)
(* came after it or the tab changed unnoticed (the effect of RunApp.tsx).         *)
THEOREM TheSelectedTabIsLive == TabsSpec => []SelectedTabIsLive
<1>1. TabsInv => SelectedTabIsLive
  BY DEF TabsInv, LiveInv, SelectedTabIsLive
<1>. QED
  BY <1>1, TabsInvHolds, PTL

(* Adding and renaming remotes leaves the selection on its tab, unless that is    *)
(* the one renamed (removeTab and addRemote of instance-manager.ts).              *)
THEOREM SelectionStaysOnItsTab == TabsSpec => SelectionFollowsItsTab
<1>. DEFINE kept == \A s \in DOMAIN saves :
                      (tabs' # tabs /\ saves'[s] # saves[s] /\ saves[s].kind # "delete"
                       /\ SelectedTab # NoAlias /\ ~RemovesSelected(s))
                      => SelectedTab' = SelectedTab
<1>1. ASSUME TabsInv, TabsNext, tabs' # tabs, NEW s \in DOMAIN saves, saves'[s] # saves[s],
             saves[s].kind # "delete", SelectedTab # NoAlias, ~RemovesSelected(s)
      PROVE  SelectedTab' = SelectedTab
  <2>1. TabsInOrder /\ selected \in DOMAIN tabs /\ SelectedTab = tabs[selected]
    BY <1>1 DEF TabsInv, SelectedTab
  <2>2. ASSUME NEW a \in Alias, AddAndConnect(a) PROVE SelectedTab' = SelectedTab
    <3>1. selected \in DOMAIN Append(tabs, a) /\ Append(tabs, a)[selected] = tabs[selected]
      BY <2>1, TabFacts, AppendedTab
    <3>. QED
      BY <2>1, <2>2, <3>1 DEF SelectedTab, AddAndConnect
  <2>3. ASSUME NEW t \in DOMAIN saves, AddRemote(t) \/ AddRenamed(t) PROVE SelectedTab' = SelectedTab
    <3>1. saves[t].alias \in Alias
      BY <2>1, <2>3, SaveFacts DEF AddRemote, AddRenamed
    <3>. QED
      BY <2>2, <2>3, <3>1 DEF AddRemote, AddRenamed
  <2>4. ASSUME NEW t \in DOMAIN saves, NEW save, saves' = [saves EXCEPT ![t] = save] PROVE t = s
    BY <1>1, <2>4
  <2>5. ASSUME NEW t \in DOMAIN saves, RenameRemote(t) PROVE SelectedTab' = SelectedTab
    <3>. DEFINE a == saves[s].alias
                k == IndexOf(a)
    <3>1. t = s
      BY <2>4, <2>5 DEF RenameRemote
    <3>2. /\ saves[s].kind = "rename" /\ tabs' = TabsWithout(a)
          /\ selected' = IF a \in TabSet THEN IndexAfterRemoval(k) ELSE selected
      BY <2>5, <3>1 DEF RenameRemote
    <3>3. a \in TabSet /\ k \in DOMAIN tabs /\ tabs' = Without(tabs, k) /\ selected' = IndexAfterRemoval(k)
      BY <1>1, <2>1, <3>2, TabFacts DEF TabsWithout
    <3>4. selected # k
      BY <1>1, <3>2 DEF RemovesSelected
    <3>. HIDE DEF a, k
    <3>5. /\ IndexAfterRemoval(k) \in DOMAIN Without(tabs, k)
          /\ Without(tabs, k)[IndexAfterRemoval(k)] = tabs[selected]
      BY <2>1, <3>3, <3>4, RemovalInRange
    <3>. QED
      BY <2>1, <3>3, <3>5 DEF SelectedTab
  <2>6. ASSUME NEW t \in DOMAIN saves, DeleteRemote(t) PROVE FALSE
    <3>1. t = s
      BY <2>4, <2>6 DEF DeleteRemote, Done
    <3>. QED
      BY <1>1, <2>6, <3>1 DEF DeleteRemote
  <2>. QED
    BY <1>1, <2>3, <2>5, <2>6
       DEF TabsNext, SelectTab, SubmitAdd, SubmitChange, Submit, SaveFails, AddSettles, EditRemote,
           ClientStep, FetchState, FetchTasks
<1>2. TabsInv /\ [TabsNext]_tabsVars => [kept]_tabsVars
  BY <1>1
<1>. QED
  BY <1>2, TabsInvHolds, PTL DEF TabsSpec, SelectionFollowsItsTab
=============================================================================
