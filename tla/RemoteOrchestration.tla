------------------------ MODULE RemoteOrchestration ------------------------
(* The parallel orchestration a remote client starts on a server: the        *)
(* orchestrate:* handlers and the close handler of src/remote/server.ts.     *)
(* Each handler runs to its next await; several are under way at once.  The  *)
(* execution itself is ParallelExecutor's; here it starts, may be paused and *)
(* ends.  A client is one connection: one that returns is another client.    *)
CONSTANTS
    Client,         \* authenticated connections
    Orchestration,  \* orchestration ids
    NoOne, NoId

ASSUME RemoteOrchestrationAssumption ==
    /\ NoId \notin Orchestration
    /\ NoOne \notin Client

VARIABLES
    clients,    \* connections in the server's clients map
    gone,       \* connections whose close event has come
    starting,   \* orchestrationStarting, the guard of a start
    session,    \* orchestrationSession: [id, owner, status]
    executor,   \* per id: the ParallelExecutor and whether the server listens to it
    starts,     \* per client: the await its orchestrate:start is at
    stops,      \* per client: the id whose executor.stop() its handlers await
    overlapped, \* two handlers have awaited a stop at the same time
    guardLost,  \* a failed audit log has cleared the guard of another start
    orphaned,   \* ids whose session a start replaced, or a stop of another dropped
    leftEarly   \* clients whose close came while their start was under way

vars == <<clients, gone, starting, session, executor, starts, stops, overlapped,
          guardLost, orphaned, leftEarly>>

NoSession == [id |-> NoId, owner |-> NoOne, status |-> "none"]
NotMade   == [state |-> "none", owner |-> NoOne, stop |-> FALSE, paused |-> FALSE, heard |-> FALSE]
NoStart   == [at |-> "none", id |-> NoId]
NoStop    == [request |-> NoId, close |-> NoId]

TypeOK ==
    /\ clients \subseteq Client /\ gone \subseteq Client
    /\ starting \in BOOLEAN
    /\ session \in [id : Orchestration \cup {NoId}, owner : Client \cup {NoOne},
                    status : {"none", "running", "paused", "completed", "failed"}]
    /\ session.id = NoId <=> session = NoSession
    /\ executor \in [Orchestration ->
            [state : {"none", "made", "running", "ended"}, owner : Client \cup {NoOne},
             stop : BOOLEAN, paused : BOOLEAN, heard : BOOLEAN]]
    /\ starts \in [Client -> [at : {"none", "preparing", "logging"},
                              id : Orchestration \cup {NoId}]]
    /\ stops \in [Client -> [request : Orchestration \cup {NoId},
                             close : Orchestration \cup {NoId}]]
    /\ overlapped \in BOOLEAN /\ guardLost \in BOOLEAN
    /\ orphaned \subseteq Orchestration
    /\ leftEarly \subseteq Client

Init ==
    /\ clients = Client /\ gone = {}
    /\ starting = FALSE
    /\ session = NoSession
    /\ executor = [i \in Orchestration |-> NotMade]
    /\ starts = [c \in Client |-> NoStart]
    /\ stops = [c \in Client |-> NoStop]
    /\ overlapped = FALSE /\ guardLost = FALSE
    /\ orphaned = {} /\ leftEarly = {}

ghosts == <<overlapped, guardLost, orphaned, leftEarly>>

\* A message of c is taken while its connection is open.
Heard(c) == c \in clients /\ c \notin gone

-----------------------------------------------------------------------------
(* handleOrchestrateStart.                                                   *)

MayStart == session = NoSession /\ ~starting

\* The guard is taken before the first await; another start is refused while it
\* is held or a session exists.
StartRequested(c) ==
    /\ Heard(c) /\ starts[c] = NoStart
    /\ MayStart
    /\ starting' = TRUE
    /\ starts' = [starts EXCEPT ![c].at = "preparing"]
    /\ UNCHANGED <<clients, gone, session, executor, stops, ghosts>>

KeepGuard    == starting
ReleaseGuard == FALSE

\* No tasks, unsuitable ones, too few workers, or an exception while preparing.
StartFails(c) ==
    /\ starts[c].at = "preparing"
    /\ starting' = ReleaseGuard
    /\ starts' = [starts EXCEPT ![c] = NoStart]
    /\ UNCHANGED <<clients, gone, session, executor, stops, ghosts>>

\* A fresh id; any that was not used.
NextId == CHOOSE i \in Orchestration : executor[i] = NotMade

\* The executor, the session and the answer, whether or not the client is still there.
StartSucceeds(c) ==
    /\ starts[c].at = "preparing"
    /\ \E i \in Orchestration : executor[i] = NotMade
    /\ executor' = [executor EXCEPT ![NextId] =
                        [NotMade EXCEPT !.state = "made", !.owner = c, !.heard = TRUE]]
    /\ session' = [id |-> NextId, owner |-> c, status |-> "running"]
    /\ starting' = ReleaseGuard
    /\ starts' = [starts EXCEPT ![c] = [at |-> "logging", id |-> NextId]]
    /\ orphaned' = orphaned \cup ({session.id} \ {NoId})
    /\ UNCHANGED <<clients, gone, stops, overlapped, guardLost, leftEarly>>

\* After the audit log: execute(), even of an executor stopped in the meantime,
\* which then ends at its first test of shouldStop.
Executes(c) ==
    /\ starts[c].at = "logging"
    /\ executor' = [executor EXCEPT ![starts[c].id].state = "running"]
    /\ starts' = [starts EXCEPT ![c] = NoStart]
    /\ UNCHANGED <<clients, gone, starting, session, stops, ghosts>>

\* The log cannot be written: the catch block releases the guard, whoever holds it
\* by now, and answers with a failure; the session stays, and nothing is executed.
LogFails(c) ==
    /\ starts[c].at = "logging"
    /\ starting' = ReleaseGuard
    /\ guardLost' = (guardLost \/ starting)
    /\ starts' = [starts EXCEPT ![c] = NoStart]
    /\ UNCHANGED <<clients, gone, session, executor, stops, overlapped, orphaned, leftEarly>>

\* execute() ends with an event, or with none where it finds nothing to run; the
\* listener writes the status of whatever session there is.
ExecutionEnds(i) ==
    /\ executor[i].state = "running"
    /\ executor[i].paused => executor[i].stop
    /\ executor' = [executor EXCEPT ![i].state = "ended"]
    /\ \/ UNCHANGED session
       \/ /\ executor[i].heard /\ session # NoSession
          /\ \E status \in {"completed", "failed"} : session' = [session EXCEPT !.status = status]
    /\ UNCHANGED <<clients, gone, starting, starts, stops, ghosts>>

-----------------------------------------------------------------------------
(* Control by any authenticated client that names the session.               *)

Pause(c) ==
    /\ Heard(c) /\ session # NoSession
    /\ executor' = [executor EXCEPT ![session.id].paused = @ \/ executor[session.id].state # "ended"]
    /\ session' = [session EXCEPT !.status = "paused"]
    /\ UNCHANGED <<clients, gone, starting, starts, stops, ghosts>>

Resume(c) ==
    /\ Heard(c) /\ session # NoSession
    /\ executor' = [executor EXCEPT ![session.id].paused = FALSE]
    /\ session' = [session EXCEPT !.status = "running"]
    /\ UNCHANGED <<clients, gone, starting, starts, stops, ghosts>>

LeaveExecutor(i) == executor

\* executor.stop(), up to its await of the workers' engines.
StopExecutor(i) == [executor EXCEPT ![i].stop = TRUE, ![i].paused = FALSE]

AwaitsStop(c) == stops[c].request # NoId \/ stops[c].close # NoId
StopsAwaited  == {c \in Client : AwaitsStop(c)}

StopRequested(c) ==
    /\ Heard(c) /\ session # NoSession /\ stops[c].request = NoId
    /\ executor' = StopExecutor(session.id)
    /\ stops' = [stops EXCEPT ![c].request = session.id]
    /\ overlapped' = (overlapped \/ StopsAwaited # {})
    /\ UNCHANGED <<clients, gone, starting, session, starts, guardLost, orphaned, leftEarly>>

\* After the await of the stop of id: the session there is now loses its listener and
\* is dropped.  If another handler has dropped it, the access throws.
DropSession(id) ==
    /\ executor' = IF session = NoSession THEN executor
                   ELSE [executor EXCEPT ![session.id].heard = FALSE]
    /\ session' = NoSession
    /\ orphaned' = orphaned \cup ({session.id} \ {id, NoId})

StopSettles(c) ==
    /\ stops[c].request # NoId
    /\ DropSession(stops[c].request)
    /\ stops' = [stops EXCEPT ![c].request = NoId]
    /\ UNCHANGED <<clients, gone, starting, starts, overlapped, guardLost, leftEarly>>

-----------------------------------------------------------------------------
(* The close handler.                                                        *)

OwnsNothing(c) == FALSE
OwnsSession(c) == session.owner = c

\* The connection of c closes: its orchestration is stopped first.
Close(c) ==
    /\ c \notin gone
    /\ gone' = gone \cup {c}
    /\ leftEarly' = IF starts[c].at = "preparing" THEN leftEarly \cup {c} ELSE leftEarly
    /\ IF OwnsSession(c)
       THEN /\ executor' = StopExecutor(session.id)
            /\ stops' = [stops EXCEPT ![c].close = session.id]
            /\ overlapped' = (overlapped \/ StopsAwaited # {})
            /\ UNCHANGED clients
       ELSE /\ clients' = clients \ {c}
            /\ UNCHANGED <<executor, stops, overlapped>>
    /\ UNCHANGED <<starting, session, starts, guardLost, orphaned>>

\* Where the session is already dropped the handler throws and c stays in clients.
CloseSettles(c) ==
    /\ stops[c].close # NoId
    /\ clients' = IF session = NoSession THEN clients ELSE clients \ {c}
    /\ DropSession(stops[c].close)
    /\ stops' = [stops EXCEPT ![c].close = NoId]
    /\ UNCHANGED <<gone, starting, starts, overlapped, guardLost, leftEarly>>

-----------------------------------------------------------------------------
Next ==
    \/ \E c \in Client :
        \/ StartRequested(c) \/ StartFails(c) \/ StartSucceeds(c)
        \/ Executes(c) \/ LogFails(c)
        \/ Pause(c) \/ Resume(c) \/ StopRequested(c) \/ StopSettles(c)
        \/ Close(c) \/ CloseSettles(c)
    \/ \E i \in Orchestration : ExecutionEnds(i)

Spec == Init /\ [][Next]_vars

\* A handler that awaits goes on, and an execution that is not paused ends;
\* messages and closes need not come.
Fairness ==
    /\ \A c \in Client : /\ WF_vars(StartFails(c) \/ StartSucceeds(c))
                         /\ WF_vars(Executes(c) \/ LogFails(c))
                         /\ WF_vars(StopSettles(c)) /\ WF_vars(CloseSettles(c))
    /\ \A i \in Orchestration : WF_vars(ExecutionEnds(i))

FairSpec == Spec /\ Fairness

-----------------------------------------------------------------------------
(* Properties.                                                               *)

\* The guard is never left behind: whoever finds it taken finds a start being
\* prepared.  It belongs to that start alone, and two starts never prepare at once,
\* save after a start whose log failed has cleared another's guard (see README).
GuardBelongsToOneStart ==
    /\ starting => \E c \in Client : starts[c].at = "preparing"
    /\ guardLost \/ \A c, d \in Client :
          starts[c].at = "preparing" => starting /\ (starts[d].at = "preparing" => c = d)

\* No session appears beside a start that is still being prepared, which would
\* replace it.
NoSessionWhileStarting == guardLost \/ (starting => session = NoSession)

\* One start at a time, and none beside a session.
StartsAreExclusive == TypeOK /\ GuardBelongsToOneStart /\ NoSessionWhileStarting

\* An execution goes on that nobody has stopped only while it is the session's, or
\* its session was taken from it.
OneExecution ==
    \A i \in Orchestration :
        executor[i].state \in {"made", "running"} /\ ~executor[i].stop
        => session.id = i \/ i \in orphaned

\* Reading orchestrationSession again after the await of a stop, or storing it after
\* the awaits of a start, takes the session of another execution only where two
\* handlers awaited a stop at once, or a failed log cleared the guard.
SessionsAreTakenByOverlap == orphaned # {} => overlapped \/ guardLost

\* A session that reports an end belongs to an execution that has ended.
ReportedEndIsReal ==
    guardLost \/
    (session.status \in {"completed", "failed"} => executor[session.id].state = "ended")

\* The session stands for the one execution there is, also in what it reports.
SessionIsItsExecution == OneExecution /\ SessionsAreTakenByOverlap /\ ReportedEndIsReal

\* An execution is over, or was made and will not be executed.
Over(i) ==
    \/ executor[i].state = "ended"
    \/ executor[i].state = "made" /\ \A c \in Client : starts[c].id # i

\* An orchestration does not outlive the connection that started it: "Actual
\* cleanup happens in the close() handler when the originating client
\* disconnects" (src/remote/server.ts:1592).  As long as the client did not leave
\* during its own start, and nobody took the session from the execution.
EndsWithItsClient ==
    \A c \in Client : \A i \in Orchestration :
        (c \in gone /\ executor[i].owner = c)
        ~> (Over(i) /\ session.owner # c) \/ c \in leftEarly \/ i \in orphaned
=============================================================================
