------------------------- MODULE SessionPersistence -------------------------
(***************************************************************************)
(* The saved session of one directory, .ralph-tui/session.json: how `run`   *)
(* and `resume` create, update, recover and delete it, against the tracker, *)
(* the lock and the engine whose events it follows                          *)
(* (src/session/persistence.ts and atomic-write.ts, commands/run.tsx,       *)
(* commands/resume.tsx, commands/headless-events.ts).                       *)
(*                                                                         *)
(* A process runs one command. A save an event starts is not awaited: it is *)
(* in `pending` until its rename, in any order with the others. The lock is *)
(* taken in one step here; its own races are in SessionLock. An engine is   *)
(* reduced to what the session hears of it; the whole of it is in           *)
(* ExecutionEngine.                                                         *)
(***************************************************************************)
EXTENDS Naturals, FiniteSets, Sequences, SequencesExt

CONSTANTS
    Proc,          \* processes, each started at most once
    Kinds,         \* the commands they may be: see Commands
    Task,          \* tasks of the tracker
    NoTask,        \* no task in hand
    NoProc,        \* the lock is free
    MayCrash,      \* those that may be killed
    MaxIterations, \* iterations of an engine
    ResetsMayFail, \* the tracker may refuse to set a task back to open, or throw
    MaxPending     \* saves of a process that are under way at once

(* `ralph-tui run` and `ralph-tui resume`, with the TUI or --headless. *)
Commands == {"run", "runHeadless", "resume", "resumeHeadless"}

ASSUME PersistenceAssumption ==
    /\ Kinds \subseteq Commands
    /\ IsFiniteSet(Task)
    /\ NoTask \notin Task /\ NoProc \notin Proc
    /\ Proc \cap {"open", "completed"} = {}
    /\ MayCrash \subseteq Proc
    /\ ResetsMayFail \in BOOLEAN
    /\ MaxIterations \in Nat /\ MaxPending \in Nat \ {0}

VARIABLES
    tracker,   \* "open", "completed", or the process that set it in_progress
    file,      \* session.json
    lock,      \* the process whose pid is in the lock file
    pc,        \* where each process is in its command
    kind,      \* its command
    mem,       \* its currentState (a resume: the state it loaded first)
    found,     \* the state its recovery loaded, until another session begins
    todo,      \* tasks it still has to set back to open
    reset,     \* of its quit: resetCount > 0, and the tasks that stayed as they were
    engine,    \* its engine
    pending,   \* its saves that are under way, oldest first
    exposed,   \* tasks that a process left completed but saved as active
    disturbed  \* saves overtook one another, or commands each other

vars == <<tracker, file, lock, pc, kind, mem, found, todo, reset, engine, pending,
          exposed, disturbed>>

-----------------------------------------------------------------------------
(* The persisted state, reduced to its status, the tasks of the session that *)
(* are in progress and those it completed.                                  *)

State == [status : {"none", "running", "paused", "interrupted", "completed", "failed"},
          active : SUBSET Task, done : SUBSET Task]

NoSession == [status |-> "none", active |-> {}, done |-> {}]

NewSession == [status |-> "running", active |-> {}, done |-> {}]

IsSessionResumable(s) == s.status \in {"paused", "running", "interrupted"}

(* As a bug: only the first active task is kept. *)
AddActiveOnce(s, t) == IF s.active # {} THEN s ELSE [s EXCEPT !.active = {t}]

AddActive(s, t) == [s EXCEPT !.active = @ \cup {t}]

(* As a bug: a completed task stays in activeTaskIds. *)
KeepActive(s, t) == s

RemoveActive(s, t) == [s EXCEPT !.active = @ \ {t}]
ClearActive(s) == [s EXCEPT !.active = {}]
WithStatus(s, status) == [s EXCEPT !.status = status]
AfterIteration(s, t) == [RemoveActive(s, t) EXCEPT !.done = @ \cup {t}]

-----------------------------------------------------------------------------

Phases == {"stopped", "idle", "activated", "agent", "completed", "reported", "paused"}

Engine == [phase : Phases, cur : Task \cup {NoTask}, iteration : 0..MaxIterations,
           tasksCompleted : 0..MaxIterations, totalTasks : 0..Cardinality(Task)]

Setup == {"load", "checkSession", "detect", "probe", "reset", "prompt", "delete",
          "acquire", "save"}
Shutdown == {"stopping", "resetActive", "saveQuit", "dispose"}
Ending == {"final", "saveCompleted", "deleteCompleted", "saveEnd", "release"}
PcValues == {"idle", "session", "drain", "exited"} \cup Setup \cup Shutdown \cup Ending

(* What resetTasksToOpen has done so far: some task counts as reset; `failed` *)
(* is not in the code, which does not know which tasks did not change.       *)
Resets == [counted : BOOLEAN, failed : SUBSET Task]

NothingReset == [counted |-> FALSE, failed |-> {}]

TypeOK ==
    /\ tracker \in [Task -> {"open", "completed"} \cup Proc]
    /\ file \in State
    /\ lock \in Proc \cup {NoProc}
    /\ pc \in [Proc -> PcValues]
    /\ kind \in [Proc -> Commands \cup {"none"}]
    /\ mem \in [Proc -> State] /\ found \in [Proc -> State]
    /\ todo \in [Proc -> SUBSET Task]
    /\ reset \in [Proc -> Resets]
    /\ engine \in [Proc -> Engine]
    /\ \A p \in Proc : pending[p] \in Seq(State) /\ Len(pending[p]) <= MaxPending
    /\ exposed \subseteq Task
    /\ disturbed \in BOOLEAN

NoEngine == [phase |-> "stopped", cur |-> NoTask, iteration |-> 0,
             tasksCompleted |-> 0, totalTasks |-> 0]

Init ==
    /\ tracker = [t \in Task |-> "open"]
    /\ file = NoSession
    /\ lock = NoProc
    /\ pc = [p \in Proc |-> "idle"]
    /\ kind = [p \in Proc |-> "none"]
    /\ mem = [p \in Proc |-> NoSession]
    /\ found = [p \in Proc |-> NoSession]
    /\ todo = [p \in Proc |-> {}]
    /\ reset = [p \in Proc |-> NothingReset]
    /\ engine = [p \in Proc |-> NoEngine]
    /\ pending = [p \in Proc |-> <<>>]
    /\ exposed = {}
    /\ disturbed = FALSE

Resumes(p) == kind[p] \in {"resume", "resumeHeadless"}

Alive(p) == pc[p] \notin {"idle", "exited"}

(* A session is under way: from the first save to the end of the command. *)
InSession(p) == pc[p] \in {"session"} \cup Shutdown \cup Ending

(* ... or over, but for saves that are still to come. *)
Busy(p) == InSession(p) \/ pending[p] # <<>>

OthersBusy(p) == \E q \in Proc \ {p} : Busy(q)

(* checkLock: a lock whose process is gone is as good as none. *)
LockHeld == lock # NoProc /\ Alive(lock)

(* process.exit and kill drop the saves that are under way. *)
Exit(p) ==
    /\ pc' = [pc EXCEPT ![p] = "exited"]
    /\ kind' = [kind EXCEPT ![p] = "none"]
    /\ mem' = [mem EXCEPT ![p] = NoSession]
    /\ found' = [found EXCEPT ![p] = NoSession]
    /\ todo' = [todo EXCEPT ![p] = {}]
    /\ reset' = [reset EXCEPT ![p] = NothingReset]
    /\ engine' = [engine EXCEPT ![p] = NoEngine]
    /\ pending' = [pending EXCEPT ![p] = <<>>]

Goto(p, label) == pc' = [pc EXCEPT ![p] = label]

(* A write of the session file that the process awaits. Saves that are not    *)
(* there yet will come after it; and whoever is in a session now has its file *)
(* changed by somebody else.                                                 *)
Write(p, s) ==
    /\ file' = s
    /\ disturbed' = (disturbed \/ pending[p] # <<>> \/ OthersBusy(p))

(* savePersistedSession(currentState).catch(...) in a listener. *)
SaveLater(p, s) ==
    /\ Len(pending[p]) < MaxPending
    /\ mem' = [mem EXCEPT ![p] = s]
    /\ pending' = [pending EXCEPT ![p] = Append(@, s)]

(* The temporary file has its own name; the last rename wins. *)
SaveLands(p) ==
    \E i \in 1..Len(pending[p]) :
        /\ Alive(p)
        /\ file' = pending[p][i]
        /\ pending' = [pending EXCEPT ![p] = RemoveAt(@, i)]
        /\ disturbed' = (disturbed \/ i > 1 \/ OthersBusy(p))
        /\ UNCHANGED <<tracker, lock, pc, kind, mem, found, todo, reset, engine, exposed>>

-----------------------------------------------------------------------------
(* Starting: resume loads the session before anything else.                 *)

StartCommand(p, k) ==
    /\ pc[p] = "idle"
    /\ kind' = [kind EXCEPT ![p] = k]
    /\ Goto(p, IF k \in {"resume", "resumeHeadless"} THEN "load" ELSE "detect")
    /\ UNCHANGED <<tracker, file, lock, mem, found, todo, reset, engine, pending,
                   exposed, disturbed>>

Refuse(p) ==
    /\ Exit(p)
    /\ UNCHANGED <<tracker, file, lock, exposed, disturbed>>

Proceed(p, label) ==
    /\ Goto(p, label)
    /\ UNCHANGED <<tracker, file, lock, kind, mem, found, todo, reset, engine, pending,
                   exposed, disturbed>>

LoadSession(p) ==
    /\ pc[p] = "load"
    /\ \/ ~IsSessionResumable(file) /\ Refuse(p)
       \/ /\ IsSessionResumable(file)
          /\ mem' = [mem EXCEPT ![p] = file]
          /\ Goto(p, "checkSession")
          /\ UNCHANGED <<tracker, file, lock, kind, found, todo, reset, engine, pending,
                         exposed, disturbed>>

CheckSession(p) ==
    /\ pc[p] = "checkSession"
    /\ IF LockHeld THEN Refuse(p) ELSE Proceed(p, "detect")

AfterRecovery(p) == IF Resumes(p) THEN "acquire" ELSE "prompt"

(* detectAndRecoverStaleSession: the session is read, *)
DetectStale(p) ==
    /\ pc[p] = "detect"
    /\ \/ file.status # "running" /\ Proceed(p, AfterRecovery(p))
       \/ /\ file.status = "running"
          /\ found' = [found EXCEPT ![p] = file]
          /\ Goto(p, "probe")
          /\ UNCHANGED <<tracker, file, lock, kind, mem, todo, reset, engine, pending,
                         exposed, disturbed>>

(* then the lock, *)
ProbeLock(p) ==
    /\ pc[p] = "probe"
    /\ \/ /\ LockHeld
          /\ found' = [found EXCEPT ![p] = NoSession]
          /\ Goto(p, AfterRecovery(p))
          /\ UNCHANGED <<tracker, file, lock, kind, mem, todo, reset, engine, pending,
                         exposed, disturbed>>
       \/ /\ ~LockHeld
          /\ todo' = [todo EXCEPT ![p] = found[p].active]
          /\ Goto(p, "reset")
          /\ UNCHANGED <<tracker, file, lock, kind, mem, found, reset, engine, pending,
                         exposed, disturbed>>

(* and its active tasks go back to open one by one, whatever they are by    *)
(* then: updateTaskStatus(taskId, 'open'). A failure is swallowed.          *)
RecoverTask(p, t) ==
    /\ pc[p] = "reset"
    /\ t \in todo[p]
    /\ \/ tracker' = [tracker EXCEPT ![t] = "open"]
       \/ ResetsMayFail /\ UNCHANGED tracker
    /\ todo' = [todo EXCEPT ![p] = @ \ {t}]
    /\ disturbed' = (disturbed \/ file # found[p] \/ OthersBusy(p))
    /\ UNCHANGED <<file, lock, pc, kind, mem, found, reset, engine, pending, exposed>>

Recovered(s) == WithStatus(ClearActive(s), "interrupted")

SaveRecovered(p) ==
    /\ pc[p] = "reset" /\ todo[p] = {}
    /\ file' = Recovered(found[p])
    /\ disturbed' = (disturbed \/ file # found[p] \/ OthersBusy(p))
    /\ Goto(p, AfterRecovery(p))
    /\ UNCHANGED <<tracker, lock, kind, mem, found, todo, reset, engine, pending, exposed>>

(* run: promptResumeOrNew starts afresh, unless somebody holds the lock. *)
PromptResumeOrNew(p) ==
    /\ pc[p] = "prompt"
    /\ \/ file = NoSession /\ Proceed(p, "acquire")
       \/ file # NoSession /\ LockHeld /\ Refuse(p)
       \/ file # NoSession /\ ~LockHeld /\ Proceed(p, "delete")

DeleteOldSession(p) ==
    /\ pc[p] = "delete"
    /\ Write(p, NoSession)
    /\ Goto(p, "acquire")
    /\ UNCHANGED <<tracker, lock, kind, mem, found, todo, reset, engine, pending, exposed>>

(* Two sessions at once, once a lock was lost, are the subject of            *)
(* SessionLock; here the second is not begun before the first is over.       *)
AcquireLock(p) ==
    /\ pc[p] = "acquire"
    /\ \/ LockHeld /\ Refuse(p)
       \/ /\ ~LockHeld
          /\ \A q \in Proc : ~InSession(q)
          /\ lock' = p
          /\ Goto(p, "save")
          /\ UNCHANGED <<tracker, file, kind, mem, found, todo, reset, engine, pending,
                         exposed, disturbed>>

Unfinished == {t \in Task : tracker[t] # "completed"}

(* A resume goes on from the state it loaded before the recovery; a run from *)
(* a new one. The stale task check of run.tsx that follows does nothing: the *)
(* lock is the process's own, which is running.                             *)
FirstState(p) == IF Resumes(p) THEN WithStatus(mem[p], "running") ELSE NewSession

(* Somebody else used the session since the resume loaded it. *)
Outdated(p) ==
    /\ Resumes(p)
    /\ file # mem[p]
    /\ ~(found[p] = mem[p] /\ file = Recovered(mem[p]))

SaveFirst(p) ==
    /\ pc[p] = "save"
    /\ file' = FirstState(p)
    /\ mem' = [mem EXCEPT ![p] = FirstState(p)]
    /\ engine' = [engine EXCEPT ![p] =
                    [NoEngine EXCEPT !.phase = "idle",
                                     !.totalTasks = Cardinality(Unfinished)]]
    /\ disturbed' = (disturbed \/ Outdated(p) \/ OthersBusy(p))
    /\ found' = [q \in Proc |-> IF q = p \/ pc[q] = "acquire"
                                 THEN NoSession ELSE found[q]]
    /\ Goto(p, "session")
    /\ UNCHANGED <<tracker, lock, kind, todo, reset, pending, exposed>>

-----------------------------------------------------------------------------
(* The engine, and the listener that keeps the state and saves it.          *)

EngineRuns(p) == pc[p] \in {"session"} \cup Shutdown /\ engine[p].phase # "stopped"

(* engine.stop() was called: no further iteration is begun. *)
ShouldStop(p) == pc[p] \in {"stopping", "dispose"}

At(p, phase) == EngineRuns(p) /\ engine[p].phase = phase

To(p, phase) == engine' = [engine EXCEPT ![p].phase = phase]

(* The next task is taken and set to in_progress. *)
SetInProgress(p, t) ==
    /\ At(p, "idle") /\ ~ShouldStop(p)
    /\ engine[p].iteration < MaxIterations
    /\ t \in Unfinished
    /\ tracker' = [tracker EXCEPT ![t] = p]
    /\ engine' = [engine EXCEPT ![p].phase = "activated", ![p].cur = t,
                                ![p].iteration = @ + 1]
    /\ UNCHANGED <<file, lock, pc, kind, mem, found, todo, reset, pending, exposed, disturbed>>

(* As a bug: the state is updated and saved by the next event only. *)
NoteTaskActivated(p) ==
    /\ At(p, "activated")
    /\ mem' = [mem EXCEPT ![p] = AddActive(@, engine[p].cur)]
    /\ To(p, "agent")
    /\ UNCHANGED <<tracker, file, lock, pc, kind, found, todo, reset, pending,
                   exposed, disturbed>>

OnTaskActivated(p) ==
    /\ At(p, "activated")
    /\ SaveLater(p, AddActive(mem[p], engine[p].cur))
    /\ To(p, "agent")
    /\ UNCHANGED <<tracker, file, lock, pc, kind, found, todo, reset, exposed, disturbed>>

(* The agent said COMPLETE: completeTask. *)
CompleteTask(p) ==
    /\ At(p, "agent")
    /\ tracker' = [tracker EXCEPT ![engine[p].cur] = "completed"]
    /\ To(p, "completed")
    /\ UNCHANGED <<file, lock, pc, kind, mem, found, todo, reset, pending, exposed, disturbed>>

(* As a bug: the state is updated and not saved before the iteration's end. *)
NoteTaskCompleted(p) ==
    /\ At(p, "completed")
    /\ mem' = [mem EXCEPT ![p] = RemoveActive(@, engine[p].cur)]
    /\ To(p, "reported")
    /\ UNCHANGED <<tracker, file, lock, pc, kind, found, todo, reset, pending, exposed,
                   disturbed>>

OnTaskCompleted(p) ==
    /\ At(p, "completed")
    /\ SaveLater(p, RemoveActive(mem[p], engine[p].cur))
    /\ To(p, "reported")
    /\ UNCHANGED <<tracker, file, lock, pc, kind, found, todo, reset, exposed, disturbed>>

(* refreshTasks, by which totalTasks becomes the number of the unfinished    *)
(* ones, and the end of the iteration.                                      *)
OnIterationCompleted(p) ==
    /\ At(p, "reported")
    /\ SaveLater(p, AfterIteration(mem[p], engine[p].cur))
    /\ engine' = [engine EXCEPT ![p].phase = "idle", ![p].cur = NoTask,
                                ![p].totalTasks = Cardinality(Unfinished),
                                ![p].tasksCompleted = @ + 1]
    /\ UNCHANGED <<tracker, file, lock, pc, kind, found, todo, reset, exposed, disturbed>>

(* An iteration that does not complete its task: it stays in progress, and  *)
(* active. A failed one is not reported to the session.                     *)
IterationWithoutCompletion(p) ==
    /\ At(p, "agent")
    /\ engine' = [engine EXCEPT ![p].phase = "idle", ![p].cur = NoTask]
    /\ \/ SaveLater(p, mem[p])
       \/ UNCHANGED <<mem, pending>>
    /\ UNCHANGED <<tracker, file, lock, pc, kind, found, todo, reset, exposed, disturbed>>

OnPaused(p) ==
    /\ At(p, "idle") /\ ~ShouldStop(p)
    /\ SaveLater(p, WithStatus(mem[p], "paused"))
    /\ To(p, "paused")
    /\ UNCHANGED <<tracker, file, lock, pc, kind, found, todo, reset, exposed, disturbed>>

OnResumed(p) ==
    /\ At(p, "paused") /\ ~ShouldStop(p)
    /\ SaveLater(p, WithStatus(mem[p], "running"))
    /\ To(p, "idle")
    /\ UNCHANGED <<tracker, file, lock, pc, kind, found, todo, reset, exposed, disturbed>>

(* No task or no iteration is left, or the engine was stopped. *)
EngineStops(p) ==
    /\ \/ At(p, "idle") /\ (ShouldStop(p) \/ Unfinished = {}
                              \/ engine[p].iteration = MaxIterations)
       \/ At(p, "paused") /\ ShouldStop(p)
    /\ To(p, "stopped")
    /\ UNCHANGED <<tracker, file, lock, pc, kind, mem, found, todo, reset, pending,
                   exposed, disturbed>>

EngineStep(p) ==
    \/ \E t \in Task : SetInProgress(p, t)
    \/ OnTaskActivated(p) \/ CompleteTask(p) \/ OnTaskCompleted(p)
    \/ OnIterationCompleted(p) \/ IterationWithoutCompletion(p) \/ EngineStops(p)

-----------------------------------------------------------------------------
(* The end of a command.                                                    *)

(* The active tasks are read once, before the first of the awaits. *)
BeginReset(p) ==
    IF mem[p].active = {}
      THEN /\ Goto(p, "saveQuit")
           /\ UNCHANGED todo
      ELSE /\ Goto(p, "resetActive")
           /\ todo' = [todo EXCEPT ![p] = mem[p].active]

Interrupted(p) ==
    mem' = [mem EXCEPT ![p] = WithStatus(@, "interrupted")]

(* `q`, a confirmed Ctrl+C, or SIGTERM, on which registerLockCleanupHandlers *)
(* gives a run's lock back at once.                                         *)
Quit(p) ==
    /\ pc[p] = "session"
    /\ \/ UNCHANGED lock
       \/ ~Resumes(p) /\ lock' = NoProc
    /\ \/ kind[p] = "run" /\ Goto(p, "stopping") /\ UNCHANGED <<mem, todo>>
       \/ kind[p] = "runHeadless" /\ BeginReset(p) /\ UNCHANGED mem
       \/ Resumes(p) /\ Interrupted(p) /\ Goto(p, "saveQuit") /\ UNCHANGED todo
    /\ UNCHANGED <<tracker, file, kind, found, reset, engine, pending, exposed, disturbed>>

(* gracefulShutdown of the TUI: engine.stop(), then await executionPromise. *)
ExecutionOver(p) ==
    /\ pc[p] = "stopping" /\ engine[p].phase = "stopped"
    /\ BeginReset(p)
    /\ UNCHANGED <<tracker, file, lock, kind, mem, found, reset, engine, pending,
                   exposed, disturbed>>

(* resetTasksToOpen. A task that the tracker left alone counts as reset all  *)
(* the same, unless the tracker threw.                                      *)
ResetTask(p, t) ==
    /\ pc[p] = "resetActive"
    /\ t \in todo[p]
    /\ \/ /\ tracker' = [tracker EXCEPT ![t] = "open"]
          /\ reset' = [reset EXCEPT ![p].counted = TRUE]
       \/ /\ ResetsMayFail
          /\ \E counts \in {TRUE, reset[p].counted} :
                reset' = [reset EXCEPT ![p].counted = counts,
                                       ![p].failed = @ \cup {t}]
          /\ UNCHANGED tracker
    /\ todo' = [todo EXCEPT ![p] = @ \ {t}]
    /\ disturbed' = (disturbed \/ OthersBusy(p))
    /\ UNCHANGED <<file, lock, pc, kind, mem, found, engine, pending, exposed>>

(* All active tasks are cleared as soon as one of them counts as reset.      *)
ResetDone(p) ==
    /\ pc[p] = "resetActive" /\ todo[p] = {}
    /\ mem' = IF reset[p].counted THEN [mem EXCEPT ![p] = ClearActive(@)] ELSE mem
    /\ Goto(p, "saveQuit")
    /\ UNCHANGED <<tracker, file, lock, kind, found, todo, reset, engine, pending,
                   exposed, disturbed>>

(* The state saved is the one of the moment: the engine of a headless run   *)
(* and of a resume has gone on. Only the TUI's run keeps its status.        *)
FinalState(p) ==
    IF kind[p] = "run" THEN mem[p] ELSE WithStatus(mem[p], "interrupted")

SaveOnQuit(p) ==
    /\ pc[p] = "saveQuit"
    /\ Write(p, FinalState(p))
    /\ mem' = [mem EXCEPT ![p] = FinalState(p)]
    /\ Goto(p, IF kind[p] = "run" THEN "final" ELSE "dispose")
    /\ UNCHANGED <<tracker, lock, kind, found, todo, reset, engine, pending, exposed>>

(* What the session file gets wrong of the tracker when this process ends.  *)
Exposure == {t \in file.active : tracker[t] = "completed"}

(* engine.dispose(), the lock of a resume, process.exit(0). *)
ExitOnQuit(p) ==
    /\ pc[p] = "dispose"
    /\ exposed' = exposed \cup Exposure
    /\ lock' = IF Resumes(p) THEN NoProc ELSE lock
    /\ Exit(p)
    /\ UNCHANGED <<tracker, file, disturbed>>

(* A headless engine that ends lets its command go on. *)
HeadlessOver(p) ==
    /\ pc[p] = "session" /\ engine[p].phase = "stopped"
    /\ \/ kind[p] = "runHeadless" /\ Goto(p, "final") /\ UNCHANGED lock
       \/ kind[p] = "resumeHeadless" /\ Goto(p, "drain") /\ lock' = NoProc
    /\ UNCHANGED <<tracker, file, kind, mem, found, todo, reset, engine, pending,
                   exposed, disturbed>>

(* resume returns without process.exit: Node ends when nothing is under way. *)
Drained(p) ==
    /\ pc[p] = "drain" /\ pending[p] = <<>>
    /\ Exit(p)
    /\ UNCHANGED <<tracker, file, lock, exposed, disturbed>>

(* engine.start() threw in a headless run: failSession. *)
ExecutionFails(p) ==
    /\ pc[p] = "session" /\ kind[p] = "runHeadless" /\ At(p, "idle")
    /\ mem' = [mem EXCEPT ![p] = WithStatus(@, "failed")]
    /\ To(p, "stopped")
    /\ Goto(p, "saveEnd")
    /\ UNCHANGED <<tracker, file, lock, kind, found, todo, reset, pending, exposed, disturbed>>

IsSessionComplete(p) == engine[p].tasksCompleted >= engine[p].totalTasks

FinalCheck(p) ==
    /\ pc[p] = "final"
    /\ \/ /\ IsSessionComplete(p)
          /\ mem' = [mem EXCEPT ![p] = WithStatus(@, "completed")]
          /\ Goto(p, "saveCompleted")
       \/ /\ ~IsSessionComplete(p)
          /\ Goto(p, "saveEnd")
          /\ UNCHANGED mem
    /\ UNCHANGED <<tracker, file, lock, kind, found, todo, reset, engine, pending,
                   exposed, disturbed>>

SaveCompleted(p) ==
    /\ pc[p] = "saveCompleted"
    /\ Write(p, mem[p])
    /\ Goto(p, "deleteCompleted")
    /\ UNCHANGED <<tracker, lock, kind, mem, found, todo, reset, engine, pending, exposed>>

DeleteCompleted(p) ==
    /\ pc[p] = "deleteCompleted"
    /\ Write(p, NoSession)
    /\ Goto(p, "release")
    /\ UNCHANGED <<tracker, lock, kind, mem, found, todo, reset, engine, pending, exposed>>

SaveEnd(p) ==
    /\ pc[p] = "saveEnd"
    /\ Write(p, mem[p])
    /\ Goto(p, "release")
    /\ UNCHANGED <<tracker, lock, kind, mem, found, todo, reset, engine, pending, exposed>>

(* endSession and releaseLockNew unlink whatever lock there is. *)
Release(p) ==
    /\ pc[p] = "release"
    /\ lock' = NoProc
    /\ Exit(p)
    /\ UNCHANGED <<tracker, file, exposed, disturbed>>

(* kill -9, a power cut, a forced quit. *)
Crash(p) ==
    /\ p \in MayCrash /\ Alive(p)
    /\ exposed' = exposed \cup Exposure
    /\ Exit(p)
    /\ UNCHANGED <<tracker, file, lock, disturbed>>

-----------------------------------------------------------------------------

CommandStep(p) ==
    \/ LoadSession(p) \/ CheckSession(p) \/ DetectStale(p) \/ ProbeLock(p)
    \/ \E t \in Task : RecoverTask(p, t) \/ ResetTask(p, t)
    \/ SaveRecovered(p) \/ PromptResumeOrNew(p) \/ DeleteOldSession(p)
    \/ AcquireLock(p) \/ SaveFirst(p)
    \/ ExecutionOver(p) \/ ResetDone(p) \/ SaveOnQuit(p) \/ ExitOnQuit(p)
    \/ HeadlessOver(p) \/ Drained(p) \/ FinalCheck(p) \/ SaveCompleted(p)
    \/ DeleteCompleted(p) \/ SaveEnd(p) \/ Release(p)

Next ==
    \E p \in Proc :
        \/ \E k \in Kinds : StartCommand(p, k)
        \/ CommandStep(p) \/ EngineStep(p) \/ SaveLands(p)
        \/ OnPaused(p) \/ OnResumed(p)
        \/ Quit(p) \/ ExecutionFails(p) \/ Crash(p)

Spec == Init /\ [][Next]_vars

-----------------------------------------------------------------------------
(* Properties.                                                              *)

(* The order in which a completion reaches tracker and file: a task that is  *)
(* completed but still listed as active in the file is being recorded by a   *)
(* living process, or was left so by one that was killed in between          *)
(* (updateTaskStatus to open would then undo the work), or saves overtook    *)
(* one another or two commands ran at once.                                  *)
BeingRecorded(t) ==
    \E p \in Proc :
        \/ At(p, "completed") /\ engine[p].cur = t
        \/ \E i \in DOMAIN pending[p] : t \notin pending[p][i].active
        \/ pc[p] = "saveQuit" /\ t \notin mem[p].active

CompletedIsNotListed ==
    disturbed \/ \A t \in file.active :
                    tracker[t] = "completed" => t \in exposed \/ BeingRecorded(t)

(* Work that was completed is reopened only if the process that did it ended *)
(* before the file said so; a run that is quit in the TUI, and the recovery  *)
(* of a session that was saved, never do it. A headless run that is told to  *)
(* quit may: its engine completes what the shutdown sets back.               *)
HeadlessShutdown(p) == kind[p] = "runHeadless" /\ pc[p] = "resetActive"

OnlyUnrecordedWorkIsRedone ==
    [][\A t \in Task : tracker[t] = "completed" /\ tracker'[t] # "completed"
            => \/ disturbed' \/ t \in exposed
               \/ \E p \in Proc : HeadlessShutdown(p) /\ t \in todo[p]]_vars

(* Whatever a session has set in progress it knows, until it has set it back *)
(* (persistence.ts, activeTaskIds), except in the moment between the         *)
(* tracker's answer and the event, and in a shutdown that its engine does    *)
(* not stop for.                                                             *)
HasSetBack(p) == kind[p] = "run" /\ pc[p] \in {"saveQuit"} \cup Ending

Accountable(p) == pc[p] = "session" \/ kind[p] # "runHeadless"

OwnTasksAreActive ==
    \A p \in Proc, t \in Task :
        tracker[t] = p /\ InSession(p) /\ ~HasSetBack(p) /\ Accountable(p)
            => \/ t \in mem[p].active
               \/ At(p, "activated") /\ engine[p].cur = t

(* After the graceful shutdown of a run in the TUI a task of its is in        *)
(* progress, though its agent was at work when it was asked to quit, only if  *)
(* the tracker did not set it back; and the run still knows of it then, if    *)
(* not a single task counts as set back.                                      *)
QuitLeavesOnlyFailedResets ==
    \A p \in Proc, t \in Task :
        HasSetBack(p) /\ tracker[t] = p
            => t \in reset[p].failed /\ (t \in mem[p].active \/ reset[p].counted)

(* A session that is under way can be resumed whenever it is killed.         *)
SessionIsResumable ==
    \A p \in Proc :
        pc[p] \in {"session"} \cup Shutdown => disturbed \/ IsSessionResumable(file)

(* What a recovery would find is right at any time: a session that can be     *)
(* resumed and lists no work that is done.                                   *)
SessionCanBeRecovered == TypeOK /\ CompletedIsNotListed /\ SessionIsResumable

(* A session knows what it has to set back, and a quit sets it back or keeps it. *)
QuitSetsBack == OwnTasksAreActive /\ QuitLeavesOnlyFailedResets

(* What a recovery after a crash will need: a task in progress is listed in   *)
(* the file, or in a save that is on its way to it, once its event was seen   *)
(* and until a quit has set tasks back; the saves are not awaited, and are    *)
(* those of other events too. Overtaken saves may lose it.                    *)
KeepsFile(p) == pc[p] \in {"session"} \cup (Shutdown \ {"saveQuit"})

WorkInProgressIsListed ==
    \A p \in Proc, t \in Task :
        tracker[t] = p /\ KeepsFile(p) /\ Accountable(p)
            => \/ disturbed \/ t \in file.active
               \/ At(p, "activated") /\ engine[p].cur = t
               \/ \E i \in DOMAIN pending[p] : t \in pending[p][i].active

(* "Check if all tasks completed successfully" (src/src/commands/run.tsx:4356): *)
(* a run saves its session as completed and deletes the file only when no task  *)
(* is left.                                                                     *)
DeletedOnlyWhenComplete ==
    \A p \in Proc : pc[p] \in {"saveCompleted", "deleteCompleted"} => Unfinished = {}
=============================================================================
