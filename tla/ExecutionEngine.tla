-------------------------- MODULE ExecutionEngine --------------------------
(***************************************************************************)
(* The agent loop of src/engine/index.ts: one engine that picks a task from *)
(* the tracker, runs an agent on it, and handles completion, failure, rate   *)
(* limits and agent switches, while the user pauses, resumes, stops, adds or *)
(* removes iterations, and switches agents from callbacks.                   *)
(*                                                                         *)
(* JavaScript runs to the next await, so an action is the code between two   *)
(* awaits of the loop; "pc" names the await the loop is suspended at, and    *)
(* the user's calls happen at any of them.                                   *)
(*                                                                         *)
(* runIteration retries a rate-limited iteration with `return               *)
(* this.runIteration(task)` inside try/finally.  The call is not awaited     *)
(* there, so the finally block of the superseded iteration runs beside the   *)
(* new one: "cleanups" counts the blocks that have not run yet.              *)
(***************************************************************************)
EXTENDS Naturals, Sequences, FiniteSets

CONSTANTS
    Task,             \* tasks of the tracker
    Allowed,          \* the tasks config.filteredTaskIds lets through
    Agent,            \* agent plugins
    Primary,          \* config.agent.plugin
    Fallbacks,        \* [Agent -> Seq(Agent)]: each agent's fallbackAgents
    UserAgents,       \* agents the user may switch to
    Strategies,       \* what config.errorHandling.strategy may be
    MaxRetries,       \* config.errorHandling.maxRetries
    RateLimitRetries, \* rateLimitHandling.maxRetries
    RecoverPrimary,   \* rateLimitHandling.recoverPrimaryBetweenIterations
    MaxIterations,    \* config.maxIterations at the start
    MaxIterationsCap, \* bound: addIterations is called only below it
    MaxCleanups,      \* bound: superseded finally blocks pending at once
    Forced,           \* worker mode: tasks the engine may be forced to, or NoTask
    Outcomes,         \* what an agent run may end with
    Limitable,        \* agents that may report a rate limit
    Undetected,       \* agents whose detect() may fail
    TrackerMayFail,   \* completeTask may return {success: false}, a reset may fail
    MayThrow,         \* tracker and session calls, execute, saveIterationLog may throw
    Calls,            \* the calls the user makes
    NoTask, NoAgent

ASSUME EngineAssumption ==
    /\ Allowed \subseteq Task /\ NoTask \notin Task
    /\ Primary \in Agent /\ NoAgent \notin Agent
    /\ UserAgents \subseteq Agent /\ Limitable \subseteq Agent /\ Undetected \subseteq Agent
    /\ Fallbacks \in [Agent -> Seq(Agent)]
    /\ Strategies \subseteq {"retry", "skip", "abort"}
    /\ MaxRetries \in Nat /\ RateLimitRetries \in Nat
    /\ MaxIterations \in Nat /\ MaxIterationsCap \in Nat /\ MaxCleanups \in Nat \ {0}
    /\ Forced \subseteq Task \cup {NoTask}
    /\ {RecoverPrimary, TrackerMayFail, MayThrow} \subseteq BOOLEAN
    /\ Outcomes \subseteq [status : {"completed", "failed"}, complete : BOOLEAN]

VARIABLES
    status,      \* state.status
    shouldStop,
    iter,        \* state.currentIteration
    maxIter,     \* config.maxIterations
    curTask,     \* state.currentTask
    exec,        \* whether currentExecution is set
    pc,          \* the await the loop is suspended at
    task,        \* the task runIteration was called with
    result,      \* the agent result, then the iteration result
    cleanups,    \* finally blocks of superseded iterations still to run
    running,     \* the agent whose process runs, or NoAgent
    interrupted, \* whether that process was interrupted
    agent,       \* this.agent
    active,      \* state.activeAgent: plugin and reason
    primary,     \* config.agent and primaryAgentInstance
    candidate,   \* local: the fallback being initialised, or the agent being tested
    limited,     \* rateLimitedAgents
    pendingSwap, \* pendingUserAgentSwap
    tracker,     \* status of each task in the tracker
    retries,     \* retryCountMap
    rlRetries,   \* rateLimitRetryMap
    skipped,     \* skippedTasks
    forcedTask,  \* the task of a worker's engine, NoTask in sequential mode
    strategy,    \* config.errorHandling.strategy
    tasksCompleted,
    processed,   \* forcedTaskProcessed
    resetting,   \* task a remote interrupt is about to reset to open
    unkept       \* history: completions the tracker refused, or lost to such a reset

loopVars == <<pc, task, result>>
runVars == <<exec, curTask, running, interrupted, cleanups>>
agentVars == <<agent, active, primary, limited, pendingSwap>>
configVars == <<forcedTask, strategy>>
taskVars == <<tracker, skipped, tasksCompleted, processed, configVars>>
countVars == <<retries, rlRetries>>
ctlVars == <<status, shouldStop>>
resetVars == <<resetting, unkept>>
iterVars == <<iter, maxIter>>
vars == <<loopVars, runVars, agentVars, candidate, taskVars, countVars,
          ctlVars, iterVars, resetVars>>

Result == [status : {"completed", "failed", "interrupted"},
           complete : BOOLEAN, limited : BOOLEAN]
NoResult == [status |-> "completed", complete |-> FALSE, limited |-> FALSE]

CtlTypeOK == status \in {"idle", "running", "pausing", "paused", "stopping"}

FlagTypeOK ==
    /\ shouldStop \in BOOLEAN /\ exec \in BOOLEAN
    /\ interrupted \in BOOLEAN /\ processed \in BOOLEAN

LoopTypeOK ==
    /\ pc \in {"idle", "head", "paused", "recovering", "limits", "select",
               "activate", "prompt", "agent", "evaluate", "backoff", "fallback",
               "completing", "log", "finally", "settle", "retryDelay", "record"}
    /\ task \in Task \cup {NoTask}
    /\ result \in Result

RunTypeOK ==
    /\ curTask \in Task \cup {NoTask}
    /\ running \in Agent \cup {NoAgent}
    /\ cleanups \in Nat

AgentTypeOK ==
    /\ agent \in Agent /\ primary \in Agent
    /\ candidate \in Agent \cup {NoAgent} /\ pendingSwap \in Agent \cup {NoAgent}
    /\ limited \subseteq Agent
    /\ active \in [plugin : Agent, reason : {"primary", "fallback", "user-selected"}]

TaskTypeOK ==
    /\ tracker \in [Task -> {"open", "in_progress", "completed"}]
    /\ skipped \subseteq Task
    /\ forcedTask \in Task \cup {NoTask} /\ resetting \in Task \cup {NoTask}
    /\ strategy \in Strategies
    /\ tasksCompleted \in Nat /\ unkept \in Nat

CountTypeOK ==
    /\ iter \in Nat /\ maxIter \in Nat
    /\ retries \in [Task -> 0..MaxRetries]
    /\ rlRetries \in [Task -> 0..RateLimitRetries]

TypeOK == /\ CtlTypeOK /\ FlagTypeOK /\ LoopTypeOK /\ RunTypeOK
          /\ AgentTypeOK /\ TaskTypeOK /\ CountTypeOK

Init ==
    /\ status = "idle" /\ shouldStop = FALSE
    /\ iter = 0 /\ maxIter = MaxIterations
    /\ curTask = NoTask /\ exec = FALSE /\ running = NoAgent /\ interrupted = FALSE
    /\ cleanups = 0
    /\ pc = "idle" /\ task = NoTask /\ result = NoResult
    /\ agent = Primary /\ primary = Primary
    /\ active = [plugin |-> Primary, reason |-> "primary"]
    /\ candidate = NoAgent /\ limited = {} /\ pendingSwap = NoAgent
    /\ tracker = [t \in Task |-> "open"]
    /\ retries = [t \in Task |-> 0] /\ rlRetries = [t \in Task |-> 0]
    /\ forcedTask \in Forced /\ strategy \in Strategies
    /\ skipped = {} /\ tasksCompleted = 0 /\ processed = FALSE
    /\ resetting = NoTask /\ unkept = 0

Worker == forcedTask # NoTask

Goto(label) == pc' = label /\ UNCHANGED <<task, result>>

-----------------------------------------------------------------------------
(* start, continueExecution and the head of runLoop.                        *)

(* If the tracker's tasks cannot be read, start rejects before its try block *)
(* and the engine stays "running" without a loop.                            *)
Start ==
    /\ pc = "idle" /\ status = "idle"
    /\ status' = "running" /\ shouldStop' = FALSE
    /\ \/ Goto("head")
       \/ MayThrow /\ Goto("idle")
    /\ UNCHANGED <<runVars, agentVars, candidate, taskVars, countVars, iterVars, resetVars>>

(* runLoop returns or throws; start's finally block makes the engine idle. *)
EndLoop ==
    /\ status' = "idle"
    /\ Goto("idle")
    /\ UNCHANGED <<shouldStop, agentVars, candidate, iterVars, resetVars>>

(* Past the pause check: test the primary agent first when on a fallback. *)
ContinueIteration ==
    LET recover == active.reason = "fallback" /\ RecoverPrimary
    IN  /\ Goto(IF recover THEN "recovering" ELSE "limits")
        /\ candidate' = IF recover THEN primary ELSE candidate
        /\ UNCHANGED <<status, shouldStop, agentVars, iterVars, resetVars>>

LoopHead ==
    /\ pc = "head"
    /\ \/ shouldStop /\ EndLoop
       \/ ~shouldStop /\ status # "pausing" /\ ContinueIteration
       \/ /\ ~shouldStop /\ status = "pausing"
          /\ status' = "paused"
          /\ Goto("paused")
          /\ UNCHANGED <<shouldStop, agentVars, candidate, iterVars, resetVars>>
    /\ UNCHANGED <<runVars, taskVars, countVars>>

WakeFromPause ==
    /\ pc = "paused"
    /\ \/ shouldStop /\ EndLoop
       \/ ~shouldStop /\ status # "paused" /\ ContinueIteration
    /\ UNCHANGED <<runVars, taskVars, countVars>>

(* switchAgent, as recovery and fallback call it. *)
SwitchAgent(plugin, reason) == active' = [plugin |-> plugin, reason |-> reason]

(* attemptPrimaryAgentRecovery: "candidate" is the name read before the test *)
(* ran; primaryAgentInstance is read after it.                               *)
AttemptPrimaryAgentRecovery ==
    /\ pc = "recovering"
    /\ \/ UNCHANGED agentVars
       \/ /\ agent' = primary
          /\ SwitchAgent(candidate, "primary")
          /\ limited' = {}
          /\ UNCHANGED <<primary, pendingSwap>>
    /\ Goto("limits")
    /\ UNCHANGED <<runVars, candidate, taskVars, countVars, ctlVars, iterVars, resetVars>>

MaxReached == maxIter > 0 /\ iter >= maxIter

CheckMaxIterations ==
    /\ pc = "limits"
    /\ IF MaxReached
         THEN EndLoop
         ELSE Goto("select") /\ UNCHANGED <<ctlVars, agentVars, candidate, iterVars, resetVars>>
    /\ UNCHANGED <<runVars, taskVars, countVars>>

IsComplete == IF Worker THEN tasksCompleted >= 1
                        ELSE \A t \in Task : tracker[t] = "completed"

(* As a bug: getNextTask without the status filter. *)
AvailableOfAnyStatus == Allowed \ skipped

(* getNextAvailableTask: whatever order the tracker prefers. *)
Available ==
    IF Worker THEN {t \in {forcedTask} : tasksCompleted = 0 /\ ~processed}
              ELSE {t \in Allowed \ skipped : tracker[t] # "completed"}

(* The first, synchronous part of runIteration. *)
BeginIteration(t) ==
    /\ curTask' = t /\ task' = t
    /\ pc' = "activate"
    /\ UNCHANGED <<result, running, interrupted>>

(* isComplete and getNextTask may reject, which ends the loop. *)
SelectTask ==
    /\ pc = "select"
    /\ \/ /\ IsComplete \/ Available = {} \/ (MayThrow /\ ~Worker)
          /\ EndLoop
          /\ UNCHANGED runVars
       \/ /\ ~IsComplete
          /\ \E t \in Available : BeginIteration(t)
          /\ iter' = iter + 1
          /\ UNCHANGED <<exec, cleanups, ctlVars, agentVars, candidate, maxIter, resetVars>>
    /\ UNCHANGED <<taskVars, countVars>>

(* tracker.updateTaskStatus(task.id, 'in_progress') and buildPrompt stand     *)
(* before the try block: what they throw rejects the loop, once the finally  *)
(* blocks of the superseded iterations have run.                             *)
Reject == MayThrow /\ cleanups = 0 /\ EndLoop

ActivateTask ==
    /\ pc = "activate"
    /\ \/ /\ tracker' = [tracker EXCEPT ![task] = "in_progress"]
          /\ Goto("prompt")
          /\ UNCHANGED <<ctlVars, agentVars, candidate, iterVars, resetVars>>
       \/ Reject /\ UNCHANGED tracker
    /\ UNCHANGED <<runVars, skipped, tasksCompleted, processed, configVars, countVars>>

(* The prompt is built; agent.execute starts the process. *)
ExecuteAgent ==
    /\ pc = "prompt"
    /\ \/ /\ exec' = TRUE /\ running' = agent /\ interrupted' = FALSE
          /\ Goto("agent")
          /\ UNCHANGED <<curTask, cleanups, agentVars, candidate, ctlVars, iterVars, resetVars>>
       \/ Reject /\ UNCHANGED runVars
    /\ UNCHANGED <<taskVars, countVars>>

AgentResult(r) ==
    /\ pc = "agent"
    /\ result' = r
    /\ exec' = FALSE /\ running' = NoAgent
    /\ pc' = "evaluate"
    /\ UNCHANGED <<task, curTask, interrupted, cleanups, agentVars, candidate, taskVars,
                   countVars, ctlVars, iterVars, resetVars>>

LimitReports == {FALSE} \cup (IF running \in Limitable THEN {TRUE} ELSE {})

AgentFinishes ==
    /\ ~interrupted
    /\ \E o \in Outcomes, l \in LimitReports :
          AgentResult([status |-> o.status, complete |-> o.complete, limited |-> l])

AgentInterrupted ==
    /\ interrupted
    /\ \E c \in {o.complete : o \in Outcomes}, l \in LimitReports :
          AgentResult([status |-> "interrupted", complete |-> c, limited |-> l])

-----------------------------------------------------------------------------
(* Rate limits: backoff with the same agent, then the fallbacks in order.   *)

(* Mutant: the fallback list is read without looking at rateLimitedAgents. *)
FirstFallback(excluded) ==
    IF Fallbacks[primary] = <<>> THEN NoAgent ELSE Fallbacks[primary][1]

(* getNextFallbackAgent over config.agent.fallbackAgents. *)
NextFallback(excluded) ==
    LET left == {i \in DOMAIN Fallbacks[primary] : Fallbacks[primary][i] \notin excluded}
    IN  IF left = {} THEN NoAgent
        ELSE Fallbacks[primary][CHOOSE i \in left : \A j \in left : i <= j]

(* The agent is given up for this task; tryFallbackAgent picks the next. *)
GiveUpAgent(plugin) ==
    /\ limited' = limited \cup {plugin}
    /\ candidate' = NextFallback(limited')
    /\ Goto("fallback")
    /\ UNCHANGED <<agent, active, primary, pendingSwap>>

(* `return this.runIteration(task)`: the new iteration begins, the finally  *)
(* block of this one is left to run.                                        *)
RestartIteration ==
    /\ cleanups < MaxCleanups
    /\ BeginIteration(task)
    /\ cleanups' = cleanups + 1
    /\ UNCHANGED exec

(* Mutant: a retry that is not counted. *)
DoNotCount == rlRetries' = rlRetries

RateLimitRetriesLeft == rlRetries[task] < RateLimitRetries
CountRateLimitRetry == rlRetries' = [rlRetries EXCEPT ![task] = @ + 1]

EvaluateResult ==
    /\ pc = "evaluate"
    /\ \/ /\ result.limited /\ RateLimitRetriesLeft
          /\ CountRateLimitRetry
          /\ IF shouldStop THEN GiveUpAgent(active.plugin)
             ELSE Goto("backoff") /\ UNCHANGED <<agentVars, candidate>>
       \/ /\ result.limited /\ ~RateLimitRetriesLeft
          /\ rlRetries' = [rlRetries EXCEPT ![task] = 0]
          /\ GiveUpAgent(active.plugin)
       \/ /\ ~result.limited
          /\ rlRetries' = [rlRetries EXCEPT ![task] = 0]
          /\ Goto(IF result.complete THEN "completing" ELSE "log")
          /\ UNCHANGED <<agentVars, candidate>>
    /\ UNCHANGED <<runVars, taskVars, retries, ctlVars, iterVars, resetVars>>

BackoffElapses ==
    /\ pc = "backoff"
    /\ IF shouldStop THEN GiveUpAgent(active.plugin) /\ UNCHANGED runVars
       ELSE RestartIteration /\ UNCHANGED <<agentVars, candidate>>
    /\ UNCHANGED <<taskVars, countVars, ctlVars, iterVars, resetVars>>

Pausing == IF status = "running" THEN "pausing" ELSE status

(* Every agent is limited: the engine is asked to pause and the iteration   *)
(* fails.                                                                   *)
AllAgentsLimited ==
    /\ candidate = NoAgent
    /\ status' = Pausing
    /\ limited' = {}
    /\ result' = [NoResult EXCEPT !.status = "failed"]
    /\ pc' = "finally"
    /\ UNCHANGED <<task, runVars, agent, active, primary, pendingSwap, candidate, rlRetries>>

FallbackAvailable ==
    /\ candidate # NoAgent
    /\ agent' = candidate
    /\ SwitchAgent(candidate, "fallback")
    /\ rlRetries' = [rlRetries EXCEPT ![task] = 0]
    /\ RestartIteration
    /\ UNCHANGED <<primary, limited, pendingSwap, candidate, status>>

FallbackUnavailable ==
    /\ candidate \in Undetected
    /\ GiveUpAgent(candidate)
    /\ UNCHANGED <<runVars, rlRetries, status>>

TryFallbackAgent ==
    /\ pc = "fallback"
    /\ AllAgentsLimited \/ FallbackAvailable \/ FallbackUnavailable
    /\ UNCHANGED <<taskVars, retries, shouldStop, iterVars, resetVars>>

-----------------------------------------------------------------------------
(* The end of an iteration.                                                 *)

(* Mutant: the worker test of the completion inverted. *)
CompletedInWorkerOnly == IF Worker THEN [tracker EXCEPT ![task] = "completed"] ELSE tracker

TrackerAfterCompletion ==
    IF Worker THEN tracker ELSE [tracker EXCEPT ![task] = "completed"]

CompleteTask ==
    /\ pc = "completing"
    /\ \/ tracker' = TrackerAfterCompletion /\ UNCHANGED unkept
       \/ TrackerMayFail /\ ~Worker /\ unkept' = unkept + 1 /\ UNCHANGED tracker
    /\ limited' = {}
    /\ Goto("log")
    /\ UNCHANGED <<runVars, agent, active, primary, pendingSwap, candidate, skipped,
                   tasksCompleted, processed, configVars, countVars, ctlVars, iterVars,
                   resetting>>

SaveIterationLog ==
    /\ pc = "log"
    /\ Goto("finally")
    /\ UNCHANGED <<runVars, agentVars, candidate, taskVars, countVars, ctlVars,
                   iterVars, resetVars>>

(* execute, completeTask or saveIterationLog throws: the catch block. *)
IterationThrows ==
    /\ MayThrow /\ pc \in {"prompt", "completing", "log"}
    /\ result' = [NoResult EXCEPT !.status = "failed"]
    /\ pc' = "finally"
    /\ UNCHANGED <<task, runVars, agentVars, candidate, taskVars, countVars, ctlVars,
                   iterVars, resetVars>>

(* As a bug: applyUserAgentSwap without clear(). *)
ApplySwapKeepingLimits(a) ==
    /\ agent' = a /\ primary' = a
    /\ active' = [plugin |-> a, reason |-> "user-selected"]
    /\ UNCHANGED limited

(* applyUserAgentSwap *)
ApplySwap(a) ==
    /\ agent' = a /\ primary' = a
    /\ limited' = {}
    /\ active' = [plugin |-> a, reason |-> "user-selected"]

(* The finally block of runIteration. *)
Finally ==
    /\ exec' = FALSE
    /\ curTask' = NoTask
    /\ pendingSwap' = NoAgent
    /\ IF pendingSwap = NoAgent THEN UNCHANGED <<agent, active, primary, limited>>
                                ELSE ApplySwap(pendingSwap)
    /\ UNCHANGED <<running, interrupted, candidate, taskVars, countVars, ctlVars,
                   iterVars, resetVars>>

FinishIteration == pc = "finally" /\ Goto("settle") /\ Finally /\ UNCHANGED cleanups

(* The same block of an iteration that a rate limit superseded. *)
SupersededCleanup ==
    /\ cleanups > 0 /\ cleanups' = cleanups - 1
    /\ Finally
    /\ UNCHANGED loopVars

(* Mutant: the forced task is skipped but not marked as processed. *)
SkipUnprocessed(t) ==
    /\ skipped' = skipped \cup {t}
    /\ UNCHANGED <<processed, tasksCompleted, configVars>>

Skip(t) ==
    /\ skipped' = skipped \cup {t}
    /\ processed' = (processed \/ Worker)
    /\ UNCHANGED <<tasksCompleted, configVars>>

(* runIterationWithErrorHandling, once every nested promise has settled. *)
HandleFailure ==
    \/ /\ strategy = "retry" /\ retries[task] < MaxRetries
       /\ retries' = [retries EXCEPT ![task] = @ + 1]
       /\ Goto("retryDelay")
       /\ UNCHANGED <<skipped, tasksCompleted, processed, configVars>>
    \/ /\ strategy = "retry" /\ retries[task] >= MaxRetries
       /\ retries' = [retries EXCEPT ![task] = 0]
       /\ Skip(task) /\ Goto("record")
    \/ /\ strategy = "skip"
       /\ Skip(task) /\ Goto("record")
       /\ UNCHANGED retries

HandleResult ==
    /\ pc = "settle" /\ cleanups = 0
    /\ \/ /\ result.status # "failed"
          /\ tasksCompleted' = tasksCompleted + (IF result.complete THEN 1 ELSE 0)
          /\ retries' = IF result.complete THEN [retries EXCEPT ![task] = 0] ELSE retries
          /\ Goto("record")
          /\ UNCHANGED <<skipped, processed, configVars, ctlVars, agentVars, candidate,
                         iterVars, resetVars>>
       \/ /\ result.status = "failed" /\ strategy # "abort"
          /\ HandleFailure
          /\ UNCHANGED <<ctlVars, agentVars, candidate, iterVars, resetVars>>
       \/ /\ result.status = "failed" /\ strategy = "abort"
          /\ processed' = (processed \/ Worker)
          /\ EndLoop
          /\ UNCHANGED <<skipped, tasksCompleted, configVars, retries>>
    /\ UNCHANGED <<runVars, tracker, rlRetries>>

(* The recursive call does not pass the head of the loop. *)
RetryDelayElapses ==
    /\ pc = "retryDelay"
    /\ IF shouldStop THEN Goto("record") /\ UNCHANGED <<runVars, iter>>
       ELSE BeginIteration(task) /\ iter' = iter + 1 /\ UNCHANGED <<exec, cleanups>>
    /\ UNCHANGED <<agentVars, candidate, taskVars, countVars, ctlVars, maxIter, resetVars>>

(* updateSessionIteration, which may reject, and the delay between iterations. *)
RecordIteration ==
    /\ pc = "record"
    /\ \/ Goto("head") /\ UNCHANGED <<agentVars, candidate, ctlVars, iterVars, resetVars>>
       \/ Reject
    /\ UNCHANGED <<runVars, taskVars, countVars>>

-----------------------------------------------------------------------------
(* The user's calls (TUI keys, remote messages), at any await of the loop.  *)

unchangedByCalls == <<loopVars, curTask, exec, running, cleanups, candidate,
                      taskVars, countVars, iter>>

StopEngine ==
    /\ shouldStop' = TRUE /\ status' = "stopping"
    /\ interrupted' = (interrupted \/ exec)
    /\ UNCHANGED <<unchangedByCalls, agentVars, maxIter>>

Stop == "stop" \in Calls /\ StopEngine /\ UNCHANGED resetVars

(* Remote interrupt: stop, then reset the task that was active to open. *)
Interrupt ==
    /\ "interrupt" \in Calls /\ resetting = NoTask
    /\ StopEngine
    /\ resetting' = curTask /\ UNCHANGED unkept

(* resetTasksToOpen: a reset that fails is given up. *)
ResetTaskToOpen ==
    /\ resetting # NoTask
    /\ \/ /\ tracker' = [tracker EXCEPT ![resetting] = "open"]
          /\ unkept' = unkept + (IF tracker[resetting] = "completed" THEN 1 ELSE 0)
       \/ TrackerMayFail /\ UNCHANGED <<tracker, unkept>>
    /\ resetting' = NoTask
    /\ UNCHANGED <<loopVars, runVars, agentVars, candidate, skipped, tasksCompleted,
                   processed, configVars, countVars, ctlVars, iterVars>>

SetStatus(s) ==
    /\ status' = s
    /\ UNCHANGED <<unchangedByCalls, interrupted, shouldStop, agentVars, maxIter, resetVars>>

(* Mutant: pause() takes effect at once instead of at the head of the loop. *)
PauseAtOnce == "pause" \in Calls /\ status = "running" /\ SetStatus("paused")

Pause == "pause" \in Calls /\ status = "running" /\ SetStatus("pausing")
Resume == "pause" \in Calls /\ status \in {"pausing", "paused"} /\ SetStatus("running")

SetMaxIterations(n) ==
    /\ maxIter > 0 /\ maxIter' = n
    /\ UNCHANGED <<unchangedByCalls, interrupted, ctlVars, agentVars, resetVars>>

AddIterations ==
    /\ "add" \in Calls /\ maxIter < MaxIterationsCap
    /\ SetMaxIterations(maxIter + 1)

RemoveIterations ==
    /\ "remove" \in Calls
    /\ \E newMax \in {1, iter, maxIter - 1} :
          /\ newMax >= 1 /\ newMax >= iter /\ newMax >= maxIter - 1
          /\ newMax # maxIter
          /\ SetMaxIterations(newMax)

(* switchToUserAgent: at once, or when the current execution is over. *)
SwitchToUserAgent ==
    /\ "switch" \in Calls
    /\ \E a \in UserAgents :
         IF exec \/ curTask # NoTask
           THEN pendingSwap' = a /\ UNCHANGED <<agent, active, primary, limited>>
           ELSE ApplySwap(a) /\ UNCHANGED pendingSwap
    /\ UNCHANGED <<unchangedByCalls, interrupted, ctlVars, maxIter, resetVars>>

UserCall == \/ Stop \/ Interrupt \/ Pause \/ Resume \/ AddIterations
            \/ RemoveIterations \/ SwitchToUserAgent

(* What the loop does by itself once its current await resolves. *)
LoopStep ==
    \/ LoopHead \/ AttemptPrimaryAgentRecovery \/ CheckMaxIterations \/ SelectTask
    \/ ActivateTask \/ ExecuteAgent \/ EvaluateResult \/ BackoffElapses
    \/ TryFallbackAgent \/ CompleteTask \/ SaveIterationLog \/ IterationThrows
    \/ FinishIteration \/ HandleResult \/ RetryDelayElapses \/ RecordIteration

Next ==
    \/ Start \/ LoopStep \/ WakeFromPause \/ AgentFinishes \/ AgentInterrupted
    \/ SupersededCleanup \/ ResetTaskToOpen \/ UserCall

Spec == Init /\ [][Next]_vars

(* Timers and I/O complete, and an interrupted agent is killed in the end   *)
(* (base.ts, interrupt); the pause poll runs every 100 ms.                   *)
Fairness ==
    /\ WF_vars(LoopStep) /\ WF_vars(WakeFromPause) /\ WF_vars(SupersededCleanup)
    /\ WF_vars(AgentInterrupted)

FairSpec == Spec /\ Fairness

(* In addition every agent comes to an end by itself. *)
AgentsEndSpec == FairSpec /\ WF_vars(AgentFinishes)

-----------------------------------------------------------------------------
(* Properties.                                                              *)

(* While the engine reports "paused", no agent runs and none is about to:   *)
(* the loop waits in its pause poll and no finally block is outstanding      *)
(* (runLoop, pause, resume; a pause may be asked for, withdrawn and asked    *)
(* for again at any await).                                                  *)
PausedIsQuiet == status = "paused" => pc = "paused" /\ running = NoAgent /\ cleanups = 0

(* An agent found limited is not run again until the set is cleared, over    *)
(* retries, fallbacks, recoveries and user swaps (rateLimitedAgents).        *)
LimitedAgentNotRun == running \notin limited

(* The claim of engine/types.ts that activeAgent tracks which agent is        *)
(* running: the agent it names is the one the next execute call uses          *)
(* (switchAgent, attemptPrimaryAgentRecovery, applyUserAgentSwap).            *)
ActiveAgentIsTheAgent == active.plugin = agent

(* A task given up on is not started again, whatever the tracker offers      *)
(* (skippedTasks).                                                           *)
SkippedNeverStarted == [][pc' = "activate" /\ pc # "activate" => task' \notin skipped]_vars

(* A completed task is reopened in two ways only: by the retry of the very    *)
(* iteration that completed it and then failed, and by the reset a remote     *)
(* interrupt asked for while the task was current (completeTask, getNextTask, *)
(* resetTasksToOpen), whatever is refused, throws or is stopped in between.   *)
CompletedStaysCompleted ==
    [][\A t \in Task :
         (tracker[t] = "completed" /\ tracker'[t] # "completed")
         => \/ resetting = t
            \/ pc = "activate" /\ task = t /\ retries[t] > 0]_vars

(* Outside worker mode every completion the engine counts and reports is one *)
(* the tracker has, but for those it refused, which are counted all the same, *)
(* and those an interrupt's reset took back: none is counted twice and none   *)
(* of an iteration that failed afterwards (tasksCompleted, completeTask).     *)
CompletionsAreInTracker ==
    ~Worker => tasksCompleted <= Cardinality({t \in Task : tracker[t] = "completed"}) + unkept

(* In worker mode the tracker learns of a completion from the executor only, *)
(* after the merge: no path of the engine writes "completed".                *)
WorkerNeverCompletes == Worker => \A t \in Task : tracker[t] # "completed"

(* The completions reported against those of the tracker, in either mode.    *)
CompletionsMatchTracker == CompletionsAreInTracker /\ WorkerNeverCompletes

(* After stop() the loop comes to an end, though a stop between two           *)
(* executions does not keep the next one from starting first (stop, runLoop). *)
StopEndsLoop == shouldStop ~> pc = "idle"

(* A loop that is not left paused ends: with bounded iterations no cycle of   *)
(* retries, rate limits, fallbacks and user calls keeps it going for ever.   *)
LoopEnds == <>[](pc = "paused") \/ []<>(pc = "idle")
=============================================================================
