# A verification of ralph-tui

ralph-tui runs AI coding agents in a loop: it takes a task from a tracker,
prompts an agent with it, recognises completion, failure and rate limits,
records the result and takes the next task. It can do so in one process, with
one agent, or with several workers in git worktrees whose commits are merged
into a session branch. A session is protected by a lock file, saved to disk, and
can be watched and controlled from a remote terminal.

This directory has TLA+ modules translated from the TypeScript sources, TLC
configurations that check them on small instances, and proofs that TLAPS
checks for all instances. Paths below are relative to the repository; line
numbers are those of the commit the modules were written from.

- [1. The system](#1-the-system)
- [2. The modules](#2-the-modules)
- [3. What is checked](#3-what-is-checked)
- [4. What is proved](#4-what-is-proved)
- [5. Where the code and its documentation disagree](#5-where-the-code-and-its-documentation-disagree)
- [6. What is not modelled](#6-what-is-not-modelled)
- [7. Plan](#7-plan)
- [8. Running it](#8-running-it)

## 1. The system

Everything runs on Bun's single-threaded event loop. Two kinds of
concurrency matter: several *processes* in one repository share files, and
inside a process several *async functions* interleave at their `await`s, with
callbacks (keys, timers, child processes, sockets) in between. An atomic step
of the models is accordingly the code between two awaits.

### Components

| Component | State | Operations | Talks to |
|---|---|---|---|
| Session lock (`session/lock.ts`, `session/index.ts`) | `.ralph-tui/ralph.lock`: a JSON file with the holder's pid | `acquireLockWithPrompt`, `tryWriteLockFile`, `cleanStaleLock`, `acquireLock`, `releaseLock`, `releaseLockNew`, signal handlers | other processes, through the file |
| Execution engine (`engine/index.ts`) | status, stop flag, iteration counters, current task and execution, agents (active, primary, limited, pending swap), retry counters, skipped tasks | `start`, `stop`, `pause`, `resume`, `addIterations`, `removeIterations`, `switchToUserAgent`, the loop itself | tracker, agent processes, session files, TUI and remote server (callbacks) |
| Task graph (`parallel/task-graph.ts`) | none; pure | `analyzeTaskGraph`, `shouldRunParallel` | executor, `run` |
| Parallel executor (`parallel/index.ts`, `worker.ts`) | groups, pending tasks, batch, active workers, conflicts, requeue counters, pause and stop flags | `execute`, `executeGroup`, `executeBatch`, `stop`, `pause`, `resume`, `reset` | task graph, workers (one engine each), worktrees, merge engine, resolver, tracker |
| Merge engine, conflict resolver, worktrees (`merge-engine.ts`, `conflict-resolver.ts`, `worktree-manager.ts`) | merge queue, backup tags, session branch, worktrees and their branches | `acquire`, `cleanupAll`, `enqueue`, `executeMerge`, `resolveConflicts`, `abortMerge` | git |
| Session persistence (`session/persistence.ts`) | `.ralph-tui/session.json`, written atomically | save, load, `detectAndRecoverStaleSession`, pause, resume, complete | `run`, `resume`, TUI |
| Session registry (`session/registry.ts`) | global registry file and its lock | register, update, unregister, clean stale | all processes of the user |
| JSON tracker (`plugins/trackers/builtin/json`) | `prd.json`, a cache and a write lock per object | `getTasks`, `completeTask`, `updateTaskStatus`, `isComplete` | engine; agents and people edit the same file |
| Command line trackers (`beads*`, `linear`, ...) | none to speak of; the state is in the tool | one command per call | external programs |
| Remote client (`remote/client.ts`) | socket, status, reconnect timer and counter, tokens, pending requests | `connect`, `disconnect`, `handleMessage`, `scheduleReconnect`, `attemptReconnect` | server |
| Remote server and tokens (`remote/server.ts`, `token.ts`) | clients, their authentication and subscriptions, server and connection tokens | authentication, token refresh, interrupt, engine controls | engine, clients |
| Instance manager (`remote/instance-manager.ts`) | tabs, clients, selected tab | `selectTab`, `addRemote`, `removeTab`, `reconnectRemote`, `handleClientEvent` | clients, the effects of `RunApp.tsx` |
| Agent plugins (`plugins/agents/base.ts`) | the child process of each execution | `execute`, `interrupt`, timeout, kill | engine |
| Chat engine (`chat/engine.ts`) and PRD screen (`tui/components/PrdChatApp.tsx`) | two conversations, their status and timeout; phase, dialogs, busy flag, retry flags | `sendMessage`, `retry`, `continueIndefinitely`, `cancelTimeout`; keys | agent plugin |
| Interrupt handler (`interruption/handler.ts`) | one of five states, double-press window | `handleSigint`, `handleResponse` | `run` |
| Commands (`commands/run.tsx`, `resume.tsx`, ...) | order of set-up and shutdown | | all of the above |

The smaller ones (configuration, logs, PRD tools, setup, templates, sandbox,
tracing, notifications, rendering) keep no state whose interleavings matter;
`PROJECT.json` lists every component with its status.

### Hard behaviours, and what makes each component correct

- **Lock.** Between the read of a lock, the liveness test, the unlink and the
  exclusive creation lie awaits, and sometimes a prompt. Releases unlink the
  path without looking whose file is there. Correct: no two live sessions in a
  repository; the creation admits only one; nobody loses a lock it has not
  given up.
- **Engine.** `stop`, `pause`, agent switches and remote interrupts come at
  any await. Retries recurse past the loop's head; rate-limit retries start a
  nested iteration whose predecessor's `finally` block then runs beside it.
  Correct: a stop ends the loop and starts nothing; a paused engine is quiet;
  skipped tasks stay skipped, completed ones completed, limited agents unused;
  iterations and retries are bounded; what the state names is what runs.
- **Parallel execution.** Merges go on after a conflict, so a later rollback
  may concern more than one task. Worktrees are reused by position, branches by
  task. The tracker, the counters, the session branch and the worktrees must
  tell one story whatever fails, though writes to the tracker may fail unnoticed. Correct: dependencies settle before
  dependents start; completed means merged; each task is counted once; stop
  and resume release everything that waits; an execution ends.
- **Session file.** `session.json` is replaced whole by saves that event handlers
  start and do not await; tracker and file are changed one after the other; a
  quit, a signal or a crash may come in between, and recovery then acts on what
  it finds. Correct: a completed task is not listed as active and not reopened;
  a quit sets back what was in progress, or still knows of it; work in progress is in
  the file or in a save on its way there.
- **JSON tracker.** Every update rewrites the file from a copy; reads take no
  lock and share the cache; merges of the executor restore the file around the
  tracker. Correct: an acknowledged completion is kept and seen; no update
  blocks those after it; nobody reads half a file but beside a write.
- **Remote connection.** Reconnects with backoff against late callbacks of the
  sockets they replace; the two ends notice a loss at different times; a refresh
  answer may be lost. Correct: one live socket and one reconnection, a client that
  is "connected" is authenticated, it gives up only after as many faults as it may retry, and a
  request does not wait on a connection that is gone.
- **Orchestration, tabs.** Handlers that re-read shared fields after an await:
  `orchestrationSession`, the selected tab, its client. An
  audit log that cannot be written, a request that fails and a second save while the
  first is awaited are part of it. Correct: one start and one execution at a time, none
  that outlives its client; a tab shows its own client, and the selected one its data.
- **Agent processes and conversations.** A process may ignore SIGTERM, be killed by
  others, or be interrupted before it exists; the reply of a first message comes
  through the awaited call, that of a retry by an event, with one pair of flags
  for two conversations. Correct: an interruption is not lost, a timeout can be
  answered, a reply is shown once, leaving leaves no agent behind.

## 2. The modules

| Module | Lines | Models |
|---|---|---|
| `SessionLock` | 270 | the lock file and the commands that use it, several processes |
| `ExecutionEngine` | 639 | one engine: loop, iteration, agents, user and remote calls |
| `TaskGraph` | 61 | Kahn's algorithm by levels and the decision to run in parallel |
| `TaskBoard` | 57 | abstract: what an execution may do with its tasks |
| `ParallelExecutor` (extends `TaskGraph`) | 647 | one execution: groups, batches, workers, merges, conflicts, git; implements `TaskBoard` |
| `SessionPersistence` | 664 | `session.json` under `run` and `resume`, with the tracker and an abstract engine |
| `JsonTracker` | 306 | `prd.json`: cache, write lock, torn reads, merges beside it |
| `ClientLifecycle` | 33 | abstract: the statuses a remote client promises and their liveness |
| `RemoteConnection` | 490 | a remote client and its server; implements `ClientLifecycle` |
| `RemoteOrchestration` | 280 | the parallel run a remote client starts on a server |
| `InstanceManager` | 379 | tabs over clients that behave as `ClientLifecycle` says |
| `AgentProcess` | 147 | one execution of an agent's command line |
| `ChatEngine` (extends `AgentProcess`) | 74 | a conversation with an agent |
| `PrdChatApp` (extends `ChatEngine`) | 276 | the PRD screen over two conversations |
| `MC...` | 6 to 23 | values and symmetries for TLC |

Proofs are in modules of their own, each an inductive invariant and the theorems that
follow from it (section 4):

| Module | Lines | About |
|---|---|---|
| `SessionLock_proofs` | 327 | who owns the lock file, and who leaves it alone |
| `ExecutionEngine_proofs` | 1283 | pauses, skipped tasks, limited agents, counts, completions |
| `ParallelExecutor_proofs` | 4691 | the groups of a graph, an execution that follows them, its end, and its refinement of `TaskBoard` |
| `SessionPersistence_proofs` | 2571 | what recovery and quits may rely on, and what the file lists |
| `JsonTracker_proofs` | 681 | completions in the file and in the cache |
| `RemoteConnection_proofs` | 1793 | both ends of a connection, and the steps of `ClientLifecycle` |
| `Remotes_proofs` | 1704 | the orchestration: one start, one execution; the tabs: their clients, their data, the selection |
| `PrdChatApp_proofs` | 617 | processes, conversations and the screen |

Operators whose comment begins "Mutant" or "As a bug", and the variants placed
just before the operator they vary (`CleanupKeepingHandlers`, `ForgetNothing`, ...),
are plausible mistakes in the code next to them. Nothing of the specification
uses them: each is substituted for the correct operator to see that a property
notices.

### SessionLock

`lock` is the file (present, its pid, whether its contents are written yet);
`pc[p]` is the await a process stands at; `seen[p]` is the pid it read last;
`unprotected` collects the processes whose lock was unlinked while they relied
on it (or that were forced past it). `Read`/`JudgeLock`/`PromptCleanStaleLock`/
`DeleteLockFile`/`TryWriteLockFile`/`WriteContents` are the steps of
`acquireLockWithPrompt`; `CleanStaleLock` and `AcquireLock` those of the second,
older implementation in `session/index.ts`, which `resume` and `run --resume`
use. `EndSession`, `ReleaseLock`, `ReleaseLockNew` and `Terminate` are the end
of a run: normal, second release, SIGTERM. `Crash` may come anywhere, and
`WriteFails` is the error path that unlinks the path. A pid is alive while its
process has not exited; pids are not reused.

### ExecutionEngine

`pc` is the await the loop is suspended at:

```
idle -> head -> (paused) -> (recovering) -> limits -> select
     -> activate -> prompt -> agent -> evaluate -> completing -> log -> finally
     -> settle -> record -> head
evaluate -> backoff  -> activate            (same agent again)
evaluate -> fallback -> activate            (next agent)
settle   -> retryDelay -> activate          (strategy "retry")
```

`RestartIteration` is `return this.runIteration(task)` in `try`/`finally`:
because the call is not awaited, the `finally` of the superseded attempt becomes
one of `cleanups`, and `SupersededCleanup` may run it at any later moment, though
always before the outer promise settles (`HandleResult` waits for all of them).
`GiveUpAgent`, `AllAgentsLimited`, `FallbackAvailable` and
`FallbackUnavailable` are `tryFallbackAgent`; `AttemptPrimaryAgentRecovery` the
test of the primary between iterations. The user's calls (`Stop`, `Pause`,
`Resume`, `AddIterations`, `RemoveIterations`, `SwitchToUserAgent`) and the
remote `Interrupt` with its later `ResetTaskToOpen` are enabled at every await.
`Reject` is an exception outside the try block of an iteration, which ends the loop
(`unkept` counts the completions the tracker refused or an interrupt took back).
`forcedTask` is worker mode, where the engine is given one task and leaves
completion in the tracker to the executor.

An agent run is reduced to its outcome: exit status, whether it said COMPLETE,
whether its output reports a rate limit. The tracker prefers its tasks in any
order. Whether calls may throw (`MayThrow`) and the tracker may refuse what it is told
(`TrackerMayFail`) are constants.

### TaskGraph and ParallelExecutor

`TaskGraph` computes the levels with a recursive function, in the same
decrement-and-collect manner as the code, and the tests that decide for or
against a parallel run. `ParallelExecutor` extends it: `pc` is the await of
`execute()`, nested as groups, batches, set-up of the workers one by one, the
wait for all of them, phase 1 (a merge per task in batch order), phase 2 (the
conflicts in order), the requeued tasks, and cleanup. A commit of the session
branch (`head`) is the set of tasks whose work it contains; `base[t]` is the
commit the branch of `t` was created from, and `backupTag[t]` the commit its
merge began at. A merge fast-forwards when `head = base[t]`, else it merges,
conflicts or fails as git likes. `ResolutionRefused` resets to the backup tag.
`worktrees` holds directory slots by group and place in the batch, and
`AcquireWorktree` has the code's two ways with what is in the way: the same
slot is removed, and a branch that another slot has checked out makes the call
throw. A worker is a status and an outcome; what goes on inside is
`ExecutionEngine` in worker mode. `SetTracker` is every write to the tracker: the code
swallows what it refuses or throws and goes on as if it had been made, so `asked[t]` is what
the executor told the tracker, `tracker[t]` what it has, and `unsaved` the tasks whose last
write did not take effect. `Refusable` are the tasks whose writes may be refused, and
`resolves` is `aiConflictResolution`, without which a conflict is handled like any other
failed merge.

`TaskBoard` is what all of that amounts to for whoever handed over the tasks: each is
waiting, taken, completed or dropped. It is taken when what it depends on is completed or
dropped, comes back at most `MaxRequeueCount` times without being completed, and is left
alone once completed or dropped; a stop or an exception withdraws waiting tasks, any
number at once. `BoardStatus` is the refinement mapping. What the executor
told the tracker gives "completed" and "taken"; an open task is waiting as long as it is on a list that `execute()` will still
come to (`Remaining`: a later group, the rest of the group or of the batch, the
retries), and dropped after that.

### SessionPersistence

A process runs one command (`run` or `resume`, with the terminal interface or
headless) from its first look at the file to its exit; `pc` is the await it stands
at. `file` is `session.json`, reduced to status, active and completed tasks; `mem[p]`
the state the command holds; `pending[p]` the saves that event handlers started
(`SaveLater`) and that land in any order (`SaveLands`), while `Write` is a save that
is awaited. `tracker[t]` is open, completed, or the process that has it in progress.
The engine is reduced to the phases the session hears of: activated, agent at
work, completed in the tracker, reported, paused; `totalTasks` is kept because the
decision to delete the session rests on it. `Quit` is the graceful shutdown or the
signal handler; `Crash` ends a process anywhere. `found[p]` is the session that
`detectAndRecoverStaleSession` read, kept until some session begins. Setting a task back may
fail in two ways (`ResetsMayFail`): an answer that says so is counted as a success by
`resetTasksToOpen`, an exception is swallowed and not counted; `reset[p]` holds whether a
reset was counted and which tasks were not set back. The shutdown forgets its active tasks
if any reset was counted (`ResetDone`), the recovery in any case (`Recovered`). A process is `Busy`
while it is in a session or has saves that are still to land. `disturbed` records that
a save overtook an older one, or that a process wrote the file or set tasks back while
another was busy, or on a copy of the file that was out of date; `exposed` the tasks
a killed process left completed but saved as active: the properties say what
holds otherwise.

### JsonTracker

The unit is the code between two awaits of one update (`Invalidate`, `ReadFile`,
`ChangeStory`, `Truncate`, `WriteFile`, `Succeed`) and of one read. `writeFile` is two
steps, so that a read in between finds the file torn. `queue` is the chain of
promises of `withWriteLock`. `SaveTrackerState`, `GitMerges` and `RestoreTrackerState`
are the merge of the parallel executor, which takes no part in the lock. The
cache carries, for the property, whether it was filled from the file as it was
(`sound`). A content is the set of stories that pass; `in_progress` is not persisted
by this tracker.

### RemoteConnection and ClientLifecycle

`client` has the fields of the `RemoteClient`; `link[s]` is a socket with the messages
under way in both directions; `peer[s]` is the server's record of it. The server
takes messages in order and awaits only `validateServerToken`
(`HandleServerToken`, `ServerTokenValidated`). Either end learns of a lost connection
when it does (`NoticesClose`, `ServerCloses`), so a client may have come back on a
second socket before the server has revoked the tokens of the first. Tokens
expire, are refreshed and revoked; the server may restart; its own token may be
rotated. Sockets and token values are reused when nothing refers to them,
so the behaviours are unbounded although the values are few.

`ClientLifecycle` is the specification a client's owner needs: four statuses, seven
steps, and that connecting and reconnecting end. `ImplementsLifecycle` (a
refinement with `status <- client.status`) shows that `RemoteConnection` implements
it, liveness included; `InstanceManager` uses its steps for every tab's client
instead of the whole connection.

### RemoteOrchestration

Each `orchestrate:*` handler of the server is cut at its awaits, several may be
under way, and `Close` is the close handler that stops an orchestration of the client
that leaves. The execution is started, paused, stopped and ends; what goes on
inside is `ParallelExecutor`. After the await of the audit log a start either executes
(`Executes`) or, if the log cannot be written, ends in the catch block, which releases the
guard and never executes (`LogFails`). `StopSettles` and `CloseSettles` read the session again
after their await, as the code does. `overlapped`, `guardLost` and `leftEarly` record
three situations in which the code does not keep its promise (section 5), and `orphaned`
the executions whose session was taken from them.

### InstanceManager

`tabs`, `selected`, the status each tab shows and the client it has; the saves of the
overlay, the selection, and `Render`. The overlay does not keep the user from sending a save
again, or from closing it and opening it anew, while one is awaited (`SubmitAdd`,
`SubmitChange`), so `saves` is a sequence of saves under way, each of which goes on
(`AddRemote`, `AddSettles`, `EditRemote`, `RenameRemote`, `AddRenamed`, `DeleteRemote`) or fails
at the configuration file (`SaveFails`) when its await ends. Two of them may give an alias two
tabs; lookups by alias find the first (`IndexOf`), and a second keeps the status it was made
with (`StatusOfTab`). `Render`: after every step the effect of `RunApp.tsx` compares its dependencies
(index, whether it is remote, status), runs the clean-up of the old effect and the body
of the new one, and thereby starts `fetchRemoteData`, whose two awaits are
`FetchState` and `FetchTasks`; either request may fail while the connection lives. `stale`
records that a failed request, a late answer or an unnoticed change of tab has left the screen
without the data of the selected tab, `deaf` that a failed subscription or such a change has
left it without its events.

### AgentProcess, ChatEngine, PrdChatApp

`exec[e]` is one execution: starting, running, exited with open pipes, ended, with
its timers and the way it ended. `chat[e]` is a conversation; its call awaits the
execution. The screen (`ui`) follows events and calls: `Timeouted`, `Failed` and
`Replied` are the event handler and what the awaiting caller does in the same turn;
`CallOver` is the caller's `finally`, which a retry does not have. `shown` counts how
often the last reply was put on the screen. `Other` is an execution of the run that
follows in the same process; it brings the interruptions, which no conversation
asks for. `crossed` records that a message was sent under a dialog, which only the
review view allows.

## 3. What is checked

Runs that must pass:

| Run | Configuration | Distinct states | Properties, and what they show |
|---|---|---|---|
| `lock_all` | 3 processes: an interactive run that may get SIGTERM, a `run --resume` whose writes may fail, a `resume --force`; all may crash; a stale lock at the start | 68,710 | `ProtectedHolderOwnsFile`, `SeenOwnerKeepsItsLock`: a holder nobody unlinked owns the file, and whoever read a live owner's pid does not remove that owner's file later on |
| `engine_loop` | strategies skip and retry, 2 tasks, 2 agents that end (the fallback may be undetectable), primary recovery, sequential and worker mode, everything may throw; stop, pause, resume, added and removed iterations | 579,179 | `PausedIsQuiet`, `SkippedNeverStarted`, `StopEndsLoop`, `LoopEnds`: a paused engine runs nothing, what was given up stays so, a stop ends the loop, and a bounded run that is not left paused ends |
| `engine_switch` | strategies retry and abort, 3 agents, 2 tasks, primary recovery, sequential and worker mode, a tracker that refuses completions and fails resets, everything may throw, also after COMPLETE; user switches, remote interrupts | 5,250,162 | `LimitedAgentNotRun`, `CompletionsMatchTracker` (no completion is counted twice, or without the tracker, but those it refused or an interrupt took back), `CompletedStaysCompleted` (two known ways reopen a task, and no other) |
| `parallel_all` | 3 tasks over three graphs (independent, dependent, with a cycle), 2 workers, 1 requeue, every outcome, with AI resolution (dependent and cyclic graph) and without, failing set-up, a task whose tracker writes may be refused; stop, pause, resume | 1,232,391 | `DependenciesHonoured` (a task starts after its dependencies are settled, on a commit that has those completed), `WorkersHaveTheirWorktree`, `CompletedIsMerged`, `AccountsAgree` (types, each task counted once, "completed" means all done, refused writes and given-up resolutions apart), `NoTaskLeftInProgress` (but for two known reasons), `ExecutionEnds` (which a merge requeued for ever, or a worker a stop misses, would break), `ImplementsTaskBoard` |
| `remote_all` | 1 client, 2 sockets, 4 token values, 1 request, 2 retries, 3 faults | 181,850 | `ConnectionInOrder` (one socket with handlers, one reconnection, its own attempts, no request without a connection), `EndsAgree` (connected means authenticated, the tokens agree), `GivesUpOnlyAfterFaults`, `ImplementsLifecycle` |
| `orchestration_all` | 2 connections, 2 orchestrations, audit logs that may fail | 165,725 | `StartsAreExclusive` (the guard belongs to one start, is never left behind, and there is no session while it is held, unless a failed log cleared it), `SessionIsItsExecution` (one execution nobody stopped; a session is taken from its execution only by overlapping stops or a failed log; the end that is reported is its own), `EndsWithItsClient` |
| `tabs_all` | 3 aliases, 2 of them configured, 2 saves of the overlay, 2 fetches under way; files, requests and subscriptions may fail | 685,325 | `TabsInOrder` (a tab shows its own client's status), `SelectedTabIsLive` (the selected tab has its data and events, or something named went wrong), `SelectionIsHonoured` (a selection stays on its tab and is connected in the end) |
| `session_all` | 2 processes of any of 4 commands, the first may crash; 2 tasks, 1 iteration each, 2 saves under way, resets that fail; symmetry in the tasks | 1,870,132 | `SessionCanBeRecovered` (no completed task is listed as active, a live session has a resumable file), `QuitSetsBack` (what the process has in progress is active, and after a quit set back, unless the tracker failed), `WorkInProgressIsListed` (a task in progress is in the file or in a save on its way), `OnlyUnrecordedWorkIsRedone` |
| `tracker_all` | 2 updaters, 1 reader, 1 merge; 2 tasks, completed or set back | 478,567 | `FileKeepsCompletions` (acknowledged completions are in the file, which is torn only beside a write), `CompletionsAreSeen`, `WritersProceed` |
| `chat_all` | 2 conversations, 1 other execution, a timeout | 523,738 | `InterruptIsReported`, `TimeoutIsReal`, `ReplyShownOnce`, `TimeoutCanBeAnswered`, `BusyMeansWork` (the screen is busy while an agent works, and leaving it leaves none), `WorkEnds` (what was told to stop, and every message with a timeout, ends) |

A property that says several related things is a conjunction of named parts in its
module; each part has its comment there. The type invariants of `SessionLock`,
`ExecutionEngine` and `PrdChatApp` are proved and not run on their own (section 4); those
of the other modules are conjuncts of a property above.

Two runs must find a violation, each of a sentence in the code (section 5):
`session_deleted_early` and `engine_recovery`.

### Bounds, and why they suffice

- *Processes (3).* One to hold, one to unlink, one to be let in: the shortest
  overlap trace needs exactly these. Each runs one command.
- *Tasks of the engine (2), agents (2 or 3).* A task to give up and one to go on
  with; an active agent, a fallback, and a third the user can switch to.
- *MaxRetries, RateLimitRetries (1).* A retry and an exhausted retry both occur.
- *MaxIterations 1 or 2, cap one more.* The limit is reached, raised and lowered; the cap
  bounds only the user's calls. Since retries bypass the limit, `iter` may exceed
  it; it is bounded by the retry counters.
- *MaxCleanups (1 or 2).* With that many `finally` blocks outstanding a further restart
  waits until one of them has run. One is enough for a block that is late by a whole
  attempt, two for blocks that overtake each other; the theorems hold for every value.
- *Parallel: 3 tasks, 2 workers.* Three is the least `shouldRunParallel`
  accepts. With two workers a group needs a second batch, so slots are reused;
  one requeue gives the retry and the exhausted retry. `Refusable` is one task, so that the
  accounts of the others are checked beside it; conflicts are resolved in the dependent and the
  cyclic graph and not in the independent one. The theorems hold for any choice.
- *Remote: 2 sockets, 2 retries, 3 faults.* A new connection beside the server's
  memory of the old one; a series of retries that ends and one that does not; one
  fault more than is needed to give up, so that a series can follow a success.
  Four tokens: client, server, and one each on its way.
- *Orchestration: 2 clients, 2 ids, any number of failing logs.* Two handlers of different clients, or start and
  stop of one, can interleave; a second session can follow the first.
- *Tabs: 3 aliases, 2 configured.* One to add; a tab before, at and behind the
  selected one to delete. Two saves (`MaxSaves`), of any kind, can overtake each other and give
  an alias two tabs. The user acts while fewer than `MaxFetches` fetches are
  under way, so a fetch of another tab can be late.
- *Session: 2 processes, one iteration.* A command and the one that recovers or
  resumes after it, or runs beside it. Two saves under way can change places, and
  with two tasks one reset may fail and the other be counted. An
  iteration takes one task, which leaves one open.
- *Tracker: 2 updaters, 2 tasks.* One waits for the other; an update can be lost only
  by another of a different task. A merge and an update beside it occur.
- *Chat.* Conversations are the two the screen has; the timeout is on in the run
  (without it there is less to check) and a parameter of the theorems.
- Counters in the proofs are not bounded; the theorems hold for all constants.

### Fairness

`ExecutionEngine!FairSpec` has weak fairness of what happens without anyone's
doing: the loop's own steps (`LoopStep`: promises of I/O and timers settle), the
pause poll (every 100 ms), superseded `finally` blocks, and the end of an interrupted
agent (`base.ts` sends SIGTERM, then SIGKILL). The end of an agent that was not
interrupted is a separate assumption in `AgentsEndSpec`: the default
configuration has no timeout, so an agent may hang, and every liveness property of
the engine is checked under the assumption that it does not. No user call is
fair. Without that assumption `StopEndsLoop` is false: a stop that came before
`execute` has nothing to interrupt (section 5). User switches are left out of that run:
each one clears the set of limited agents, so that a user who switches for ever keeps an
iteration going between two limited agents; interrupts act on the loop as stops do.

`ParallelExecutor!FairSpec` has weak fairness of the steps of `execute()` and of
the end of workers that are not paused. Stop and resume are the user's:
`ExecutionEnds` assumes that the execution is not left paused, since a pause may
come even after the stop.

`RemoteConnection!FairSpec` has weak fairness of the client's reconnection timer, of
the delivery of events and messages, and of the server's handlers; tokens do
expire. Calls of the owner, faults and the rotation are not fair: a client is not
assumed to be left in peace, only not to be broken for ever (`MaxFaults`).
`RemoteOrchestration!FairSpec` lets handlers go on and an execution that is not paused
end (`ParallelExecutor!ExecutionEnds`); it uses weak fairness, so an execution that
is paused and resumed for ever need not end. `InstanceManager!TabsFairSpec` has the
answers to fetches and the end of connecting, which is what `ClientLifecycle`
promises. `JsonTracker!FairSpec` lets an update's own awaits end; readers and merges
are not fair. `PrdChatApp!FairSpec` has the timers, SIGKILL, the closing of pipes and
the resumption of awaits; that an agent ends by itself is not assumed, and no key is
fair. Pipes close in the end only if no descendant of the killed agent keeps them open;
the code relies on that ("'close' should fire after 'exit' once stdio streams
are closed", `base.ts:761`).

Deadlock is checked in the runs of the engine and of the tracker, where `Start` is
possible again once the loop is over, or an update once the last has ended. It is
not in the others: there processes exit, `execute()` returns, all clients are gone, or
the user may leave the screen, so the system really stops. That the executor does
not stop *earlier* is `ExecutionEnds`.

## 4. What is proved

`tlapm` checks every proof to the last leaf; there is nothing assumed but the
named assumptions about constants, which TLC also evaluates, and in
`CountsMatchTracker` the finiteness of the set of tasks. The inductive invariant of
every module was first checked by TLC in the module's run.

**SessionLock** (`LockAssumption`). `LockInvariant: Spec => []IInv`, where
`IInv` is the type invariant, `ResumePath` (a process started as `resume` is
only at the labels its own command passes, which is what makes `HoldsAt` mean
the right thing) and `ProtectedHolderOwnsFile`. The steps the commands are built from have
lemmas of their own (`MoveKeeps`, `ReadKeeps`, `UnlinkKeeps`, `OpenKeeps`,
`WriteKeeps`), and the induction step cites them per action. From it
- `LockTypeOK`,
- `HolderOwnsFile`: `[]ProtectedHolderOwnsFile`,
- `SeenOwnerIsLeftAlone`: the action property `SeenOwnerKeepsItsLock`. The steps that unlink
  the path are reached from a pid that was read only if its process was dead then, and a dead
  one stays dead; those of a process's own end are reached only by one that holds a file.

for any number of processes, any mix of commands, crashes and signals.

**ExecutionEngine** (`EngineAssumption`). `Invariance: Spec => []IInv`, where
`IInv` adds to the types where the loop may stand when something else holds:
an agent runs at one await only, the loop passes its head only when no `finally`
block is outstanding, a paused status implies the pause poll, the task in hand
has not been given up, a worker that skipped its task has marked it processed.
The last two are what `SkippedNeverStarted` needs: retries, backoffs and fallbacks
restart the task in hand without asking `skippedTasks`. From it
- `EngineTypeOK`,
- `PauseIsQuiet`: `[]PausedIsQuiet`,
- `SkippedStaysSkipped`: the action property `SkippedNeverStarted`,
- `LimitedAgentIsNotRun`: `[]LimitedAgentNotRun`, by a second invariant on top:
  outside `tryFallbackAgent` the engine's agent is not limited, and inside it
  the candidate is not (`LimitInv`, with a lemma about `getNextFallbackAgent`),
- `CompletionLeftToExecutor`: `[]WorkerNeverCompletes`,
- `CountsMatchTracker`: `[]CompletionsMatchTracker`, for finitely many tasks. `CountInv` counts
  the completed tasks without the one in hand, which a retry may have reopened, so that
  counting it when its iteration is settled cannot count it twice; what the tracker refused, or
  an interrupt took back, `unkept` accounts for,
- `CompletedIsFinal`: the action property `CompletedStaysCompleted`. The task in hand is not
  completed before `completeTask`, unless its retries are being counted (`TaskIsOpen`).

These hold for any tasks, agents, fallback lists, limits, strategy, user calls
and failures, with every number of pending `finally` blocks, interrupts, user switches and
the recovery of the primary included. That the status names the agent that runs is not
among them: it does not, as the run `engine_recovery` shows.

**TaskGraph and ParallelExecutor** (`TaskGraphAssumption`, `ParallelAssumption`). Of the
groups `analyzeTaskGraph` makes, for every graph over finitely many tasks:
- `GroupsInOrder`: no task is in two groups or twice in one, and each dependency of a
  task in a group is in an earlier one;
- `GroupsAreTight`: a task that is not in the first group depends on one of the group just
  before it, so that with `GroupsInOrder` a task's group is the length of its longest chain of
  dependencies, and no task waits for a group it need not;
- `LeftOutWaits`: a task that no group has depends on one that no group has, so that
  only cycles and what hangs on them are left out.

The levels are a recursive function, whose facts are proved without an induction
theorem: the first level at which one fails would be the least element of a set of
numbers (`Least`), and the recursion equation refutes it there. Of the execution,
`Invariant: Spec => []IInv`. `IInv` says where each task is at each await: in the
plan (`PlanInv`), in exactly one of the pending tasks, the batch, the conflicts and the retries
(`ListsInv`), what the tracker and the counters have of it then (`TrackerInv`, `CountInv`),
what its worker does (`WorkerInv`), which slot and branch it has (`WorktreeInv`), which
commit the branch started from (`BaseInv`), which merges are marked how
(`MergeInv`: a refusal is not forgotten), and that the tracker has what it was told but for the
tasks in `unsaved` (`RecordInv`). The properties need one another's parts: that a
dependent starts from its dependencies' work takes that what is completed is
merged, and that takes that nothing is completed while it waits to be merged. From it
- `DependenciesAreHonoured`: `[]DependenciesHonoured`,
- `WorktreesAreTheirOwn`: `[]WorkersHaveTheirWorktree`,
- `CompletedWorkIsMerged`: `[]CompletedIsMerged`,
- `AccountsAlwaysAgree`: `[]AccountsAgree`,
- `NoTaskStaysInProgress`: `[]NoTaskLeftInProgress`,
- `ImplementsBoard`: `Spec => ImplementsTaskBoard`. What remains was told to be open
  (`RemainingIsOpen`), so a step that leaves the tracker alone can only withdraw
  (`NothingTaken`); the others change one task (`OneTaskChanges`). Setting up a worker is
  `Take`, since `DependenciesAreHonoured` has its reason in `IInv`: what the task depends on is
  in an earlier group, of which nothing is on a list (`InitializeTakes`). For the rest
  `TrackerInv` had to say exactly which tasks are in progress at each await,

for any tasks, graphs, number of workers and requeues, outcomes of agents and merges,
failures of the set-up and of the tracker, with and without AI resolution, and calls of the
user. And of the loop itself:
- `ExecutionWearsOut`: `Left`, what is left of an execution, is a tuple of four numbers:
  groups, retries (for each task that is not completed, its unused requeues), batches with the
  stages of the current one, and the steps of the stage. In its lexicographic order (`Less`,
  which is well-founded) every step of the executor and every end of a worker lowers it,
  and the user's calls leave it alone. So an execution takes finitely many steps of its
  own whatever fails and however the calls fall: a merge that fails costs a retry before
  it adds a batch (`FailureWears`), and completing a task, which resets its count,
  takes all of that task's retries out at once (`RetriesOfOne`).

**SessionPersistence** (`PersistenceAssumption`). `Invariant: Spec => []IInv`. One process
at a time begins or is in a session and one is busy (`OneAtATime`, `OneIsBusy`, the
latter while nothing is disturbed), and of each process: which command may be where
(`CommandInv`), how far its engine is and what the tracker has of the task in hand
(`EngineInv`, `WorkInv`), that what it has in progress is in its memory, or after the quit
is a task whose reset failed (`OwnInv`), that memory, saves under way and file can be
resumed (`ResumableInv`), that the last save under way, or else the file, lists
the tasks that the memory lists (`LastSaveInv`), that the memory lists nothing completed
but what was just completed (`MemoryInv`), and that what a recovery works on was not
completed meanwhile (`RecoveryInv`). The file is behind the memory by exactly the
saves under way, so `CompletedIsNotListed` is not inductive without `LastSaveInv` and
`MemoryInv`. Since a step is one process's, one lemma says what the others keep
(`Frame`), and every action is only proved for the process that takes it. From it
- `Recoverable`: `[]SessionCanBeRecovered`,
- `SetBack`: `[]QuitSetsBack`,
- `Listed`: `[]WorkInProgressIsListed`, from `OwnInv` and `LastSaveInv`: what is in progress is in
  the memory, and what is in the memory in the last save or the file,
- `NothingRecordedIsRedone`: the action property `OnlyUnrecordedWorkIsRedone`,

for any number of processes, tasks, iterations and saves under way, and any mix of
commands and crashes. The proof would not go through at first: a headless
`resume` gives its lock back before its last saves have landed, so that another command
can begin beside them. `disturbed` therefore counts a process with saves still to
land as busy, and section 5 names the behaviour.

**JsonTracker** (`TrackerAssumption`). `Invariant: Spec => []IInv`. Only the head of the
queue is past the wait (`LockInv`); what an update has read and changed (`BufferInv`);
what its copy has to do with the file and the acknowledged completions at each of
its awaits (`UpdateInv`); and what a merge saved and is going to write back
(`MergeInv`). From it
- `CompletionsStayInFile`: `[]FileKeepsCompletions`,
- `CompletionsStayInCache`: `[]CompletionsAreSeen`,

for any number of tasks, updates and readers, beside a merge.

**RemoteConnection and ClientLifecycle** (`RemoteConnectionAssumption`). `Invariant: Spec
=> []IInv`. `IInv` adds to the types the client's fields (`ClientInv`: the handlers and the
timer that go with a status), the stage of the connection that the client uses, with
the messages that may be on their way in either direction at each (`StageInv`: a
client that hears `auth_ok` is authenticated because the server sent it and has not
closed), and what the attempts have cost (`FaultsCounted`). From it
- `ClientStaysInOrder`: `[]ConnectionInOrder`,
- `EndsStayAgreed`: `[]EndsAgree`,
- `RetriesAreNotWasted`: the action property `GivesUpOnlyAfterFaults`,
- `ClientTakesLifecycleSteps`: `Lifecycle!Steps`, which is the refinement without its
  fairness: `Init` maps to `Init` and every step to a step of `ClientLifecycle` or a stutter,

for any number of sockets, tokens, requests, retries and faults.

**AgentProcess, ChatEngine, PrdChatApp** (`PrdChatAssumption`,
`ChatAssumption`). `Invariant: Spec => []IInv`. To the types `IInv` adds what ties the three
levels together: what a process may report once it has ended, from who signalled it and
when (`ProcessInv`: an interruption that came before the process existed is remembered by
a flag); that a conversation is processing exactly while its execution is there
(`ConversationInv`); and when the screen is busy, has a dialog, and whose dialog it is
(`ScreenInv`). The busy screen and the dialog support each other: keys are taken only
while no agent works, so a second message cannot be sent; messages are not sent
beside a dialog, so the two flags of a retry belong to the conversation that waits. None
of the properties is inductive without the others. From it
- `TypeCorrect`,
- `InterruptionIsReported`: `[]InterruptIsReported`,
- `ReportedTimeoutIsReal`: `[]TimeoutIsReal`,
- `RepliesAreShownOnce`: `[]ReplyShownOnce`,
- `WaitingHasItsDialog`: `[]TimeoutCanBeAnswered`,
- `BusyScreenMeansWork`: `[]BusyMeansWork`,

with or without a timeout and with any other executions in the same process.

**RemoteOrchestration** (`RemoteOrchestrationAssumption`: the values for "nobody" and
"no id" are neither). `Invariant: Spec => []IInv`. `IInv` adds what is known at the
awaits of the handlers: a start that writes its log has made an executor of its own that
waits to be executed (`StartInv`); as long as no failed log took another's guard, the server
listens to the executor of its session only (`HeardInv`); and as long as no two stops
overlapped either, one handler at most awaits
a stop, namely that of the session's executor (`AwaitInv`), so what it drops after the
await is what it stopped. From it
- `OneStartAtATime`: `[]StartsAreExclusive`,
- `SessionStandsForExecution`: `[]SessionIsItsExecution`,

for any number of connections and orchestrations.

**InstanceManager** (`InstanceManagerAssumption`: no alias is configured twice, and the
values for the local tab and for "nobody" are no aliases). `TabsInOrder` is inductive:
each call leaves tabs, selection, clients and statuses in order (`InOrder`), and what the
effect then does (`Render`) touches none of them. `SelectedTabIsLive` speaks of the end
of the fetches only; `LiveInv` adds how it comes about: while the selected tab is
connected, either its state is asked for, or it is on the screen or the fields are stale, and
the tasks are asked for or the client is subscribed or the tab deaf. `TabsInvHolds: TabsSpec =>
[]TabsInv` has both. From it
- `TabsStayInOrder`: `[]TabsInOrder`,
- `TheSelectedTabIsLive`: `[]SelectedTabIsLive`,
- `SelectionStaysOnItsTab`: the action property `SelectionFollowsItsTab`, the safety part of
  `SelectionIsHonoured`,

for any remotes, configured or added, any number of saves under way and tabs of one alias,
with or without a local tab. The proof of
`RenderKeepsLive` shows which comparison the code relies on: a render whose
dependencies did not change is harmless only while the selected tab is the same one, which
is the hazard that `stale` records.

**Only model-checked.** Liveness, since fairness and ENABLED are out of the prover's
reach: `StopEndsLoop`, `LoopEnds`, `ExecutionEnds`, `EndsWithItsClient`, `SelectionIsHonoured`,
`WritersProceed`, `WorkEnds`, and of `ImplementsLifecycle` the fairness. `ExecutionWearsOut`
is half of `ExecutionEnds`; that a next step is enabled and is taken is the other. Every safety
property that a run checks has its theorem. What a recursive definition computes for every input would need induction
over data, which the prover cannot do; the levels of `TaskGraph` are proved about as
described above.

## 5. Where the code and its documentation disagree

Shown by a run (`PROJECT.json`, findings):

- `session_deleted_early`: after each completed task `refreshTasks`
  (`engine/index.ts:423-437`) sets `state.totalTasks` to the number of tasks that are
  *left*. `isSessionComplete` (`run.tsx:167-173`, called at 4358) compares it with the
  number completed and is true after half of the work: the session file is deleted
  and the registry entry removed. `run.tsx:4356`: "Check if all tasks completed
  successfully".
- `engine_recovery`: `attemptPrimaryAgentRecovery` reads the primary before its test and uses
  it afterwards (`engine/index.ts:2009`, `2075`). When the user switches agents during the
  test, the status names the old primary and the engine runs the user's agent.
  `engine/types.ts:717-718`: "Currently active agent state. Tracks which agent is running and
  why (primary or fallback)."

Met while modelling. The behaviours are in the models unless said otherwise; a
property that a behaviour would break names it as its exception:

- *Lock.* Stale locks are judged on old contents (`lock.ts:304`, `318`), so two
  starters may both remove and one removes the other's fresh lock. A run releases
  its lock twice at the end (`run.tsx:4423-4424`); a release unlinks whatever is at the
  path, the second time possibly the lock of the next run, against "Prevents
  concurrent runs in the same git repository" (`lock.ts:3`). `run --resume` takes the lock through `lock.ts`
  (`run.tsx:3645`) and again through `index.ts` (`run.tsx:3665`), and is refused by its own
  pid. On SIGTERM the lock is released while the session is still shutting down
  (`lock.ts:368`). A crash between creation and write leaves a file that no command,
  `--force` included, removes (`lock.ts:118`, `160`).
- *Engine.* `stop()` between selection and `execute` has no execution to interrupt, and
  the agent is started all the same (`index.ts:1131`, `1481`); no property says
  otherwise, and `StopEndsLoop` only that the loop ends after it. After a rate-limit retry the
  `finally` block of the first attempt clears `currentTask` and `currentExecution` of the
  second (`index.ts:1280`, `1463-1474`). Under strategy retry an agent that says
  COMPLETE and then fails has its completed task run again (`index.ts:982`, `1353`).
  A remote interrupt resets the task that was current, even if it was
  completed meanwhile (`remote/server.ts:983`). `CompletedStaysCompleted` names these two
  ways and no other. Retries bypass `maxIterations`
  (`index.ts:780`, against `config/types.ts:373`); `removeIterations` can then raise the
  maximum (`index.ts:1607`). When all agents are limited the engine asks for a pause, but
  strategy retry reruns the task before it takes effect (`index.ts:1307`). A pending user switch may be applied in the middle of
  a run, by a superseded `finally` block (`index.ts:1472`). `completeTask`
  returning `success: false` is ignored (`index.ts:1353`): the task is counted and reported
  as completed, is not, and is taken up again; `CompletionsMatchTracker` counts these
  (`unkept`). A tracker whose tasks cannot be read makes `start()` reject and leaves the engine
  "running" without a loop (`index.ts:518`).
  `stop()` on an idle engine leaves it "stopping", and `start()` throws.
- *Parallel.* Dependents run although a dependency failed, against
  `task-dependencies.mdx:16`; `DependenciesSettledFirst` says what does hold. Giving up a
  conflict resets the branch past merges of other tasks that are already completed in
  the tracker (`conflict-resolver.ts:351`, against `merge-and-conflicts.mdx:8`);
  `CompletedIsMerged` holds while none is given up. A requeued task whose branch is
  still checked out in its old worktree makes the whole execution fail
  (`worktree-manager.ts:157`, `382`, against `merge-and-conflicts.mdx:76`).
  `--parallel` with two actionable tasks reports "completed" with nothing run
  (`index.ts:300`). A stop during the set-up of a batch misses the workers
  created later (`index.ts:386`); a pause then has no effect on them. Resuming after
  the end overwrites the final status. A stop reopens finished work that is not merged yet
  (`index.ts:548`, against `how-it-works.mdx`). Commits an agent made itself
  are not counted, and the branch of such an incomplete task is deleted. A later
  batch removes the worktree kept for recovery of an earlier one
  (`index.ts:97-101`). An exception in the set-up leaves tasks in_progress.
  Writes to the tracker that are refused or throw are swallowed (`index.ts:571-575`, `665-669`,
  `771-775`, `847-853`, "Log but don't fail after successful merge", "Best effort"): a task is
  then counted and merged but not completed in the tracker, or given up and left in_progress;
  `AccountsAgree` and `NoTaskLeftInProgress` name it (`unsaved`).

- *Session.* Saves that were started and not awaited may land out of order, and a signal
  handler that exits drops those under way. Quitting a `resume` sets "interrupted" and
  leaves its active tasks, which recovery, looking for "running", never sets back
  (`resume.tsx:413-449`, against `resume.mdx:141-150`). `resume` saves the copy it read
  before the recovery (`resume.tsx:648`). The headless shutdown does not stop the engine
  (`run.tsx:3262`), so a task it sets back may just have been completed, against
  "Completed tasks remain completed" (`resume.mdx:136`). A shutdown forgets all
  its active tasks as soon as one reset is counted (`run.tsx:2277-2280`), and an answer that
  says the reset failed is counted like a success (`engine/index.ts:1728-1745`): tasks that were
  not set back stay in progress and are in no list. Only if every reset throws are they kept.
  The recovery clears the list whatever became of the resets (`persistence.ts:631-644`).
  `QuitSetsBack` says which tasks are left so, and no others. A headless `resume` gives its lock back
  (`resume.tsx:511-518`) before its last saves have landed (`753-777`): a command that
  starts in between recovers from the older file and reopens tasks that were completed,
  or has its file replaced; `disturbed` counts it. `detectAndHandleStaleTasks`
  (`run.tsx:1439-1563`) never acts, because the process holds the lock itself by then.
- *Tracker.* A merge writes `prd.json` back without the write lock, undoing updates in
  between (`parallel/index.ts:1075`). A read may fill the cache with what it read before an
  update, once the update has ended. A write that fails leaves the changed
  story in the cache. An unreadable file is an empty list of tasks, of which `isComplete`
  is true (`json/index.ts:427`).
- *Remote connection.* The late close of an old connection revokes a token in use
  (`server.ts:513`). A close during the validation of the server token leaves a token of a
  client that is gone (`server.ts:1836`). A socket opened by a reconnect has no case for
  `token_refresh_response` (`client.ts:1109`), so the server replaces the token and the client
  keeps the old one, against `token.ts:5`; after a reconnect with a connection token there
  is no refresh timer at all. `TokenAgreed` is therefore stated of sockets that
  `connect()` opened. Not in the model: `connect()` also goes on while reconnecting
  (`client.ts:268`), beside the socket of an attempt that is under way; its owner calls it then
  only for an alias with two tabs (below). The promise of `connect()` never settles when
  `disconnect()` comes, or the server closes cleanly, while it is connecting
  (`client.ts:308`); a pong that does not come is not noticed.
- *Orchestration.* Two stops that overlap: the second drops the session of a start that
  came in between (`server.ts:1717`). An owner that leaves during its start leaves a session
  that nobody can clear (`server.ts:516`). When the audit log of a start cannot be written
  (`server.ts:1632`), the catch block clears `orchestrationStarting` (`1646-1647`), which the start
  has released before and which may be another start's by then, against "Set the starting guard
  before any async operations to prevent concurrent starts" (`server.ts:1466`); the session it
  made stays "running" and is never executed. A resume after the end sets "running".
- *Tabs.* A fetch that ends late puts its tab's data on the screen of another
  (`instance-manager.ts:443`). When the selected tab is deleted and the one that takes its
  place has the same status, the effect does not run again (`RunApp.tsx:1105`). The overlay
  ignores `saving` on Enter and can be closed while it saves
  (`RemoteManagementOverlay.tsx:267-274`): a second save may give an alias two tabs, of which the
  second shows "disconnected" and gets no data. A fetch or a subscription that fails while the
  client stays connected is swallowed and not repeated (`client.ts:496-498`, `544`,
  `instance-manager.ts:479-489`).
- *PRD screen.* After a retry that fails the screen stays busy (`PrdChatApp.tsx:550`). The
  review view does not show the dialogs, though their keys act and messages can be sent
  (`PrdChatApp.tsx:1288`). `maxRetries` (`chat/types.ts:53`) is nowhere enforced. A timed
  execution that is killed from outside is reported as a timeout (`base.ts:746`); an agent that
  handles SIGTERM and exits by a code is reported by that code. `isRunning()` is false
  until the process exists.

## 6. What is not modelled

- *Texts.* Prompts, the recognition of COMPLETE and of rate limits, wording of
  errors, log contents. Their results are outcomes of an agent run.
- *Time.* Delays, backoff and timeouts are awaits that end some time.
- *Git below the commit.* Which files conflict, the contents of merges, and the
  index; only which tasks' work a commit has.
- *Callers that do not exist.* `parallel/session.ts`, the TUI's retry and skip of
  a conflict (`RunApp.tsx:2294`), `rollbackSession`, `processAll`, the manager's `refresh()`,
  the chat engine's `reset()` and `interrupt()`.
- *Within the modelled components.* The executor's `reset()` and a second
  `execute()`, direct merge, subagent tracing, memory limits on output, the server's
  subscriptions and configuration pushes, `session-meta.json`.
- *Session registry.* An index for finding sessions from other directories, written at
  the start and the end of a command and cleaned against the files it points to. Its
  lock is taken over after 30 s whoever holds it (`registry.ts:153`), so a lost update is
  possible by design.
- *Interrupt handler.* Five states and a time window in one object without an await:
  unit tests reach all of it.
- *Command line trackers.* The state is in the tool; a plugin turns one call into one
  command.
- *Configuration, PRD tools, setup, templates, sandbox, tracing, notifications,
  rendering.* Parsing, text, and single reads and writes of files.

## 7. Plan

Done: every module of section 2, in the order of its first table, and the proofs of
their safety properties.

The registry with its lock takeover is the next component worth a model.

## 8. Running it

```
cd tla
tlc -config ParallelAll.cfg MCParallelExecutor.tla     # or any run of PROJECT.json
tlapm ExecutionEngine_proofs.tla
```

`PROJECT.json` names the module, configuration, properties and mutants of every
run, the source lines every definition stands for, and the hazards with the
properties that cover them.
