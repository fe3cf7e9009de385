-------------------------- MODULE ParallelExecutor --------------------------
(***************************************************************************)
(* One parallel execution: src/parallel/index.ts with the worktrees,         *)
(* workers, merge queue and conflict resolver it drives.  It runs the groups *)
(* of the task graph in order, a batch of workers at a time, then merges     *)
(* what they committed into the session branch, resolves conflicts, and puts *)
(* failed merges back into the group.                                        *)
(*                                                                         *)
(* An action is the code between two awaits; "pc" names the await.  The      *)
(* user's stop, pause and resume come at any of them.  A commit of the       *)
(* session branch is the set of tasks whose work it contains.                *)
(***************************************************************************)
EXTENDS TaskGraph

CONSTANTS
    Graphs,          \* the dependencies an execution may find
    MaxWorkers,      \* config.maxWorkers
    MaxRequeueCount, \* config.maxRequeueCount
    Outcomes,        \* what a worker may end with
    MergeOutcomes,   \* what git merge may do when it cannot fast-forward
    Resolutions,     \* what resolving a conflict may end with
    MayFailSetup,    \* disk checks and worker.initialize may throw
    Refusable,       \* tasks whose writes the tracker may refuse
    AiResolution,    \* what config.aiConflictResolution may be with each
    Calls,           \* the calls the user makes
    NoStatus

ASSUME ParallelAssumption ==
    /\ \A graph \in Graphs : graph \subseteq Task \X Task
    /\ MaxWorkers \in Nat \ {0} /\ MaxRequeueCount \in Nat
    /\ Outcomes \subseteq [status : {"done", "notDone", "failed"},
                           commits : BOOLEAN, counted : BOOLEAN]
    /\ MergeOutcomes \subseteq {"merged", "conflicted", "failed"}
    /\ Resolutions \subseteq {"resolved", "refused"}
    /\ MayFailSetup \in BOOLEAN /\ Refusable \subseteq Task
    /\ AiResolution \in [Graphs -> SUBSET BOOLEAN]
    /\ Calls \subseteq {"stop", "pause", "resume"}

VARIABLES
    graph,       \* the dependencies between the tasks
    resolves,    \* config.aiConflictResolution
    asked,       \* what execute() last asked the tracker to make of each task
    tracker,     \* status of each task in the tracker
    unsaved,     \* tasks for which that write failed
    pc,          \* the await execute() is suspended at
    groups,      \* taskGraph.groups
    groupIndex,  \* currentGroupIndex, from 1
    pending,     \* pendingTasks of the group
    batch,       \* the tasks of the batch
    index,       \* the task of the batch that is set up or merged
    worker,      \* the worker of each task, last attempt
    outcome,     \* its WorkerResult
    conflicts,   \* pendingConflicts of executeGroup
    retryTasks,
    requeueCounts,
    totalCompleted, totalFailed,
    status, shouldStop, paused,
    beforePause, \* statusBeforePause
    stopping,    \* whether a stop() waits for the workers' stop()
    head,        \* HEAD of the session branch
    base,        \* HEAD when the branch of each task was created
    backupTag,   \* HEAD when the last merge of each task began
    merges,      \* statuses of the merge operations of each task, in order
    branches,    \* tasks that have a ralph-parallel branch
    worktrees    \* worktrees on disk, by group and slot

userVars == <<shouldStop, paused, beforePause, stopping>>
planVars == <<graph, groups, resolves>>
trackerVars == <<asked, tracker, unsaved>>
groupVars == <<groupIndex, pending, batch, index>>
workerVars == <<worker, outcome>>
mergeVars == <<conflicts, retryTasks, requeueCounts, backupTag, merges>>
countVars == <<totalCompleted, totalFailed>>
gitVars == <<head, base, branches, worktrees>>
vars == <<planVars, trackerVars, pc, groupVars, workerVars, mergeVars, countVars,
          status, userVars, gitVars>>

WorkerStatus == {"none", "ready", "stopped", "running", "paused", "cancelled", "ended"}
Worktree == [group : Nat, slot : Nat, task : Task]
NoOutcome == [status |-> "failed", commits |-> FALSE, counted |-> FALSE]

TypeOK ==
    /\ graph \in Graphs
    /\ resolves \in BOOLEAN
    /\ asked \in [Task -> {"open", "in_progress", "completed"}]
    /\ tracker \in [Task -> {"open", "in_progress", "completed"}] /\ unsaved \subseteq Task
    /\ pc \in {"analyzing", "groups", "batches", "acquire", "initialize", "start",
               "working", "merge", "merging", "completing", "resolve", "resolving",
               "completingResolved", "cleanup", "done"}
    /\ groups \in Seq(Seq(Task)) /\ groupIndex \in Nat /\ index \in Nat
    /\ {pending, batch, conflicts, retryTasks} \subseteq Seq(Task)
    /\ worker \in [Task -> WorkerStatus]
    /\ outcome \in [Task -> [status : {"done", "notDone", "failed"},
                             commits : BOOLEAN, counted : BOOLEAN]]
    /\ requeueCounts \in [Task -> 0..MaxRequeueCount]
    /\ totalCompleted \in Nat /\ totalFailed \in Nat
    /\ status \in {"analyzing", "executing", "merging", "paused", "completed",
                   "interrupted", "failed"}
    /\ {shouldStop, paused, stopping} \subseteq BOOLEAN
    /\ beforePause \in {NoStatus, "analyzing", "executing", "merging", "paused",
                        "interrupted"}
    /\ head \subseteq Task /\ branches \subseteq Task
    /\ base \in [Task -> SUBSET Task] /\ backupTag \in [Task -> SUBSET Task]
    /\ merges \in [Task -> Seq({"completed", "conflicted", "failed", "rolled-back"})]
    /\ worktrees \subseteq Worktree

(* execute() has set the status and asked the tracker for the tasks.        *)
Init ==
    /\ graph \in Graphs
    /\ resolves \in AiResolution[graph]
    /\ asked = [t \in Task |-> "open"] /\ tracker = asked /\ unsaved = {}
    /\ pc = "analyzing" /\ groups = <<>> /\ groupIndex = 0
    /\ pending = <<>> /\ batch = <<>> /\ index = 0
    /\ worker = [t \in Task |-> "none"] /\ outcome = [t \in Task |-> NoOutcome]
    /\ conflicts = <<>> /\ retryTasks = <<>>
    /\ requeueCounts = [t \in Task |-> 0]
    /\ totalCompleted = 0 /\ totalFailed = 0
    /\ status = "analyzing" /\ shouldStop = FALSE /\ paused = FALSE
    /\ beforePause = NoStatus /\ stopping = FALSE
    /\ head = {} /\ branches = {} /\ worktrees = {}
    /\ base = [t \in Task |-> {}] /\ backupTag = [t \in Task |-> {}]
    /\ merges = [t \in Task |-> <<>>]

-----------------------------------------------------------------------------
(* The plan, the groups and their batches.                                  *)

(* With --parallel the caller asks only for a group of two, so that the      *)
(* fallback of execute() is reached: it reports "completed" and runs nothing. *)
Analyze ==
    /\ pc = "analyzing"
    /\ IF ShouldRunParallel(graph)
         THEN /\ groups' = [g \in 1..GroupCount(graph) |-> Group(graph, g)]
              /\ groupIndex' = 1
              /\ pc' = "groups"
              /\ UNCHANGED status
         ELSE /\ status' = "completed" /\ pc' = "cleanup"
              /\ UNCHANGED <<groups, groupIndex>>
    /\ UNCHANGED <<graph, resolves, trackerVars, pending, batch, index, workerVars, mergeVars,
                   countVars, userVars, gitVars>>

(* waitWhilePaused returns: stop() releases the waiters as resume() does.   *)
NotHeld == shouldStop \/ ~paused

Planned == UNION {{groups[g][i] : i \in DOMAIN groups[g]} : g \in DOMAIN groups}

FinalStatus ==
    IF shouldStop \/ totalCompleted < Cardinality(Planned) \/ totalFailed # 0
      THEN "interrupted" ELSE "completed"

NextGroup ==
    /\ pc = "groups"
    /\ IF shouldStop \/ groupIndex > Len(groups)
         THEN /\ status' = FinalStatus /\ pc' = "cleanup"
              /\ UNCHANGED pending
         ELSE /\ NotHeld
              /\ status' = "executing" /\ pc' = "batches"
              /\ pending' = groups[groupIndex]
    /\ UNCHANGED <<planVars, trackerVars, groupIndex, batch, index, workerVars, mergeVars,
                   countVars, userVars, gitVars>>

BatchSize == IF Len(pending) < MaxWorkers THEN Len(pending) ELSE MaxWorkers

NextBatch ==
    /\ pc = "batches"
    /\ IF shouldStop \/ pending = <<>>
         THEN /\ groupIndex' = groupIndex + 1 /\ pc' = "groups"
              /\ UNCHANGED <<pending, batch, index>>
         ELSE /\ NotHeld
              /\ batch' = SubSeq(pending, 1, BatchSize)
              /\ pending' = SubSeq(pending, BatchSize + 1, Len(pending))
              /\ index' = 1 /\ pc' = "acquire"
              /\ UNCHANGED groupIndex
    /\ UNCHANGED <<planVars, trackerVars, workerVars, mergeVars, countVars, status, userVars,
                   gitVars>>

-----------------------------------------------------------------------------
(* executeBatch: worktrees and workers one after the other, then all at once. *)

Current == batch[index]
InBatch == {batch[i] : i \in DOMAIN batch}

(* An exception in executeBatch leaves execute() through its catch block.    *)
ExecutionFails ==
    /\ status' = "failed" /\ pc' = "cleanup"
    /\ UNCHANGED <<trackerVars, index, workerVars>>

(* As a bug: the worktrees of the whole group removed. *)
WorktreesOfOtherGroups == {w \in worktrees : w.group # groupIndex}

(* The id of a worker is its place in the batch, so a later batch of the     *)
(* group removes the worktree of an earlier one.                             *)
OtherWorktrees == {w \in worktrees : w.group # groupIndex \/ w.slot # index}

(* git branch -D refuses a branch that another worktree has checked out, and *)
(* git worktree add -b then refuses the name.                                *)
CheckedOutElsewhere(t) == \E w \in OtherWorktrees : w.task = t

(* As a bug: the branch taken from the commit the session started at. *)
SessionStart == {}

(* git worktree add -b takes HEAD as the start point. *)
BranchPoint == head

AcquireWorktree ==
    /\ pc = "acquire"
    /\ worktrees' = OtherWorktrees \cup
         IF CheckedOutElsewhere(Current) THEN {}
         ELSE {[group |-> groupIndex, slot |-> index, task |-> Current]}
    /\ IF CheckedOutElsewhere(Current)
         THEN ExecutionFails /\ UNCHANGED <<branches, base>>
         ELSE /\ branches' = branches \cup {Current}
              /\ base' = [base EXCEPT ![Current] = BranchPoint]
              /\ pc' = "initialize"
              /\ UNCHANGED <<trackerVars, index, workerVars, status>>
    /\ UNCHANGED <<planVars, groupIndex, pending, batch, mergeVars, countVars, userVars, head>>

(* A write that is refused or throws is swallowed, and execute() goes on as  *)
(* if it had been made (updateTaskStatus, completeTask, resetTaskToOpen).    *)
SetTracker(t, value) ==
    /\ asked' = [asked EXCEPT ![t] = value]
    /\ \/ tracker' = [tracker EXCEPT ![t] = value] /\ unsaved' = unsaved \ {t}
       \/ t \in Refusable /\ unsaved' = unsaved \cup {t} /\ UNCHANGED tracker

(* worker.initialize, then updateTaskStatus.                                *)
InitializeWorker ==
    /\ pc = "initialize"
    /\ worker' = [worker EXCEPT ![Current] = "ready"]
    /\ outcome' = [outcome EXCEPT ![Current] = NoOutcome]
    /\ SetTracker(Current, "in_progress")
    /\ index' = index + 1
    /\ pc' = IF index = Len(batch) THEN "start" ELSE "acquire"
    /\ UNCHANGED <<planVars, groupIndex, pending, batch, mergeVars, countVars, status, userVars,
                   gitVars>>

(* Too little disk for a worktree, or an engine that does not initialize.    *)
SetupThrows ==
    /\ MayFailSetup /\ pc \in {"acquire", "initialize"}
    /\ ExecutionFails
    /\ UNCHANGED <<planVars, groupIndex, pending, batch, mergeVars, countVars, userVars,
                   gitVars>>

(* A worker that was stopped before it started fails: its engine is          *)
(* "stopping", and start() throws.                                           *)
StartWorkers ==
    /\ pc = "start"
    /\ worker' = [t \in Task |-> IF t \notin InBatch THEN worker[t]
                                 ELSE IF worker[t] = "ready" THEN "running" ELSE "ended"]
    /\ pc' = "working"
    /\ UNCHANGED <<planVars, trackerVars, groupVars, outcome, mergeVars, countVars, status,
                   userVars, gitVars>>

(* A worker whose stop() was called reports failure whatever its engine did. *)
WorkerEnds(t) ==
    /\ worker[t] \in {"running", "paused", "cancelled"}
    /\ worker' = [worker EXCEPT ![t] = "ended"]
    /\ \E result \in Outcomes :
         outcome' = [outcome EXCEPT ![t] =
           IF worker[t] = "cancelled" THEN [result EXCEPT !.status = "failed"] ELSE result]
    /\ UNCHANGED <<planVars, trackerVars, pc, groupVars, mergeVars, countVars, status, userVars,
                   gitVars>>

CollectResults ==
    /\ pc = "working" /\ \A t \in InBatch : worker[t] = "ended"
    /\ status' = "merging"
    /\ index' = 1 /\ retryTasks' = <<>> /\ conflicts' = <<>>
    /\ pc' = "merge"
    /\ UNCHANGED <<planVars, trackerVars, groupIndex, pending, batch, workerVars, requeueCounts,
                   backupTag, merges, countVars, userVars, gitVars>>

-----------------------------------------------------------------------------
(* Phase 1: one merge after the other.                                      *)

(* As a bug: the tracker not told. *)
GiveUpSilently(t) ==
    /\ totalFailed' = totalFailed + 1
    /\ UNCHANGED <<trackerVars, totalCompleted>>

(* The task is given up in this execution and reset to open. *)
GiveUp(t) ==
    /\ SetTracker(t, "open")
    /\ totalFailed' = totalFailed + 1
    /\ UNCHANGED totalCompleted

(* The worker did not complete the task, or a stop came: nothing is merged.  *)
DoNotMerge ==
    /\ pc = "merge" /\ index <= Len(batch)
    /\ shouldStop \/ outcome[Current].status # "done"
    /\ GiveUp(Current)
    /\ index' = index + 1
    /\ UNCHANGED <<planVars, pc, groupIndex, pending, batch, workerVars, mergeVars, status,
                   userVars, gitVars>>

(* The stop flag is read before the await of saveTrackerState.              *)
BeginMerge ==
    /\ pc = "merge" /\ index <= Len(batch)
    /\ ~shouldStop /\ outcome[Current].status = "done"
    /\ pc' = "merging"
    /\ UNCHANGED <<planVars, trackerVars, groupVars, workerVars, mergeVars, countVars, status,
                   userVars, gitVars>>

(* As a bug: one retry more. *)
RequeueLeftOnceMore(t) == requeueCounts[t] <= MaxRequeueCount

RequeueLeft(t) == requeueCounts[t] < MaxRequeueCount

(* handleMergeFailure, for the task of an operation that ends as mark.       *)
HandleMergeFailure(t, mark) ==
    /\ merges' = [merges EXCEPT ![t] = mark]
    /\ IF RequeueLeft(t)
         THEN /\ requeueCounts' = [requeueCounts EXCEPT ![t] = @ + 1]
              /\ retryTasks' = Append(retryTasks, t)
              /\ SetTracker(t, "open")
              /\ UNCHANGED countVars
         ELSE GiveUp(t) /\ UNCHANGED <<requeueCounts, retryTasks>>

Ahead(t) == outcome[t].commits /\ t \notin head
CanFastForward(t) == head = base[t]

Merged ==
    /\ Ahead(Current)
    /\ CanFastForward(Current) \/ "merged" \in MergeOutcomes
    /\ head' = head \cup {Current}
    /\ merges' = [merges EXCEPT ![Current] = Append(@, "completed")]
    /\ pc' = "completing"
    /\ UNCHANGED <<trackerVars, index, conflicts, retryTasks, requeueCounts, countVars>>

Conflicts == Ahead(Current) /\ ~CanFastForward(Current) /\ "conflicted" \in MergeOutcomes

(* The merge is aborted and reset to the tag; phase 2 takes it up again.     *)
Conflicted ==
    /\ Conflicts /\ resolves
    /\ merges' = [merges EXCEPT ![Current] = Append(@, "conflicted")]
    /\ conflicts' = Append(conflicts, Current)
    /\ index' = index + 1 /\ pc' = "merge"
    /\ UNCHANGED <<trackerVars, head, retryTasks, requeueCounts, countVars>>

(* No commits to merge, git fails without a conflict, or no conflict is to    *)
(* be resolved.                                                             *)
MergeFailed ==
    /\ \/ /\ ~Ahead(Current) \/ "failed" \in MergeOutcomes
          /\ HandleMergeFailure(Current, Append(merges[Current], "failed"))
       \/ /\ Conflicts /\ ~resolves
          /\ HandleMergeFailure(Current, Append(merges[Current], "rolled-back"))
    /\ index' = index + 1 /\ pc' = "merge"
    /\ UNCHANGED <<head, conflicts>>

ExecuteMerge ==
    /\ pc = "merging"
    /\ backupTag' = [backupTag EXCEPT ![Current] = head]
    /\ Merged \/ Conflicted \/ MergeFailed
    /\ UNCHANGED <<planVars, groupIndex, pending, batch, workerVars, status, userVars, base,
                   branches, worktrees>>

(* tracker.completeTask, and the counters after it.                         *)
Complete(t) ==
    /\ SetTracker(t, "completed")
    /\ requeueCounts' = [requeueCounts EXCEPT ![t] = 0]
    /\ totalCompleted' = totalCompleted + 1
    /\ UNCHANGED totalFailed

CompleteMerged ==
    /\ pc = "completing"
    /\ Complete(Current)
    /\ index' = index + 1 /\ pc' = "merge"
    /\ UNCHANGED <<planVars, groupIndex, pending, batch, workerVars, conflicts, retryTasks,
                   backupTag, merges, status, userVars, gitVars>>

MergesDone ==
    /\ pc = "merge" /\ index > Len(batch)
    /\ pc' = "resolve"
    /\ UNCHANGED <<planVars, trackerVars, groupVars, workerVars, mergeVars, countVars, status,
                   userVars, gitVars>>

-----------------------------------------------------------------------------
(* Phase 2: the conflicts, in the order they were met.                      *)

MarkLast(t, mark) == [merges[t] EXCEPT ![Len(merges[t])] = mark]

DropConflict ==
    /\ pc = "resolve" /\ conflicts # <<>> /\ shouldStop
    /\ GiveUp(Head(conflicts))
    /\ merges' = [merges EXCEPT ![Head(conflicts)] = MarkLast(Head(conflicts), "rolled-back")]
    /\ conflicts' = Tail(conflicts)
    /\ UNCHANGED <<planVars, pc, groupVars, workerVars, retryTasks, requeueCounts, backupTag,
                   status, userVars, gitVars>>

(* git merge --no-commit, then the awaits of the AI resolver.               *)
BeginResolve ==
    /\ pc = "resolve" /\ conflicts # <<>> /\ ~shouldStop
    /\ pc' = "resolving"
    /\ UNCHANGED <<planVars, trackerVars, groupVars, workerVars, mergeVars, countVars, status,
                   userVars, gitVars>>

(* As a bug: the resolution not committed. *)
ResolvedUncommitted ==
    /\ pc = "resolving" /\ "resolved" \in Resolutions
    /\ merges' = [merges EXCEPT ![Head(conflicts)] = MarkLast(Head(conflicts), "completed")]
    /\ pc' = "completingResolved"
    /\ UNCHANGED <<planVars, trackerVars, groupVars, workerVars, conflicts, retryTasks,
                   requeueCounts, backupTag, countVars, status, userVars, gitVars>>

Resolved ==
    /\ pc = "resolving" /\ "resolved" \in Resolutions
    /\ head' = head \cup {Head(conflicts)}
    /\ merges' = [merges EXCEPT ![Head(conflicts)] = MarkLast(Head(conflicts), "completed")]
    /\ pc' = "completingResolved"
    /\ UNCHANGED <<planVars, trackerVars, groupVars, workerVars, conflicts, retryTasks,
                   requeueCounts, backupTag, countVars, status, userVars, base, branches,
                   worktrees>>

(* abortMerge: git reset --hard to the tag phase 1 gave the operation.       *)
ResolutionRefused ==
    /\ pc = "resolving" /\ "refused" \in Resolutions
    /\ head' = backupTag[Head(conflicts)]
    /\ HandleMergeFailure(Head(conflicts), MarkLast(Head(conflicts), "rolled-back"))
    /\ conflicts' = Tail(conflicts)
    /\ pc' = "resolve"
    /\ UNCHANGED <<planVars, groupVars, workerVars, backupTag, status, userVars, base,
                   branches, worktrees>>

CompleteResolved ==
    /\ pc = "completingResolved"
    /\ Complete(Head(conflicts))
    /\ conflicts' = Tail(conflicts) /\ pc' = "resolve"
    /\ UNCHANGED <<planVars, groupVars, workerVars, retryTasks, backupTag, merges, status,
                   userVars, gitVars>>

(* As a bug: the retries forgotten. *)
PendingOnly == pending

(* enqueueRetryTasks: a task of the batch is not pending any more.          *)
PendingAndRetries == pending \o retryTasks

RequeueRetries ==
    /\ pc = "resolve" /\ conflicts = <<>>
    /\ pending' = PendingAndRetries
    /\ pc' = "batches"
    /\ UNCHANGED <<planVars, trackerVars, groupIndex, batch, index, workerVars, mergeVars,
                   countVars, status, userVars, gitVars>>

-----------------------------------------------------------------------------
(* cleanup, and the user's calls.                                           *)

Statuses(t) == {merges[t][i] : i \in DOMAIN merges[t]}
Attempted(t) == worker[t] = "ended"

(* getBranchesToPreserveForRecovery                                         *)
Preserved ==
    {t \in Task : \/ Statuses(t) \ {"completed"} # {}
                  \/ /\ Attempted(t) /\ "completed" \notin Statuses(t)
                     /\ outcome[t].status = "failed" \/ outcome[t].counted}

(* cleanupAll knows the worktrees that no later worker replaced.            *)
Cleanup ==
    /\ pc = "cleanup"
    /\ worktrees' = {w \in worktrees : w.task \in Preserved}
    /\ branches' = branches \ {w.task : w \in worktrees \ worktrees'}
    /\ pc' = "done"
    /\ UNCHANGED <<planVars, trackerVars, groupVars, workerVars, mergeVars, countVars, status,
                   userVars, head, base>>

(* activeWorkers is filled by executeBatch and emptied when it returns.      *)
ForActiveWorkers(change) ==
    worker' = [t \in Task |-> IF t \in InBatch THEN change[worker[t]] ELSE worker[t]]

StopWorker ==
    [w \in WorkerStatus |-> CASE w = "ready" -> "stopped"
                               [] w \in {"running", "paused"} -> "cancelled"
                               [] OTHER -> w]

Stop ==
    /\ "stop" \in Calls /\ pc # "done"
    /\ shouldStop' = TRUE /\ paused' = FALSE /\ beforePause' = NoStatus /\ stopping' = TRUE
    /\ ForActiveWorkers(StopWorker)
    /\ UNCHANGED <<planVars, trackerVars, pc, groupVars, outcome, mergeVars, countVars, status,
                   gitVars>>

StopSettles ==
    /\ stopping
    /\ stopping' = FALSE /\ status' = "interrupted"
    /\ UNCHANGED <<planVars, trackerVars, pc, groupVars, workerVars, mergeVars, countVars,
                   shouldStop, paused, beforePause, gitVars>>

(* A worker that has not started yet is not paused: its engine is idle.      *)
PauseWorker == [w \in WorkerStatus |-> IF w = "running" THEN "paused" ELSE w]

Pause ==
    /\ "pause" \in Calls /\ pc # "done"
    /\ ~paused /\ status \notin {"completed", "failed"}
    /\ paused' = TRUE /\ beforePause' = status /\ status' = "paused"
    /\ ForActiveWorkers(PauseWorker)
    /\ UNCHANGED <<planVars, trackerVars, pc, groupVars, outcome, mergeVars, countVars,
                   shouldStop, stopping, gitVars>>

(* As a bug: the workers not told. *)
StillPaused == [w \in WorkerStatus |-> w]

ResumeWorker == [w \in WorkerStatus |-> IF w = "paused" THEN "running" ELSE w]

Resume ==
    /\ "resume" \in Calls /\ paused
    /\ paused' = FALSE /\ beforePause' = NoStatus
    /\ status' = IF beforePause = NoStatus THEN "executing" ELSE beforePause
    /\ ForActiveWorkers(ResumeWorker)
    /\ UNCHANGED <<planVars, trackerVars, pc, groupVars, outcome, mergeVars, countVars,
                   shouldStop, stopping, gitVars>>

-----------------------------------------------------------------------------
ExecutorStep ==
    \/ Analyze \/ NextGroup \/ NextBatch
    \/ AcquireWorktree \/ InitializeWorker \/ SetupThrows \/ StartWorkers \/ CollectResults
    \/ DoNotMerge \/ BeginMerge \/ ExecuteMerge \/ CompleteMerged \/ MergesDone
    \/ DropConflict \/ BeginResolve \/ Resolved \/ ResolutionRefused \/ CompleteResolved
    \/ RequeueRetries \/ Cleanup

UserCall == Stop \/ StopSettles \/ Pause \/ Resume

Next == ExecutorStep \/ (\E t \in Task : WorkerEnds(t)) \/ UserCall

Spec == Init /\ [][Next]_vars

(* The steps of execute() follow each other by themselves, and a worker ends *)
(* by itself or because it was stopped (engine/index.ts, runLoop with        *)
(* bounded iterations and agents that end); a paused worker need not.        *)
Fairness ==
    /\ WF_vars(ExecutorStep)
    /\ WF_vars(\E t \in Task : worker[t] # "paused" /\ WorkerEnds(t))

FairSpec == Spec /\ Fairness

-----------------------------------------------------------------------------
(* Properties.                                                              *)

Active(t) == worker[t] \in {"running", "paused", "cancelled"}

(* When a worker of a task runs, every dependency of it has had its last      *)
(* attempt and is not waiting or about to be retried, whatever groups,       *)
(* batches and retries did (the loops of execute and executeGroup,           *)
(* task-graph.ts).                                                           *)
DependenciesSettledFirst ==
    \A t, d \in Task : Active(t) /\ <<t, d>> \in graph =>
        /\ worker[d] = "ended" /\ asked[d] # "in_progress"
        /\ \A i \in DOMAIN pending : pending[i] # d
        /\ \A i \in DOMAIN retryTasks : retryTasks[i] # d

(* A running worker has its own worktree and branch: no other worker of the  *)
(* batch, and no later batch of the group, has taken over its directory      *)
(* (executeBatch reuses worker ids, acquire removes what is in the way).     *)
WorkersHaveTheirWorktree ==
    \A t \in Task : Active(t) =>
        /\ t \in branches
        /\ Cardinality({w \in worktrees : w.task = t}) = 1
        /\ \A w, v \in worktrees : w.task = t /\ v.group = w.group /\ v.slot = w.slot => v = w

(* As long as no resolution was given up, what the tracker calls completed   *)
(* is in the session branch, over fast-forwards, merge commits, conflicts,   *)
(* retries and stops (executeGroup, executeMerge, resolveConflicts).         *)
Refused == resolves /\ \E t \in Task : "rolled-back" \in Statuses(t)
CompletedIsMerged == ~Refused => \A t \in Task : tracker[t] = "completed" => t \in head

(* A worker starts from a branch that has the work of the dependencies that  *)
(* were completed, with the same proviso (acquire creates it from HEAD).     *)
DependenciesInBase ==
    ~Refused => \A t, d \in Task :
        Active(t) /\ <<t, d>> \in graph /\ asked[d] = "completed" => d \in base[t]

(* What a worker builds on is settled and in its branch. *)
DependenciesHonoured == DependenciesSettledFirst /\ DependenciesInBase

(* An execution that ran its groups without a stop or an exception counts    *)
(* every actionable task exactly once, as completed or as failed.            *)
EveryTaskIsCounted ==
    pc = "done" /\ groups # <<>> /\ ~shouldStop /\ status # "failed"
      /\ (\A t \in Task : worker[t] # "ready") /\ groupIndex > Len(groups) =>
      totalCompleted + totalFailed = Cardinality(Planned)

(* "completed", after any groups ran, means that every actionable task is in *)
(* the session branch, unless a resolution was given up, and completed in     *)
(* the tracker, unless that last write for it failed: no failure of another   *)
(* kind, or of an earlier write, is hidden (FinalStatus over both phases,      *)
(* retries, swallowed errors, resume).                                       *)
CompletedMeansAllDone ==
    status = "completed" /\ groups # <<>> =>
      \A t \in Planned : /\ t \in unsaved \/ tracker[t] = "completed"
                         /\ Refused \/ t \in head

(* The numbers and the status that are reported agree with the tracker and    *)
(* the session branch.                                                       *)
AccountsAgree == TypeOK /\ EveryTaskIsCounted /\ CompletedMeansAllDone

(* After the execution a task is in_progress for two reasons only: its setup   *)
(* was done when that of a later task of the batch threw, or the tracker      *)
(* refused its last write.  Every other way out of a batch, after failures,    *)
(* stops, conflicts and requeues, has reset it (resetTaskToOpen).             *)
SetUpInVain(t) ==
    \E i \in DOMAIN batch :
        i < index /\ batch[i] = t /\ worker[t] \in {"ready", "stopped"}
NoTaskLeftInProgress ==
    pc = "done" => \A t \in Task \ unsaved : tracker[t] = "in_progress" => SetUpInVain(t)

(* The execution ends once the user no longer pauses it, whatever fails,      *)
(* conflicts and is retried, and also when it is stopped while it is paused   *)
(* or between two awaits of a batch setup (executeGroup, requeueCounts,      *)
(* waitWhilePaused, releasePauseWaiters, stop).                              *)
ExecutionEnds == <>[](~paused) => <>(pc = "done")

-----------------------------------------------------------------------------
(* What becomes of the tasks, without workers, merges and worktrees.         *)

Members(s) == {s[i] : i \in DOMAIN s}

(* The task of a later group, of the group, of the batch that is set up, or  *)
(* about to be requeued.                                                     *)
InLaterGroup(t) ==
    \E g \in DOMAIN groups :
        /\ t \in Members(groups[g])
        /\ g > groupIndex \/ (g = groupIndex /\ pc = "groups")

InRestOfBatch(t) ==
    /\ pc \in {"acquire", "initialize"}
    /\ \E i \in DOMAIN batch : i >= index /\ batch[i] = t

ToBeRequeued(t) ==
    /\ pc \in {"merge", "merging", "completing", "resolve", "resolving", "completingResolved"}
    /\ t \in Members(retryTasks)

Remaining(t) ==
    \/ pc = "analyzing"
    \/ /\ pc \notin {"cleanup", "done"}
       /\ \/ InLaterGroup(t)
          \/ pc # "groups" /\ t \in Members(pending)
          \/ InRestOfBatch(t) \/ ToBeRequeued(t)

BoardStatus ==
    [t \in Task |-> CASE asked[t] = "completed" -> "completed"
                      [] asked[t] = "in_progress" -> "taken"
                      [] OTHER -> IF Remaining(t) THEN "waiting" ELSE "dropped"]

Board == INSTANCE TaskBoard WITH MaxRetries <- MaxRequeueCount, status <- BoardStatus,
                                 retries <- requeueCounts

(* Over all groups, batches, requeues, conflicts, stops and failures, an      *)
(* execution takes a task after its dependencies are over, tries it at most  *)
(* MaxRequeueCount times again, and never touches what it completed or gave  *)
(* up (executeGroup, handleMergeFailure, enqueueRetryTasks).                 *)
ImplementsTaskBoard == Board!Spec
=============================================================================
