----------------------------- MODULE JsonTracker -----------------------------
(***************************************************************************)
(* The JSON tracker over prd.json (src/plugins/trackers/builtin/json/       *)
(* index.ts): the cache, the write lock and a file that is rewritten whole,  *)
(* between the parties that share the tracker of a process.  An updater      *)
(* completes a task or sets it back; a reader asks for the tasks, to show    *)
(* them or to learn whether all are complete; and a merge of the parallel    *)
(* executor (src/parallel/index.ts) keeps the file's content, lets git       *)
(* change it and writes it back, outside the lock.                           *)
(*                                                                         *)
(* Only the `passes` of the stories is kept: a content is the set of tasks   *)
(* that pass.  The steps between two awaits are one action.                  *)
(***************************************************************************)
EXTENDS Naturals, Sequences, Functions

CONSTANTS
    Task,
    Asked,     \* the updates that are asked for
    Updater,   \* engines and executors that complete and reopen tasks
    Reader,    \* the TUI, the remote server, an engine's getNextTask or isComplete
    Torn,      \* prd.json between its truncation and its new content
    None       \* no content, no cache, no task

ASSUME TrackerAssumption ==
    /\ \A content \in SUBSET Task : Torn # content /\ None # content
    /\ Torn # None
    /\ None \notin Task
    /\ Updater \cap Reader = {}
    /\ Asked \subseteq [kind : {"complete", "reopen"}, task : Task]

VARIABLES
    file,      \* prd.json
    prdCache,  \* the tracker's cache: tasks that pass in it, and whether they did
    queue,     \* the chain of writeLock, its holder first
    op,        \* what each updater has asked for
    pc,        \* where each updater and reader is
    buf,       \* what it has read, or is about to write
    merge,     \* where the executor is with a merge
    saved,     \* savedState: the content to write back
    acked,     \* tasks whose completion was answered with success, not set back since
    disturbed  \* an update and a merge were under way at once, or a write failed

vars == <<file, prdCache, queue, op, pc, buf, merge, saved, acked, disturbed>>

history == <<acked, disturbed>>

Content == SUBSET Task
Cached == [passes : Content, sound : BOOLEAN]
NoOp == [kind |-> "none", task |-> None]

TypeOK ==
    /\ file \in {Torn} \cup Content
    /\ prdCache \in {None} \cup Cached
    /\ queue \in Seq(Updater) /\ IsInjective(queue)
    /\ op \in [Updater -> Asked \cup {NoOp}]
    /\ pc \in [Updater \cup Reader ->
                 {"idle", "waiting", "reading", "read", "truncating", "writing", "written"}]
    /\ buf \in [Updater \cup Reader -> {Torn, None} \cup Content]
    /\ merge \in {"none", "saved", "merged", "restoring", "restored"}
    /\ saved \in {Torn, None} \cup Content
    /\ acked \subseteq Task
    /\ disturbed \in BOOLEAN
    /\ \A u \in Updater : pc[u] # "idle" <=> \E i \in DOMAIN queue : queue[i] = u

Init ==
    /\ file = {}
    /\ prdCache = None
    /\ queue = <<>>
    /\ op = [u \in Updater |-> NoOp]
    /\ pc = [c \in Updater \cup Reader |-> "idle"]
    /\ buf = [c \in Updater \cup Reader |-> None]
    /\ merge = "none" /\ saved = None
    /\ acked = {}
    /\ disturbed = FALSE

Goto(c, label) == pc' = [pc EXCEPT ![c] = label]

(* From a disturbance on nothing is known of the completions any more. *)
DisturbedIf(condition) ==
    /\ disturbed' = (disturbed \/ condition)
    /\ acked' = IF disturbed' THEN {} ELSE acked

(* The holder of the lock is past the wait for its predecessor. *)
Updating == \E u \in Updater : pc[u] \notin {"idle", "waiting"}

-----------------------------------------------------------------------------
(* completeTask and updateTaskStatus.                                       *)

HoldsWriteLock(u) == queue # <<>> /\ Head(queue) = u

Ask(u, o) ==
    /\ pc[u] = "idle"
    /\ op' = [op EXCEPT ![u] = o]
    /\ queue' = Append(queue, u)
    /\ Goto(u, "waiting")
    /\ UNCHANGED <<file, prdCache, buf, merge, saved, history>>

(* The cache is dropped so that readPrd goes to the file. *)
Invalidate(u) ==
    /\ pc[u] = "waiting" /\ HoldsWriteLock(u)
    /\ prdCache' = None
    /\ DisturbedIf(merge # "none")
    /\ Goto(u, "reading")
    /\ UNCHANGED <<file, queue, op, buf, merge, saved>>

ReadFile(c) ==
    /\ pc[c] = "reading"
    /\ buf' = [buf EXCEPT ![c] = file]
    /\ Goto(c, "read")
    /\ UNCHANGED <<file, prdCache, queue, op, merge, saved, history>>

Updated(content, o) ==
    IF o.kind = "complete" THEN content \cup {o.task} ELSE content \ {o.task}

(* What is in the cache is right: it is what the file has, and no merge has   *)
(* it changed for a time.                                                    *)
Sound(content) == ~disturbed /\ merge = "none" /\ content = file

(* readPrd has the file, and the story in it, that is in the cache as well,   *)
(* is changed before anything is written.                                    *)
ChangeStory(u) ==
    /\ pc[u] = "read" /\ buf[u] # Torn
    /\ LET content == Updated(buf[u], op[u]) IN
         /\ prdCache' = [passes |-> content, sound |-> Sound(buf[u])]
         /\ buf' = [buf EXCEPT ![u] = content]
    /\ acked' = IF op[u].kind = "reopen" THEN acked \ {op[u].task} ELSE acked
    /\ Goto(u, "truncating")
    /\ UNCHANGED <<file, queue, op, merge, saved, disturbed>>

(* writeFile truncates, *)
Truncate(u) ==
    /\ pc[u] = "truncating"
    /\ file' = Torn
    /\ Goto(u, "writing")
    /\ UNCHANGED <<prdCache, queue, op, buf, merge, saved, history>>

(* then writes; over what another write put there in between, a longer rest   *)
(* of it may remain.                                                         *)
Written(content) == IF file = Torn THEN {content} ELSE {content, Torn}

WriteFile(u) ==
    /\ pc[u] = "writing"
    /\ file' \in Written(buf[u])
    /\ Goto(u, "written")
    /\ UNCHANGED <<prdCache, queue, op, buf, merge, saved, history>>

(* The lock passes to the next of the queue: only its holder gets here. *)
Leave(u) ==
    /\ queue' = Tail(queue)
    /\ op' = [op EXCEPT ![u] = NoOp]
    /\ buf' = [buf EXCEPT ![u] = None]
    /\ Goto(u, "idle")

(* As a bug: the cache is left as a reader may have filled it meanwhile. *)
CacheAsItIs(u) == UNCHANGED prdCache

CacheWritten(u) == prdCache' = [passes |-> buf[u], sound |-> Sound(buf[u])]

Succeed(u) ==
    /\ pc[u] = "written"
    /\ CacheWritten(u)
    /\ acked' = IF ~disturbed /\ op[u].kind = "complete" THEN acked \cup {op[u].task} ELSE acked
    /\ Leave(u)
    /\ UNCHANGED <<file, merge, saved, disturbed>>

(* As a bug: the lock is not released by a call that throws. *)
GiveUp(u) ==
    /\ op' = [op EXCEPT ![u] = NoOp]
    /\ buf' = [buf EXCEPT ![u] = None]
    /\ Goto(u, "idle")
    /\ UNCHANGED queue

LeaveFailing(u) == Leave(u)

(* JSON.parse fails on a torn file; the answer is an error. *)
FailToRead(u) ==
    /\ pc[u] = "read" /\ buf[u] = Torn
    /\ LeaveFailing(u)
    /\ UNCHANGED <<file, prdCache, merge, saved, history>>

(* writeFile throws: the changed story stays in the cache. *)
FailToWrite(u) ==
    /\ pc[u] \in {"truncating", "writing"}
    /\ DisturbedIf(TRUE)
    /\ LeaveFailing(u)
    /\ UNCHANGED <<file, prdCache, merge, saved>>

-----------------------------------------------------------------------------
(* getTasks, getNextTask and isComplete, which take no lock.                *)

(* From a cache that has not expired the answer is given at once; what it is  *)
(* is in CompletionsAreSeen.                                                 *)
GetTasks(r) ==
    /\ pc[r] = "idle" /\ prdCache = None
    /\ Goto(r, "reading")
    /\ UNCHANGED <<file, prdCache, queue, op, buf, merge, saved, history>>

(* A file that cannot be parsed has no tasks, and isComplete is true of none. *)
TasksRead(r) ==
    /\ pc[r] = "read"
    /\ \/ buf[r] = Torn /\ UNCHANGED prdCache
       \/ /\ buf[r] # Torn
          /\ prdCache' = [passes |-> buf[r], sound |-> Sound(buf[r])]
    /\ buf' = [buf EXCEPT ![r] = None]
    /\ Goto(r, "idle")
    /\ UNCHANGED <<file, queue, op, merge, saved, history>>

(* CACHE_TTL_MS. *)
CacheExpires ==
    /\ prdCache # None
    /\ prdCache' = None
    /\ UNCHANGED <<file, queue, op, pc, buf, merge, saved, history>>

-----------------------------------------------------------------------------
(* A merge of the executor: saveTrackerState, git, restoreTrackerState.     *)

MergeUnchanged == UNCHANGED <<queue, op, pc, buf>>

SaveTrackerState ==
    /\ merge = "none"
    /\ merge' = "saved" /\ saved' = file
    /\ DisturbedIf(Updating)
    /\ MergeUnchanged /\ UNCHANGED <<file, prdCache>>

(* git replaces the file by what the branches have. *)
GitMerges(content) ==
    /\ merge = "saved"
    /\ merge' = "merged" /\ file' = content
    /\ MergeUnchanged /\ UNCHANGED <<prdCache, saved, acked, disturbed>>

RestoreBegins ==
    /\ merge \in {"saved", "merged"}
    /\ merge' = "restoring" /\ file' = Torn
    /\ MergeUnchanged /\ UNCHANGED <<prdCache, saved, acked, disturbed>>

(* As a bug: what git left is taken for the state. *)
RestoreWhatIsThere(content) == {content} \cup Content

Restored(content) == Written(content)

RestoreTrackerState ==
    /\ merge = "restoring"
    /\ merge' = "restored" /\ file' \in Restored(saved)
    /\ MergeUnchanged /\ UNCHANGED <<prdCache, saved, acked, disturbed>>

(* Best effort: what git left, or half of the state, stays. *)
RestoreFails ==
    /\ merge \in {"merged", "restoring"}
    /\ merge' = "none" /\ saved' = None
    /\ DisturbedIf(TRUE)
    /\ MergeUnchanged /\ UNCHANGED <<file, prdCache>>

ClearCache ==
    /\ merge = "restored"
    /\ merge' = "none" /\ saved' = None
    /\ prdCache' = None
    /\ MergeUnchanged /\ UNCHANGED <<file, acked, disturbed>>

-----------------------------------------------------------------------------

UpdaterStep(u) ==
    \/ Invalidate(u) \/ ReadFile(u) \/ ChangeStory(u) \/ Truncate(u)
    \/ WriteFile(u) \/ Succeed(u) \/ FailToRead(u)

ReaderStep(r) == ReadFile(r) \/ TasksRead(r)

MergeStep == RestoreBegins \/ RestoreTrackerState \/ ClearCache

Next ==
    \/ \E u \in Updater : \/ \E o \in Asked : Ask(u, o)
                          \/ UpdaterStep(u) \/ FailToWrite(u)
    \/ \E r \in Reader : GetTasks(r) \/ ReaderStep(r)
    \/ CacheExpires
    \/ SaveTrackerState \/ MergeStep \/ RestoreFails \/ \E content \in Content : GitMerges(content)

Spec == Init /\ [][Next]_vars

(* Promises settle and file operations end. *)
FairSpec == Spec /\ \A u \in Updater : WF_vars(UpdaterStep(u))

-----------------------------------------------------------------------------
(* Properties.                                                              *)

(* A completion that was answered with success is in the file, whatever the   *)
(* other updaters of the process do at the time and after the merges of the    *)
(* executor, though it is rewritten from a copy each time: only a write that   *)
(* fails, or an update beside a merge, can lose it.                            *)
CompletionsAreKept ==
    disturbed \/ merge # "none" \/ file = Torn \/ acked \subseteq file

(* Who asks for the tasks after a completion was answered sees it, though     *)
(* reads take no lock and the cache has what whoever came last put there;     *)
(* unless a read that a write or a merge overtook left its content in it.     *)
CompletionsAreSeen ==
    disturbed \/ (prdCache # None /\ prdCache.sound => acked \subseteq prdCache.passes)

(* The file is whole whenever nobody is writing it. *)
FileIsWhole ==
    disturbed \/ file # Torn \/ merge = "restoring" \/ \E u \in Updater : pc[u] = "writing"

(* prd.json is whole and has what was acknowledged. *)
FileKeepsCompletions == TypeOK /\ FileIsWhole /\ CompletionsAreKept

(* A call that waits for the lock is answered, though those before it fail. *)
WritersProceed == \A u \in Updater : pc[u] = "waiting" ~> pc[u] = "idle"
=============================================================================
