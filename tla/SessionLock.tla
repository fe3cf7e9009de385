---------------------------- MODULE SessionLock ----------------------------
(***************************************************************************)
(* The single-instance lock of a repository: the file .ralph-tui/ralph.lock *)
(* as the processes that start, resume and end sessions read, create and    *)
(* unlink it (src/session/lock.ts, the lock half of src/session/index.ts,    *)
(* and the order in which commands/run.tsx and commands/resume.tsx call      *)
(* them).                                                                   *)
(*                                                                         *)
(* Every await is a step of its own, so the processes interleave between    *)
(* the read of the file, the liveness probe of its pid, the unlink, the     *)
(* O_EXCL creation and the write of the contents.                           *)
(***************************************************************************)
EXTENDS Naturals

CONSTANTS
    Proc,        \* processes (pids) that may be started in the repository
    Resume,      \* those started as `ralph-tui resume`
    RunResume,   \* those started as `ralph-tui run --resume`
    Forced,      \* those given --force
    Interactive, \* those that prompt before removing a stale lock
    MayCrash,    \* those that may end without releasing anything
    MayTerm,     \* those that may receive SIGTERM
    MayFailIO,   \* those whose write of the lock contents may fail
    DeadPid,     \* the pid of a process that is already gone
    NoPid,       \* what a read gives when there is no lock
    StaleAtStart \* whether a lock file of DeadPid is there at the start

ASSUME LockAssumption ==
    /\ Resume \subseteq Proc /\ RunResume \subseteq Proc
    /\ Resume \cap RunResume = {}
    /\ DeadPid \notin Proc /\ NoPid \notin Proc \cup {DeadPid}
    /\ StaleAtStart \in BOOLEAN

VARIABLES
    lock,       \* the file at the lock path
    pc,         \* where each process is in its command
    seen,       \* the pid a process read from the lock file, or NoPid
    unprotected \* processes in a session whose own lock file is not there

vars == <<lock, pc, seen, unprotected>>

Pid == Proc \cup {DeadPid}

\* "present" is FALSE when nothing is at the path; "complete" when the
\* contents were written, so that they parse.
LockFile == [present : BOOLEAN, pid : Pid, complete : BOOLEAN]
NoFile == [present |-> FALSE, pid |-> DeadPid, complete |-> FALSE]
NewFile(p) == [present |-> TRUE, pid |-> p, complete |-> FALSE]

PcValues ==
    {"check", "judge", "prompt", "unlink", "create", "write", "acquired",
     "cleanRead", "cleanJudge", "cleanUnlink", "acqRead", "acqJudge",
     "acqCreate", "acqWrite", "resumeFailed", "session", "terminating",
     "release", "releaseAgain", "refused", "exited"}

(* A process has created its lock file and relies on it from here on; with   *)
(* `ralph-tui resume` that is only once acquireLock has opened the file.     *)
HoldsAt(p, label) ==
    \/ label \in {"acqWrite", "session", "terminating"}
    \/ p \notin Resume /\ label \in {"write", "acquired", "cleanRead",
                    "cleanJudge", "cleanUnlink", "acqRead", "acqJudge", "acqCreate"}

Holds(p) == HoldsAt(p, pc[p])

(* The engine is working on the repository. *)
InSession(p) == pc[p] \in {"session", "terminating"}

(* process.kill(pid, 0): DeadPid and the processes that have exited fail it. *)
Running(pid) == pid \in Proc /\ pc[pid] \notin {"exited", "refused"}

(* readLockFile: no file, or contents that do not parse, give null. *)
ReadPid == IF lock.present /\ lock.complete THEN lock.pid ELSE NoPid

OwnFile(p) == lock.present /\ lock.pid = p

TypeOK ==
    /\ lock \in LockFile
    /\ pc \in [Proc -> PcValues]
    /\ seen \in [Proc -> Pid \cup {NoPid}]
    /\ unprotected \subseteq Proc

Init ==
    /\ lock = IF StaleAtStart
                THEN [present |-> TRUE, pid |-> DeadPid, complete |-> TRUE]
                ELSE NoFile
    /\ pc = [p \in Proc |-> "check"]
    /\ seen = [p \in Proc |-> NoPid]
    /\ unprotected = {}

-----------------------------------------------------------------------------
(* Steps the commands share.                                                *)

Goto(p, label) == pc' = [pc EXCEPT ![p] = label]

Move(p, from, to) ==
    /\ pc[p] = from
    /\ Goto(p, to)
    /\ UNCHANGED <<lock, seen, unprotected>>

Read(p, from, to) ==
    /\ pc[p] = from
    /\ seen' = [seen EXCEPT ![p] = ReadPid]
    /\ Goto(p, to)
    /\ UNCHANGED <<lock, unprotected>>

(* unlink(lockPath), errors ignored: whoever's file is there goes, and its  *)
(* owner, if it goes on relying on it, is left unprotected.                 *)
Unlink(p, to) ==
    /\ Goto(p, to)
    /\ lock' = NoFile
    /\ unprotected' = unprotected \cup {q \in Proc : OwnFile(q) /\ HoldsAt(q, pc'[q])}
    /\ UNCHANGED seen

(* As a bug: opened with 'w', the file is taken over from whoever has it. *)
OpenTruncating(p, to) ==
    /\ lock' = NewFile(p)
    /\ unprotected' = unprotected \ {p}
    /\ Goto(p, to)
    /\ UNCHANGED seen

(* open(lockPath, 'wx'): O_EXCL, atomic across processes. *)
OpenExclusive(p, to) ==
    /\ ~lock.present
    /\ lock' = NewFile(p)
    /\ unprotected' = unprotected \ {p}
    /\ Goto(p, to)
    /\ UNCHANGED seen

(* The contents are written through the open handle: to the file at the path *)
(* when it is still this process's, else to an inode nobody can reach.       *)
WriteHandle(p, from, to) ==
    /\ pc[p] = from
    /\ lock' = [lock EXCEPT !.complete = @ \/ OwnFile(p)]
    /\ Goto(p, to)
    /\ UNCHANGED <<seen, unprotected>>

-----------------------------------------------------------------------------
(* acquireLockWithPrompt, called by `ralph-tui run`.                        *)

CheckLock(p) == Read(p, "check", "judge")

\* As a bug: whatever lock is there counts as stale, its pid is not probed.
JudgeWithoutProbe(p) ==
    /\ p \notin Resume
    /\ \/ seen[p] = NoPid /\ Move(p, "judge", "create")
       \/ seen[p] # NoPid /\ Move(p, "judge", IF p \in Interactive THEN "prompt" ELSE "unlink")

JudgeLock(p) ==
    /\ p \notin Resume
    /\ \/ seen[p] = NoPid /\ Move(p, "judge", "create")
       \/ Running(seen[p]) /\ p \notin Forced /\ Move(p, "judge", "refused")
       \/ Running(seen[p]) /\ p \in Forced /\ Move(p, "judge", "unlink")
       \/ /\ seen[p] # NoPid /\ ~Running(seen[p])
          /\ Move(p, "judge", IF p \in Interactive THEN "prompt" ELSE "unlink")

PromptCleanStaleLock(p) == Move(p, "prompt", "unlink") \/ Move(p, "prompt", "refused")

DeleteLockFile(p) == pc[p] = "unlink" /\ Unlink(p, "create")

(* tryWriteLockFile: creation, or the structured refusal on EEXIST. *)
TryWriteLockFile(p) ==
    /\ pc[p] = "create"
    /\ \/ OpenExclusive(p, "write")
       \/ lock.present /\ Move(p, "create", "refused")

WriteContents(p) == WriteHandle(p, "write", "acquired")

(* The write fails: the path is unlinked and the error ends the command. *)
WriteFails(p) ==
    /\ p \in MayFailIO
    /\ pc[p] \in {"write", "acqWrite"}
    /\ Unlink(p, "exited")

(* run.tsx: with --resume the session is resumed, which acquires once more; *)
(* without it createSession is told that the lock is already acquired.      *)
EnterSession(p) ==
    Move(p, "acquired", IF p \in RunResume THEN "cleanRead" ELSE "session")

-----------------------------------------------------------------------------
(* session/index.ts: cleanStaleLock and acquireLock, in the order both      *)
(* resumeSession (run --resume) and commands/resume.tsx call them.          *)

(* commands/resume.tsx: checkSession, then clean only a stale lock. *)
JudgeSession(p) ==
    /\ p \in Resume
    /\ \/ seen[p] = NoPid /\ Move(p, "judge", "acqRead")
       \/ Running(seen[p]) /\ p \notin Forced /\ Move(p, "judge", "refused")
       \/ Running(seen[p]) /\ p \in Forced /\ Move(p, "judge", "acqRead")
       \/ seen[p] # NoPid /\ ~Running(seen[p]) /\ Move(p, "judge", "cleanRead")

CleanStaleLock(p) ==
    \/ Read(p, "cleanRead", "cleanJudge")
    \/ Move(p, "cleanJudge", IF seen[p] # NoPid /\ ~Running(seen[p])
                               THEN "cleanUnlink" ELSE "acqRead")
    \/ pc[p] = "cleanUnlink" /\ Unlink(p, "acqRead")

(* acquireLock returned false. `resume --force` goes on without the lock. *)
NotAcquired(p, from) ==
    IF p \in Resume /\ p \in Forced
      THEN /\ pc[p] = from
           /\ Goto(p, "session")
           /\ unprotected' = unprotected \cup {p}
           /\ UNCHANGED <<lock, seen>>
      ELSE Move(p, from, IF p \in Resume THEN "refused" ELSE "resumeFailed")

AcquireLock(p) ==
    \/ Read(p, "acqRead", "acqJudge")
    \/ Running(seen[p]) /\ NotAcquired(p, "acqJudge")
    \/ ~Running(seen[p]) /\ Move(p, "acqJudge", "acqCreate")
    \/ pc[p] = "acqCreate" /\ OpenExclusive(p, "acqWrite")
    \/ pc[p] = "acqCreate" /\ lock.present /\ NotAcquired(p, "acqCreate")
    \/ WriteHandle(p, "acqWrite", "session")

(* run --resume: resumeSession gave null, the lock is released, exit(1). *)
ResumeFails(p) == pc[p] = "resumeFailed" /\ Unlink(p, "exited")

-----------------------------------------------------------------------------
(* The end of a session.                                                    *)

(* The engine has stopped; a `run` releases in endSession and once more in  *)
(* releaseLockNew, a `resume` releases once.                                *)
EndSession(p) ==
    /\ InSession(p)
    /\ Move(p, pc[p], IF p \in Resume THEN "releaseAgain" ELSE "release")

ReleaseLock(p) == pc[p] = "release" /\ Unlink(p, "releaseAgain")
ReleaseLockNew(p) == pc[p] = "releaseAgain" /\ Unlink(p, "exited")

(* handleTermination releases at once; the graceful shutdown goes on. *)
Terminate(p) ==
    /\ p \in MayTerm \ Resume
    /\ \/ pc[p] = "session" /\ Unlink(p, "terminating")
       \/ pc[p] = "acquired" /\ Unlink(p, "acquired")

(* A crash, kill -9, or a headless run that exits on SIGINT. *)
Crash(p) ==
    /\ p \in MayCrash
    /\ pc[p] \notin {"exited", "refused"}
    /\ Move(p, pc[p], "exited")

Step(p) ==
    \/ CheckLock(p) \/ JudgeLock(p) \/ PromptCleanStaleLock(p)
    \/ DeleteLockFile(p) \/ TryWriteLockFile(p) \/ WriteContents(p)
    \/ WriteFails(p) \/ EnterSession(p) \/ JudgeSession(p)
    \/ CleanStaleLock(p) \/ AcquireLock(p) \/ ResumeFails(p)
    \/ EndSession(p) \/ ReleaseLock(p) \/ ReleaseLockNew(p)
    \/ Terminate(p) \/ Crash(p)

Next == \E p \in Proc : Step(p)

Spec == Init /\ [][Next]_vars

-----------------------------------------------------------------------------
(* Properties.                                                              *)

(* While a process that relies on its lock has not lost it to somebody's    *)
(* unlink, the file at the lock path is its own (lock.ts, O_EXCL creation). *)
ProtectedHolderOwnsFile ==
    \A p \in Proc : Holds(p) /\ p \notin unprotected => OwnFile(p)

(* A process that read a live owner's pid from the lock file does not remove *)
(* that owner's file at any later step of its command, its own release       *)
(* included: what the probe of lock.ts found holds to the end.  Excepted are  *)
(* --force and a `run --resume` that is refused, which unlinks the path.     *)
SeenOwnerKeepsItsLock ==
    [][\A p, q \in Proc :
         (Step(q) /\ seen[q] = p /\ p # q /\ Holds(p) /\ OwnFile(p)
          /\ q \notin Forced /\ pc[q] # "resumeFailed")
         => OwnFile(p)']_vars
=============================================================================
