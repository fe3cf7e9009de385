------------------------- MODULE SessionLock_proofs -------------------------
(***************************************************************************)
(* What SessionLock guarantees for any number of processes, whatever their  *)
(* commands and flags and whoever crashes, is signalled or fails to write.  *)
(*                                                                         *)
(* The inductive invariant adds to the types and to ProtectedHolderOwnsFile *)
(* that a `resume` process only ever walks the steps of `resume`: without   *)
(* it the induction would start from a `resume` that holds a lock it never  *)
(* created.                                                                 *)
(***************************************************************************)
EXTENDS SessionLock, TLAPS

ResumePc ==
    {"check", "judge", "cleanRead", "cleanJudge", "cleanUnlink", "acqRead",
     "acqJudge", "acqCreate", "acqWrite", "session", "releaseAgain",
     "refused", "exited"}

ResumePath == \A p \in Resume : pc[p] \in ResumePc

IInv == TypeOK /\ ResumePath /\ ProtectedHolderOwnsFile

(* A label a process may go to: one of its command's.                       *)
Label(p, to) == to \in PcValues /\ (p \in Resume => to \in ResumePc)

-----------------------------------------------------------------------------
(* The four elementary steps preserve the invariant.                        *)

(* A move that does not start a holding phase changes no file.              *)
LEMMA MoveKeeps ==
    ASSUME IInv, NEW p \in Proc, NEW from, NEW to, Move(p, from, to),
           Label(p, to), HoldsAt(p, to) => HoldsAt(p, from)
    PROVE  IInv'
BY LockAssumption DEF IInv, TypeOK, ResumePath, ProtectedHolderOwnsFile, Move, Goto,
   Label, Holds, OwnFile, HoldsAt

(* Reading the lock file disturbs nothing but what the reader has seen.     *)
LEMMA ReadKeeps ==
    ASSUME IInv, NEW p \in Proc, NEW from, NEW to, Read(p, from, to),
           Label(p, to), HoldsAt(p, to) => HoldsAt(p, from)
    PROVE  IInv'
<1>1. ReadPid \in Pid \cup {NoPid}
  BY DEF IInv, TypeOK, LockFile, ReadPid
<1>. QED
  BY <1>1, LockAssumption DEF IInv, TypeOK, ResumePath, ProtectedHolderOwnsFile, Read, Goto,
     Label, Holds, OwnFile, HoldsAt

(* An unlink leaves unprotected whoever goes on relying on the file.        *)
LEMMA UnlinkKeeps ==
    ASSUME IInv, NEW p \in Proc, NEW to, Unlink(p, to), Label(p, to),
           HoldsAt(p, to) => Holds(p)
    PROVE  IInv'
<1>1. TypeOK'
  BY DEF IInv, TypeOK, Unlink, Goto, Label, LockFile, NoFile, Pid
<1>2. ResumePath'
  BY LockAssumption DEF IInv, TypeOK, ResumePath, Unlink, Goto, Label
<1>3. ASSUME NEW q \in Proc, Holds(q)', q \notin unprotected'
      PROVE  OwnFile(q)'
  <2>1. Holds(q) /\ q \notin unprotected
    BY <1>3 DEF Unlink, Goto, Holds, HoldsAt, IInv, TypeOK
  <2>2. OwnFile(q) /\ HoldsAt(q, pc'[q])
    BY <1>3, <2>1 DEF IInv, ProtectedHolderOwnsFile, Holds
  <2>. QED
    BY <1>3, <2>2 DEF Unlink
<1>. QED
  BY <1>1, <1>2, <1>3 DEF IInv, ProtectedHolderOwnsFile

(* O_EXCL: the creator finds no file, so no protected holder is displaced.  *)
LEMMA OpenKeeps ==
    ASSUME IInv, NEW p \in Proc, NEW to, OpenExclusive(p, to), Label(p, to)
    PROVE  IInv'
<1>1. TypeOK'
  BY DEF IInv, TypeOK, OpenExclusive, Goto, Label, LockFile, NewFile, Pid
<1>2. ResumePath'
  BY LockAssumption DEF IInv, TypeOK, ResumePath, OpenExclusive, Goto, Label
<1>3. ASSUME NEW q \in Proc, Holds(q)', q \notin unprotected'
      PROVE  OwnFile(q)'
  <2>1. CASE q = p
    BY <2>1 DEF OpenExclusive, OwnFile, NewFile
  <2>2. CASE q # p
    <3>1. Holds(q) /\ q \notin unprotected
      BY <1>3, <2>2 DEF OpenExclusive, Goto, Holds, HoldsAt, IInv, TypeOK
    <3>. QED
      BY <3>1 DEF IInv, ProtectedHolderOwnsFile, OwnFile, OpenExclusive
  <2>. QED
    BY <2>1, <2>2
<1>. QED
  BY <1>1, <1>2, <1>3 DEF IInv, ProtectedHolderOwnsFile

(* Writing the contents changes neither who owns the file nor who holds.    *)
LEMMA WriteKeeps ==
    ASSUME IInv, NEW p \in Proc, NEW from, NEW to, WriteHandle(p, from, to),
           Label(p, to), HoldsAt(p, to) => HoldsAt(p, from)
    PROVE  IInv'
<1>1. /\ lock'.present = lock.present /\ lock'.pid = lock.pid
      /\ lock' \in LockFile
  BY DEF IInv, TypeOK, LockFile, WriteHandle, OwnFile
<1>. QED
  BY <1>1, LockAssumption DEF IInv, TypeOK, ResumePath, ProtectedHolderOwnsFile,
     WriteHandle, Goto, Label, Holds, OwnFile, HoldsAt

-----------------------------------------------------------------------------
(* Every step of every process preserves the invariant.                     *)

LEMMA InitEstablishes == Init => IInv
BY LockAssumption DEF Init, IInv, TypeOK, ResumePath, ProtectedHolderOwnsFile, LockFile,
   NoFile, Pid, PcValues, ResumePc, Holds, HoldsAt

(* Every step of a process keeps the invariant.                              *)
LEMMA StepKeeps ==
    ASSUME IInv, NEW p \in Proc, Step(p)
    PROVE  IInv'
<1>. USE DEF PcValues, ResumePc, Label, HoldsAt
<1>0. p \in Resume => pc[p] \in ResumePc
  BY DEF IInv, ResumePath
<1>1. CASE CheckLock(p)
  BY <1>1, ReadKeeps DEF CheckLock
<1>2. CASE JudgeLock(p)
  BY <1>2, MoveKeeps DEF JudgeLock
<1>3. CASE PromptCleanStaleLock(p)
  BY <1>0, <1>3, MoveKeeps DEF PromptCleanStaleLock, Move
<1>4. CASE DeleteLockFile(p)
  BY <1>0, <1>4, UnlinkKeeps DEF DeleteLockFile
<1>5. CASE TryWriteLockFile(p)
  BY <1>0, <1>5, MoveKeeps, OpenKeeps DEF TryWriteLockFile
<1>6. CASE WriteContents(p)
  BY <1>0, <1>6, WriteKeeps DEF WriteContents, WriteHandle
<1>7. CASE WriteFails(p)
  BY <1>7, UnlinkKeeps DEF WriteFails
<1>8. CASE EnterSession(p)
  BY <1>0, <1>8, MoveKeeps DEF EnterSession, Move
<1>9. CASE JudgeSession(p)
  BY <1>9, MoveKeeps DEF JudgeSession
<1>10. CASE CleanStaleLock(p)
  BY <1>0, <1>10, MoveKeeps, ReadKeeps, UnlinkKeeps DEF CleanStaleLock, Holds
<1>11. CASE AcquireLock(p)
  <2>1. ASSUME NEW from \in {"acqJudge", "acqCreate"}, NotAcquired(p, from)
        PROVE  IInv'
    <3>1. CASE p \in Resume /\ p \in Forced
      BY <2>1, <3>1, LockAssumption DEF NotAcquired, Goto, IInv, TypeOK, ResumePath,
         ProtectedHolderOwnsFile, Holds, OwnFile
    <3>2. CASE ~(p \in Resume /\ p \in Forced)
      BY <2>1, <3>2, MoveKeeps DEF NotAcquired
    <3>. QED
      BY <3>1, <3>2
  <2>2. CASE Read(p, "acqRead", "acqJudge")
    BY <2>2, ReadKeeps
  <2>3. CASE Move(p, "acqJudge", "acqCreate")
    BY <2>3, MoveKeeps
  <2>4. CASE OpenExclusive(p, "acqWrite")
    BY <2>4, OpenKeeps
  <2>5. CASE WriteHandle(p, "acqWrite", "session")
    BY <2>5, WriteKeeps
  <2>. QED
    BY <1>11, <2>1, <2>2, <2>3, <2>4, <2>5 DEF AcquireLock
<1>12. CASE ResumeFails(p)
  BY <1>12, UnlinkKeeps DEF ResumeFails
<1>13. CASE EndSession(p)
  BY <1>13, MoveKeeps DEF EndSession
<1>14. CASE ReleaseLock(p)
  BY <1>0, <1>14, UnlinkKeeps DEF ReleaseLock
<1>15. CASE ReleaseLockNew(p)
  BY <1>15, UnlinkKeeps DEF ReleaseLockNew
<1>16. CASE Terminate(p)
  BY <1>16, UnlinkKeeps DEF Terminate, Holds
<1>17. CASE Crash(p)
  BY <1>17, MoveKeeps DEF Crash
<1>. QED
  BY <1>1, <1>2, <1>3, <1>4, <1>5, <1>6, <1>7, <1>8, <1>9, <1>10, <1>11, <1>12,
     <1>13, <1>14, <1>15, <1>16, <1>17 DEF Step

(* The invariant holds in every reachable state.                            *)
THEOREM LockInvariant == Spec => []IInv
<1>1. Init => IInv
  BY InitEstablishes
<1>2. IInv /\ [Next]_vars => IInv'
  <2>. SUFFICES ASSUME IInv, [Next]_vars PROVE IInv'
    OBVIOUS
  <2>1. CASE Next
    BY <2>1, StepKeeps DEF Next
  <2>2. CASE UNCHANGED vars
    BY <2>2 DEF vars, IInv, TypeOK, ResumePath, ProtectedHolderOwnsFile, Holds, OwnFile
  <2>. QED
    BY <2>1, <2>2
<1>. QED
  BY <1>1, <1>2, PTL DEF Spec

(* The lock file and every process's place in its command keep their types. *)
THEOREM LockTypeOK == Spec => []TypeOK
<1>1. IInv => TypeOK
  BY DEF IInv
<1>. QED
  BY <1>1, LockInvariant, PTL

(* Unless somebody removed it, the file at the lock path belongs to the     *)
(* process that relies on it (writeLockFile's O_EXCL).                      *)
THEOREM HolderOwnsFile == Spec => []ProtectedHolderOwnsFile
<1>1. IInv => ProtectedHolderOwnsFile
  BY DEF IInv
<1>. QED
  BY <1>1, LockInvariant, PTL

-----------------------------------------------------------------------------
(* Past its probe, a process that was not forced has seen nobody who runs.   *)
PastProbe ==
    {"prompt", "unlink", "create", "write", "acquired", "cleanRead", "cleanUnlink",
     "acqCreate", "acqWrite", "session", "terminating", "release", "releaseAgain"}

SeenIsGone == \A q \in Proc \ Forced : pc[q] \in PastProbe => ~Running(seen[q])

(* Where a step takes its process from and to, and what it may have read.    *)
LEMMA StepTaken ==
    ASSUME TypeOK, NEW p \in Proc, Step(p)
    PROVE  /\ pc[p] \notin {"exited", "refused"}
           /\ \E to \in PcValues :
                /\ pc' = [pc EXCEPT ![p] = to]
                /\ \/ seen' = seen
                   \/ to \in {"judge", "cleanJudge", "acqJudge"} /\ seen' = [seen EXCEPT ![p] = ReadPid]
                /\ (p \notin Forced /\ to \in PastProbe)
                   => pc[p] \in PastProbe \/ ~Running(seen[p])
<1>. USE DEF Move, Goto, Read, Unlink, OpenExclusive, WriteHandle, PcValues, PastProbe
<1>1. CASE CheckLock(p)
  BY <1>1 DEF CheckLock
<1>2. CASE JudgeLock(p)
  BY <1>2, LockAssumption DEF JudgeLock, Running
<1>3. CASE PromptCleanStaleLock(p)
  BY <1>3 DEF PromptCleanStaleLock
<1>4. CASE DeleteLockFile(p)
  BY <1>4 DEF DeleteLockFile
<1>5. CASE TryWriteLockFile(p)
  BY <1>5 DEF TryWriteLockFile
<1>6. CASE WriteContents(p)
  BY <1>6 DEF WriteContents
<1>7. CASE WriteFails(p)
  BY <1>7 DEF WriteFails
<1>8. CASE EnterSession(p)
  BY <1>8 DEF EnterSession
<1>9. CASE JudgeSession(p)
  BY <1>9, LockAssumption DEF JudgeSession, Running
<1>10. CASE CleanStaleLock(p)
  BY <1>10 DEF CleanStaleLock
<1>11. CASE AcquireLock(p)
  BY <1>11 DEF AcquireLock, NotAcquired
<1>12. CASE ResumeFails(p)
  BY <1>12 DEF ResumeFails
<1>13. CASE EndSession(p)
  BY <1>13 DEF EndSession, InSession
<1>14. CASE ReleaseLock(p)
  BY <1>14 DEF ReleaseLock
<1>15. CASE ReleaseLockNew(p)
  BY <1>15 DEF ReleaseLockNew
<1>16. CASE Terminate(p)
  BY <1>16 DEF Terminate
<1>17. CASE Crash(p)
  BY <1>17 DEF Crash
<1>. QED
  BY <1>1, <1>2, <1>3, <1>4, <1>5, <1>6, <1>7, <1>8, <1>9, <1>10, <1>11, <1>12,
     <1>13, <1>14, <1>15, <1>16, <1>17 DEF Step

(* Who is gone stays gone, so what a process has seen stays true.            *)
LEMMA SeenIsGoneKept == TypeOK /\ SeenIsGone /\ [Next]_vars => SeenIsGone'
<1>. SUFFICES ASSUME TypeOK, SeenIsGone, Next PROVE SeenIsGone'
  BY DEF SeenIsGone, Running, vars
<1>1. PICK p \in Proc : Step(p)
  BY DEF Next
<1>2. pc[p] \notin {"exited", "refused"}
  BY <1>1, StepTaken
<1>3. PICK to \in PcValues :
        /\ pc' = [pc EXCEPT ![p] = to]
        /\ \/ seen' = seen
           \/ to \in {"judge", "cleanJudge", "acqJudge"} /\ seen' = [seen EXCEPT ![p] = ReadPid]
        /\ (p \notin Forced /\ to \in PastProbe) => pc[p] \in PastProbe \/ ~Running(seen[p])
  BY <1>1, StepTaken
<1>4. \A x : (x \in Proc => pc[x] \in {"exited", "refused"}) => (x \in Proc => pc'[x] \in {"exited", "refused"})
  BY <1>2, <1>3 DEF TypeOK
<1>5. ASSUME NEW q \in Proc \ Forced, pc'[q] \in PastProbe
      PROVE  seen'[q] \in Proc => pc'[seen'[q]] \in {"exited", "refused"}
  <2>1. pc[q] \in PastProbe \/ ~Running(seen[q])
    <3>1. CASE q = p
      BY <1>3, <1>5, <3>1 DEF TypeOK
    <3>2. CASE q # p
      BY <1>3, <1>5, <3>2 DEF TypeOK
    <3>. QED
      BY <3>1, <3>2
  <2>2. seen[q] \in Proc => pc[seen[q]] \in {"exited", "refused"}
    BY <2>1 DEF SeenIsGone, Running
  <2>3. seen'[q] = seen[q]
    BY <1>3, <1>5 DEF TypeOK, PastProbe
  <2>. QED
    BY <1>4, <2>2, <2>3
<1>. QED
  BY <1>5 DEF SeenIsGone, Running

(* A step that takes a file away comes after the probe, or is a refusal.     *)
LEMMA RemovalIsPastProbe ==
    ASSUME NEW p \in Proc, NEW q \in Proc, p # q, Step(q), OwnFile(p), ~OwnFile(p)'
    PROVE  pc[q] \in PastProbe \cup {"resumeFailed"}
BY DEF Step, CheckLock, JudgeLock, PromptCleanStaleLock, DeleteLockFile, TryWriteLockFile,
   WriteContents, WriteFails, EnterSession, JudgeSession, CleanStaleLock, AcquireLock, NotAcquired,
   ResumeFails, EndSession, ReleaseLock, ReleaseLockNew, Terminate, Crash, Move, Read, Unlink,
   OpenExclusive, WriteHandle, OwnFile, PastProbe

(* What a process found when it probed the owner of the lock holds to its    *)
(* end: it never removes the file of an owner it saw alive (lock.ts).        *)
THEOREM SeenOwnerIsLeftAlone == Spec => SeenOwnerKeepsItsLock
<1>. DEFINE kept == \A p, q \in Proc :
                      (Step(q) /\ seen[q] = p /\ p # q /\ Holds(p) /\ OwnFile(p)
                       /\ q \notin Forced /\ pc[q] # "resumeFailed") => OwnFile(p)'
<1>1. Init => SeenIsGone
  BY DEF Init, SeenIsGone, PastProbe
<1>2. IInv /\ SeenIsGone /\ [Next]_vars => SeenIsGone'
  BY SeenIsGoneKept DEF IInv
<1>3. SeenIsGone => kept
  <2>. SUFFICES ASSUME SeenIsGone, NEW p \in Proc, NEW q \in Proc, Step(q), seen[q] = p, p # q,
                       Holds(p), OwnFile(p), q \notin Forced, pc[q] # "resumeFailed", ~OwnFile(p)'
                PROVE  FALSE
    OBVIOUS
  <2>1. pc[q] \in PastProbe
    BY RemovalIsPastProbe
  <2>2. ~Running(p)
    BY <2>1 DEF SeenIsGone
  <2>. QED
    BY <2>2 DEF Running, Holds, HoldsAt
<1>4. SeenIsGone => [kept]_vars
  BY <1>3
<1>. QED
  BY <1>1, <1>2, <1>4, LockInvariant, PTL DEF Spec, SeenOwnerKeepsItsLock
=============================================================================
