---------------------- MODULE SessionPersistence_proofs ----------------------
(***************************************************************************)
(* What SessionPersistence guarantees for any number of commands and tasks,  *)
(* any mix of run and resume with and without --headless, and crashes        *)
(* anywhere.                                                                 *)
(*                                                                         *)
(* A step is one process's.  The invariant is a conjunction over processes,   *)
(* of what holds of the process that steps and, by one lemma for all          *)
(* actions, of the others: their memory is their own, and they meet in file,  *)
(* tracker and lock only.                                                    *)
(***************************************************************************)
EXTENDS SessionPersistence, FiniteSetTheorems, SequenceTheorems, TLAPS

Steady == ~disturbed

Holding(p) == InSession(p) \/ pc[p] = "save"

Working(p) == engine[p].phase \in {"activated", "agent", "completed", "reported"}

(* One session at a time, and the one that begins has the lock.             *)
OneAtATime ==
    \A p, q \in Proc : p # q => ~(Holding(p) /\ Holding(q))

OneIsBusy ==
    Steady => \A p, q \in Proc : Busy(p) /\ Busy(q) => p = q

(* Which command may be where, and how far its engine is there.             *)
CommandInv(p) ==
    /\ pc[p] = "save" => lock = p
    /\ pc[p] \notin {"idle", "exited"} => kind[p] \in Commands
    /\ pc[p] = "stopping" => kind[p] = "run"
    /\ pc[p] \in {"resetActive"} \cup Ending => kind[p] \in {"run", "runHeadless"}
    /\ pc[p] \in {"drain", "dispose"} => kind[p] # "run"

EngineInv(p) ==
    /\ ~InSession(p) => engine[p].phase = "stopped"
    /\ ~InSession(p) /\ pc[p] # "drain" => pending[p] = <<>>
    /\ pc[p] \in Ending => engine[p].phase = "stopped"
    /\ kind[p] = "run" /\ pc[p] \in {"resetActive", "saveQuit"} => engine[p].phase = "stopped"
    /\ engine[p].tasksCompleted + (IF Working(p) THEN 1 ELSE 0) <= engine[p].iteration

(* The task in hand, in the tracker.                                         *)
WorkInv(p) ==
    /\ Working(p) => engine[p].cur \in Task
    /\ engine[p].phase \in {"activated", "agent"} => tracker[engine[p].cur] # "completed"
    /\ engine[p].phase \in {"completed", "reported"} => tracker[engine[p].cur] # p

(* What a process has in progress it knows, or has set back.                *)
OwnInv(p) ==
    /\ \A t \in Task : tracker[t] = p => InSession(p) \/ pc[p] \in {"drain", "exited"}
    /\ InSession(p) /\ ~HasSetBack(p) /\ Accountable(p) =>
          \A t \in Task : tracker[t] = p =>
              t \in mem[p].active \/ (At(p, "activated") /\ engine[p].cur = t)
    /\ HasSetBack(p) =>
          \A t \in Task : tracker[t] = p =>
              t \in reset[p].failed /\ (t \in mem[p].active \/ reset[p].counted)
    /\ kind[p] = "run" /\ pc[p] = "resetActive" =>
          /\ todo[p] \subseteq mem[p].active
          /\ \A t \in Task : tracker[t] = p => t \in todo[p] \cup reset[p].failed

(* What was saved can be resumed ...                                        *)
ResumableInv(p) ==
    pc[p] \in {"session"} \cup Shutdown =>
        /\ IsSessionResumable(mem[p])
        /\ \A i \in DOMAIN pending[p] : IsSessionResumable(pending[p][i])
        /\ Steady => IsSessionResumable(file)

(* ... and the last save has the active tasks that the memory has.           *)
Saved == ({"session"} \cup Shutdown \cup Ending) \ {"saveQuit", "release"}

LastSaveInv(p) ==
    Steady =>
        /\ pc[p] \in Saved \cup {"drain"} /\ pending[p] # <<>>
              => pending[p][Len(pending[p])].active = mem[p].active
        /\ pc[p] \in Saved /\ pending[p] = <<>> => file.active = mem[p].active
        /\ pc[p] = "release" => pending[p] = <<>>

(* The memory lists no completed task but the one just completed.            *)
MemoryInv(p) ==
    Steady /\ Busy(p) =>
        \A t \in mem[p].active :
            tracker[t] = "completed"
              => t \in exposed \/ (engine[p].phase = "completed" /\ engine[p].cur = t)

(* Only a run asks what to do with an old session; a resume that recovered   *)
(* the session it loaded has set back its tasks.                             *)
RecoveryInv(p) ==
    /\ pc[p] \in {"idle", "load", "checkSession", "detect"} => found[p].active = {}
    /\ pc[p] \in {"prompt", "delete"} => ~Resumes(p)
    /\ pc[p] = "reset" => todo[p] \subseteq found[p].active
    /\ Steady /\ Resumes(p) /\ pc[p] \in {"acquire", "save"} /\ found[p].active # {} =>
          /\ \A q \in Proc \ {p} : ~InSession(q)
          /\ \A t \in found[p].active : tracker[t] = "completed" => t \in exposed

ProcessInv(p) ==
    /\ CommandInv(p) /\ EngineInv(p) /\ WorkInv(p) /\ OwnInv(p)
    /\ ResumableInv(p) /\ LastSaveInv(p) /\ MemoryInv(p) /\ RecoveryInv(p)

Types == TypeOK /\ pending \in [Proc -> Seq(State)]

IInv ==
    /\ Types /\ OneAtATime /\ OneIsBusy /\ CompletedIsNotListed
    /\ \A p \in Proc : ProcessInv(p)

-----------------------------------------------------------------------------
(* What the operations on the state return.                                 *)
Statuses == {"none", "running", "paused", "interrupted", "completed", "failed"}

(* A task added to or taken from the active ones; the status stays.          *)
LEMMA StateOps ==
    ASSUME NEW s \in State, NEW t \in Task, NEW x \in Statuses
    PROVE  /\ AddActive(s, t) \in State /\ AddActive(s, t).active = s.active \cup {t}
           /\ AddActive(s, t).status = s.status
           /\ RemoveActive(s, t) \in State /\ RemoveActive(s, t).active = s.active \ {t}
           /\ RemoveActive(s, t).status = s.status
           /\ AfterIteration(s, t) \in State /\ AfterIteration(s, t).active = s.active \ {t}
           /\ AfterIteration(s, t).status = s.status
BY DEF State, AddActive, RemoveActive, AfterIteration

(* Active tasks are cleared, or the status is changed.                       *)
LEMMA StateEnds ==
    ASSUME NEW s \in State
    PROVE  /\ ClearActive(s) \in State /\ ClearActive(s).active = {}
           /\ ClearActive(s).status = s.status
           /\ Recovered(s) \in State /\ Recovered(s).active = {}
           /\ \A x \in Statuses : /\ WithStatus(s, x) \in State
                                  /\ WithStatus(s, x).active = s.active
                                  /\ WithStatus(s, x).status = x
BY DEF State, ClearActive, WithStatus, Recovered, Statuses

(* No session and a new one list no task.                                    *)
LEMMA NewStates ==
    /\ NoSession \in State /\ NoSession.active = {}
    /\ NewSession \in State /\ NewSession.active = {} /\ NewSession.status = "running"
BY DEF State, NoSession, NewSession

(* A save that is added is the last ...                                     *)
LEMMA SaveAdded ==
    ASSUME NEW S, NEW s \in Seq(S), NEW x \in S
    PROVE  /\ Append(s, x) \in Seq(S) /\ Append(s, x) # <<>>
           /\ Len(Append(s, x)) = Len(s) + 1 /\ Append(s, x)[Len(Append(s, x))] = x
           /\ Len(Append(s, x)) \in DOMAIN Append(s, x)
           /\ \A i \in DOMAIN s : i \in DOMAIN Append(s, x) /\ Append(s, x)[i] = s[i]
           /\ \A i \in DOMAIN Append(s, x) : Append(s, x)[i] = x \/ \E j \in DOMAIN s : Append(s, x)[i] = s[j]
OBVIOUS

(* The last of the rest is the last of all.                                  *)
LEMMA TailEnds ==
    ASSUME NEW S, NEW s \in Seq(S), s # <<>>, Tail(s) # <<>>
    PROVE  /\ Tail(s)[Len(Tail(s))] = s[Len(s)] /\ Len(s) # 1
           /\ Len(Tail(s)) \in DOMAIN Tail(s)
<1>1. Len(s) \in Nat /\ Len(s) # 0
  OBVIOUS
<1>2. Tail(s) \in Seq(S) /\ Len(Tail(s)) = Len(s) - 1 /\ Len(Tail(s)) # 0
  BY <1>1
<1>3. Len(Tail(s)) \in 1..(Len(s) - 1)
  BY <1>1, <1>2
<1>4. Tail(s)[Len(Tail(s))] = s[Len(Tail(s)) + 1]
  BY <1>1, <1>3
<1>5. Len(Tail(s)) + 1 = Len(s) /\ Len(s) # 1
  BY <1>1, <1>2
<1>. QED
  BY <1>2, <1>3, <1>4, <1>5

(* ... and one that lands leaves the others, in their order.                *)
LEMMA SaveTaken ==
    ASSUME NEW S, NEW s \in Seq(S), NEW i \in 1..Len(s)
    PROVE  /\ RemoveAt(s, i) \in Seq(S) /\ Len(RemoveAt(s, i)) = Len(s) - 1
           /\ \A j \in DOMAIN RemoveAt(s, i) : \E k \in DOMAIN s : RemoveAt(s, i)[j] = s[k]
           /\ i = 1 => RemoveAt(s, i) = Tail(s)
<1>. DEFINE a == SubSeq(s, 1, i - 1)
            b == SubSeq(s, i + 1, Len(s))
<1>1. a \in Seq(S) /\ Len(a) = i - 1 /\ \A j \in 1..(i - 1) : a[j] = s[j]
  OBVIOUS
<1>2. b \in Seq(S) /\ Len(b) = Len(s) - i /\ \A j \in 1..(Len(s) - i) : b[j] = s[i + j]
  OBVIOUS
<1>3. RemoveAt(s, i) = a \o b
  BY DEF RemoveAt
<1>. HIDE DEF a, b
<1>4. /\ a \o b \in Seq(S) /\ Len(a \o b) = Len(s) - 1
      /\ \A j \in 1..(Len(s) - 1) : (a \o b)[j] = IF j < i THEN s[j] ELSE s[j + 1]
  <2>1. a \o b \in Seq(S) /\ Len(a \o b) = Len(a) + Len(b)
    BY <1>1, <1>2, ConcatProperties
  <2>2. \A j \in 1..(Len(a) + Len(b)) :
            (a \o b)[j] = IF j <= Len(a) THEN a[j] ELSE b[j - Len(a)]
    BY <1>1, <1>2, ConcatProperties
  <2>3. Len(s) \in Nat /\ i \in Nat /\ i >= 1 /\ i <= Len(s)
    OBVIOUS
  <2>4. ASSUME NEW j \in 1..(Len(s) - 1), j < i PROVE (a \o b)[j] = s[j]
    BY <1>1, <1>2, <2>2, <2>3, <2>4
  <2>5. ASSUME NEW j \in 1..(Len(s) - 1), ~(j < i) PROVE (a \o b)[j] = s[j + 1]
    <3>1. (a \o b)[j] = b[j - Len(a)]
      BY <1>1, <1>2, <2>2, <2>3, <2>5
    <3>2. j - Len(a) \in 1..(Len(s) - i) /\ i + (j - Len(a)) = j + 1
      BY <1>1, <2>3, <2>5
    <3>. QED
      BY <1>2, <3>1, <3>2
  <2>. QED
    BY <1>1, <1>2, <2>1, <2>3, <2>4, <2>5
<1>5. \A j \in 1..(Len(s) - 1) : j \in 1..Len(s) /\ j + 1 \in 1..Len(s)
  OBVIOUS
<1>6. DOMAIN (a \o b) = 1..(Len(s) - 1) /\ DOMAIN s = 1..Len(s)
  BY <1>4
<1>7. \A j \in DOMAIN (a \o b) : \E k \in DOMAIN s : (a \o b)[j] = s[k]
  BY <1>4, <1>5, <1>6
<1>8. i = 1 => a \o b = Tail(s)
  <2>. SUFFICES ASSUME i = 1 PROVE a \o b = Tail(s)
    OBVIOUS
  <2>1. Tail(s) \in Seq(S) /\ Len(Tail(s)) = Len(s) - 1 /\ \A j \in 1..(Len(s) - 1) : Tail(s)[j] = s[j + 1]
    OBVIOUS
  <2>. QED
    BY <1>4, <2>1
<1>. QED
  BY <1>3, <1>4, <1>7, <1>8

-----------------------------------------------------------------------------
(* What a process records in the file.                                      *)
RecordedBy(p, t) ==
    \/ At(p, "completed") /\ engine[p].cur = t
    \/ \E i \in DOMAIN pending[p] : t \notin pending[p][i].active
    \/ pc[p] = "saveQuit" /\ t \notin mem[p].active

(* What a step of p leaves alone, and what it may do to the rest.            *)
OthersKept(p) ==
    \A q \in Proc \ {p} :
        /\ pc'[q] = pc[q] /\ kind'[q] = kind[q] /\ mem'[q] = mem[q] /\ todo'[q] = todo[q]
        /\ reset'[q] = reset[q]
        /\ engine'[q] = engine[q] /\ pending'[q] = pending[q]
        /\ found'[q] = found[q] \/ (pc[q] = "acquire" /\ found'[q].active = {})
        /\ pc[p] = "save" /\ InSession(p)' /\ pc[q] = "acquire" => found'[q].active = {}

SharedKept(p) ==
    /\ disturbed => disturbed'
    /\ exposed \subseteq exposed'
    /\ OthersBusy(p) /\ ~disturbed' => file' = file
    /\ \A t \in Task : \/ tracker'[t] \in {tracker[t], "open"}
                       \/ InSession(p) /\ tracker'[t] \in {p, "completed"}
    /\ lock' = lock \/ InSession(p) \/ (pc[p] = "acquire" /\ ~LockHeld)

SessionEntered(p) ==
    /\ Holding(p)' => \/ Holding(p)
                      \/ pc[p] = "acquire" /\ ~LockHeld /\ \A q \in Proc : ~InSession(q)
    /\ InSession(p)' => Holding(p)
    /\ Busy(p)' => Busy(p) \/ disturbed' \/ ~OthersBusy(p)

Frame(p) == OthersKept(p) /\ SharedKept(p) /\ SessionEntered(p)

(* What a step of p must show of what the file lists.                        *)
ListedStep(p) ==
    ~disturbed' =>
        \A t \in file'.active : tracker'[t] = "completed" =>
            \/ t \in exposed' \/ RecordedBy(p, t)'
            \/ /\ t \in file.active /\ tracker[t] = "completed"
               /\ t \notin exposed /\ ~RecordedBy(p, t)

(* One session at a time, and one process with something to save.            *)
LEMMA StaysAlone ==
    ASSUME IInv, NEW p \in Proc, Frame(p)
    PROVE  OneAtATime' /\ OneIsBusy'
<1>1. \A q \in Proc \ {p} : /\ (InSession(q)' <=> InSession(q)) /\ (Holding(q)' <=> Holding(q))
                            /\ (Busy(q)' <=> Busy(q))
  BY DEF Frame, OthersKept, InSession, Holding, Busy
<1>2. ASSUME NEW q \in Proc \ {p}, Holding(p)', Holding(q)
      PROVE  FALSE
  <2>1. CASE Holding(p)
    BY <1>2, <2>1 DEF IInv, OneAtATime
  <2>2. CASE pc[p] = "acquire" /\ ~LockHeld /\ \A r \in Proc : ~InSession(r)
    <3>1. pc[q] = "save" /\ lock = q
      BY <1>2, <2>2 DEF Holding, IInv, ProcessInv, CommandInv
    <3>2. LockHeld
      BY <3>1, PersistenceAssumption DEF LockHeld, Alive
    <3>. QED
      BY <2>2, <3>2
  <2>. QED
    BY <1>2, <2>1, <2>2 DEF Frame, SessionEntered
<1>3. OneAtATime'
  BY <1>1, <1>2 DEF IInv, OneAtATime
<1>4. ASSUME Steady', NEW q \in Proc \ {p}, Busy(p)', Busy(q)
      PROVE  FALSE
  <2>1. Steady
    BY <1>4 DEF Steady, Frame, SharedKept
  <2>2. ~Busy(p)
    BY <1>4, <2>1 DEF IInv, OneIsBusy
  <2>3. OthersBusy(p)
    BY <1>4 DEF OthersBusy
  <2>. QED
    BY <1>4, <2>2, <2>3 DEF Frame, SessionEntered, Steady
<1>5. OneIsBusy'
  <2>1. Steady' => Steady
    BY DEF Steady, Frame, SharedKept
  <2>. QED
    BY <1>1, <1>4, <2>1 DEF IInv, OneIsBusy
<1>. QED
  BY <1>3, <1>5

(* The step of one process keeps the invariant of the others.                *)
LEMMA OthersInv ==
    ASSUME IInv, NEW p \in Proc, Frame(p), NEW q \in Proc \ {p}
    PROVE  ProcessInv(q)'
<1>1. /\ pc'[q] = pc[q] /\ kind'[q] = kind[q] /\ mem'[q] = mem[q] /\ todo'[q] = todo[q]
        /\ reset'[q] = reset[q]
      /\ engine'[q] = engine[q] /\ pending'[q] = pending[q]
  BY DEF Frame, OthersKept
<1>2. ProcessInv(q)
  BY DEF IInv
<1>3. Steady' => Steady
  BY DEF Steady, Frame, SharedKept
<1>4. \A t \in Task : tracker'[t] = q => tracker[t] = q
  BY PersistenceAssumption DEF Frame, SharedKept
<1>5. ASSUME Holding(q) PROVE \A t \in Task : tracker'[t] \in {tracker[t], "open"}
  <2>1. ~InSession(p)
    BY <1>5 DEF IInv, OneAtATime, Holding
  <2>. QED
    BY <2>1 DEF Frame, SharedKept
<1>6. ASSUME Steady', Busy(q)
      PROVE  file' = file /\ \A t \in Task : tracker'[t] \in {tracker[t], "open"}
  <2>1. ~Busy(p)
    BY <1>3, <1>6 DEF IInv, OneIsBusy
  <2>2. ~InSession(p)
    BY <2>1 DEF Busy
  <2>3. OthersBusy(p)
    BY <1>6 DEF OthersBusy
  <2>. QED
    BY <1>6, <2>2, <2>3 DEF Frame, SharedKept, Steady
<1>7. CommandInv(q)'
  <2>1. ASSUME pc[q] = "save" PROVE lock' = lock
    <3>1. ~InSession(p) /\ Holding(q)
      BY <2>1 DEF IInv, OneAtATime, Holding
    <3>2. lock = q
      BY <1>2, <2>1 DEF ProcessInv, CommandInv
    <3>3. LockHeld
      BY <2>1, <3>2, PersistenceAssumption DEF LockHeld, Alive
    <3>. QED
      BY <3>1, <3>3 DEF Frame, SharedKept
  <2>. QED
    BY <1>1, <1>2, <2>1 DEF ProcessInv, CommandInv
<1>8. EngineInv(q)'
  BY <1>1, <1>2 DEF ProcessInv, EngineInv, InSession, Working
<1>9. WorkInv(q)'
  <2>1. Working(q) => InSession(q)
    BY <1>2 DEF ProcessInv, EngineInv, Working
  <2>2. Working(q) => engine[q].cur \in Task /\ tracker'[engine[q].cur] \in {tracker[engine[q].cur], "open"}
    BY <1>2, <1>5, <2>1 DEF ProcessInv, WorkInv, Holding
  <2>. QED
    BY <1>1, <1>2, <1>4, <2>2 DEF ProcessInv, WorkInv, Working
<1>10. OwnInv(q)'
  BY <1>1, <1>2, <1>4 DEF ProcessInv, OwnInv, HasSetBack, Accountable, InSession, At, EngineRuns
<1>11. ResumableInv(q)'
  <2>1. pc[q] \in {"session"} \cup Shutdown => Busy(q)
    BY DEF Busy, InSession
  <2>. QED
    BY <1>1, <1>2, <1>3, <1>6, <2>1 DEF ProcessInv, ResumableInv
<1>12. LastSaveInv(q)'
  <2>1. pc[q] \in Saved \cup {"release"} => Busy(q)
    BY DEF Busy, InSession, Saved, Ending
  <2>. QED
    BY <1>1, <1>2, <1>3, <1>6, <2>1 DEF ProcessInv, LastSaveInv
<1>13. MemoryInv(q)'
  <2>1. Busy(q)' <=> Busy(q)
    BY <1>1 DEF Busy, InSession
  <2>2. mem[q].active \subseteq Task
    BY DEF IInv, Types, TypeOK, State
  <2>3. exposed \subseteq exposed'
    BY DEF Frame, SharedKept
  <2>. QED
    BY <1>1, <1>2, <1>3, <1>6, <2>1, <2>2, <2>3 DEF ProcessInv, MemoryInv
<1>14. RecoveryInv(q)'
  <2>1. found'[q] = found[q] \/ (pc[q] = "acquire" /\ found'[q].active = {})
    BY DEF Frame, OthersKept
  <2>2. CASE found'[q] # found[q]
    BY <1>1, <2>1, <2>2 DEF RecoveryInv
  <2>3. CASE found'[q] = found[q]
    <3>1. SUFFICES ASSUME Steady', Resumes(q), pc[q] \in {"acquire", "save"}, found[q].active # {}
                   PROVE  /\ \A r \in Proc \ {q} : ~InSession(r)'
                          /\ \A t \in found[q].active :
                                tracker'[t] = "completed" => t \in exposed'
      BY <1>1, <1>2, <2>3 DEF ProcessInv, RecoveryInv, Resumes
    <3>2. /\ \A r \in Proc \ {q} : ~InSession(r)
          /\ \A t \in found[q].active : tracker[t] = "completed" => t \in exposed
      BY <1>2, <1>3, <3>1 DEF ProcessInv, RecoveryInv
    <3>3. ~(pc[p] = "save" /\ InSession(p)')
      <4>1. CASE pc[q] = "save"
        BY <4>1 DEF IInv, OneAtATime, Holding
      <4>2. CASE pc[q] = "acquire"
        BY <2>3, <3>1, <4>2 DEF Frame, OthersKept
      <4>. QED
        BY <3>1, <4>1, <4>2
    <3>4. ~InSession(p)'
      BY <3>2, <3>3 DEF Frame, SessionEntered, Holding
    <3>5. \A r \in Proc \ {p} : InSession(r)' <=> InSession(r)
      BY DEF Frame, OthersKept, InSession
    <3>6. found[q].active \subseteq Task
      BY DEF IInv, Types, TypeOK, State
    <3>7. \A t \in Task : tracker'[t] \in {tracker[t], "open"}
      BY <3>2 DEF Frame, SharedKept
    <3>. QED
      BY <3>2, <3>4, <3>5, <3>6, <3>7 DEF Frame, SharedKept
  <2>. QED
    BY <2>2, <2>3
<1>. QED
  BY <1>7, <1>8, <1>9, <1>10, <1>11, <1>12, <1>13, <1>14 DEF ProcessInv

(* What another process records it goes on recording.                        *)
LEMMA ListedInv ==
    ASSUME IInv, NEW p \in Proc, Frame(p), ListedStep(p)
    PROVE  CompletedIsNotListed'
<1>. SUFFICES ASSUME ~disturbed', NEW t \in file'.active, tracker'[t] = "completed",
                     t \notin exposed', ~RecordedBy(p, t)'
              PROVE  \E q \in Proc : RecordedBy(q, t)'
  BY DEF CompletedIsNotListed, BeingRecorded, RecordedBy
<1>1. t \in file.active /\ tracker[t] = "completed" /\ t \notin exposed /\ ~RecordedBy(p, t)
  BY DEF ListedStep
<1>2. ~disturbed
  BY DEF Frame, SharedKept
<1>3. PICK q \in Proc : RecordedBy(q, t)
  BY <1>1, <1>2 DEF IInv, CompletedIsNotListed, BeingRecorded, RecordedBy
<1>4. q # p
  BY <1>1, <1>3
<1>5. RecordedBy(q, t)'
  BY <1>3, <1>4 DEF Frame, OthersKept, RecordedBy, At, EngineRuns
<1>. QED
  BY <1>5

-----------------------------------------------------------------------------
(* The functions of the state, to be updated at one process.                 *)
LEMMA Functions ==
    ASSUME IInv
    PROVE  /\ tracker \in [Task -> {"open", "completed"} \cup Proc]
           /\ file \in State /\ lock \in Proc \cup {NoProc}
           /\ pc \in [Proc -> PcValues] /\ kind \in [Proc -> Commands \cup {"none"}]
           /\ mem \in [Proc -> State] /\ found \in [Proc -> State]
           /\ todo \in [Proc -> SUBSET Task] /\ engine \in [Proc -> Engine]
           /\ reset \in [Proc -> Resets]
           /\ pending \in [Proc -> Seq(State)]
           /\ \A p \in Proc : Len(pending[p]) <= MaxPending
           /\ exposed \subseteq Task /\ disturbed \in BOOLEAN
BY DEF IInv, Types, TypeOK

(* A function updated at one place, in terms of its new value.               *)
LEMMA UpdatedAtOne ==
    ASSUME NEW S, NEW T, NEW f \in [S -> T], NEW p \in S, NEW g, g[p] \in T,
           g = [f EXCEPT ![p] = g[p]]
    PROVE  g \in [S -> T] /\ \A q \in S \ {p} : g[q] = f[q]
<1>1. PICK x : x = g[p]
  OBVIOUS
<1>2. g = [f EXCEPT ![p] = x] /\ x \in T
  BY <1>1
<1>. QED
  BY <1>2

(* Nothing is reset yet.                                                     *)
LEMMA NothingResetYet == NothingReset \in Resets
BY DEF NothingReset, Resets

(* No engine: it is stopped and has counted nothing.                         *)
LEMMA StartsNowhere ==
    NoEngine \in Engine /\ NoEngine.phase = "stopped"
      /\ NoEngine.iteration = 0 /\ NoEngine.tasksCompleted = 0
<1>1. Cardinality(Task) \in Nat
  BY PersistenceAssumption, FS_CardinalityType
<1>. QED
  BY <1>1, PersistenceAssumption DEF NoEngine, Engine, Phases

(* A process that has exited has nothing more to do or to say; what it still *)
(* recorded must be exposed, or be recorded no longer.                       *)
LEMMA ExitInv ==
    ASSUME IInv, NEW p \in Proc, Exit(p), pc[p] # "idle",
           tracker' = tracker, file' = file, disturbed' = disturbed,
           lock' \in {lock, NoProc}, lock' = lock \/ InSession(p),
           exposed \subseteq exposed', exposed' \subseteq Task,
           \A t \in file.active : ~disturbed /\ tracker[t] = "completed" /\ RecordedBy(p, t)
                                    => t \in exposed'
    PROVE  Types' /\ Frame(p) /\ ProcessInv(p)' /\ ListedStep(p)
<1>1. /\ pc'[p] = "exited" /\ kind'[p] = "none" /\ mem'[p] = NoSession /\ found'[p] = NoSession
      /\ todo'[p] = {} /\ engine'[p] = NoEngine /\ pending'[p] = <<>>
  BY Functions DEF Exit
<1>2. \A q \in Proc \ {p} :
        /\ pc'[q] = pc[q] /\ kind'[q] = kind[q] /\ mem'[q] = mem[q] /\ todo'[q] = todo[q]
        /\ reset'[q] = reset[q]
        /\ engine'[q] = engine[q] /\ pending'[q] = pending[q] /\ found'[q] = found[q]
  BY Functions DEF Exit
<1>3. Types'
  <2>1. /\ pc' \in [Proc -> PcValues] /\ kind' \in [Proc -> Commands \cup {"none"}]
        /\ mem' \in [Proc -> State] /\ found' \in [Proc -> State]
        /\ todo' \in [Proc -> SUBSET Task] /\ reset' \in [Proc -> Resets]
    BY Functions, NewStates, NothingResetYet DEF Exit, PcValues
  <2>2. engine' \in [Proc -> Engine] /\ pending' \in [Proc -> Seq(State)]
    BY Functions, StartsNowhere DEF Exit
  <2>3. \A q \in Proc : pending'[q] \in Seq(State) /\ Len(pending'[q]) <= MaxPending
    <3>1. Len(pending'[p]) = 0 /\ pending'[p] \in Seq(State)
      BY <1>1
    <3>2. \A q \in Proc \ {p} : pending'[q] \in Seq(State) /\ Len(pending'[q]) <= MaxPending
      BY <1>2, Functions
    <3>. QED
      BY <3>1, <3>2, PersistenceAssumption
  <2>. QED
    BY <2>1, <2>2, <2>3, Functions DEF Types, TypeOK
<1>4. ~InSession(p)' /\ ~Holding(p)' /\ ~Busy(p)'
  BY <1>1 DEF InSession, Holding, Busy, Shutdown, Ending
<1>5. OthersKept(p)
  BY <1>2, <1>4 DEF OthersKept
<1>6. SharedKept(p) /\ SessionEntered(p)
  BY <1>4, Functions DEF SharedKept, SessionEntered
<1>7. ProcessInv(p)'
  <2>1. CommandInv(p)' /\ EngineInv(p)' /\ WorkInv(p)'
    BY <1>1, <1>4, StartsNowhere DEF CommandInv, EngineInv, WorkInv, Working, Ending
  <2>2. OwnInv(p)' /\ ResumableInv(p)' /\ LastSaveInv(p)' /\ MemoryInv(p)' /\ RecoveryInv(p)'
    BY <1>1, <1>4 DEF OwnInv, HasSetBack, Accountable, ResumableInv, LastSaveInv, MemoryInv,
       RecoveryInv, Shutdown,
                      Ending, Saved
  <2>. QED
    BY <2>1, <2>2 DEF ProcessInv
<1>8. ListedStep(p)
  BY DEF ListedStep
<1>. QED
  BY <1>3, <1>5, <1>6, <1>7, <1>8 DEF Frame

(* Before its session a process has nothing to save and no engine.           *)
LEMMA SetupInv ==
    ASSUME IInv, NEW p \in Proc, pc[p] \in Setup \cup {"idle"},
           pc'[p] \in Setup, pc' = [pc EXCEPT ![p] = pc'[p]],
           kind'[p] \in Commands, kind' = [kind EXCEPT ![p] = kind'[p]],
           mem'[p] \in State, mem' = [mem EXCEPT ![p] = mem'[p]],
           found'[p] \in State, found' = [found EXCEPT ![p] = found'[p]],
           todo'[p] \subseteq Task, todo' = [todo EXCEPT ![p] = todo'[p]],
           UNCHANGED <<reset, engine, pending, exposed>>,
           pc[p] = "save" => FALSE,
           pc'[p] = "save" => lock' = p /\ pc[p] = "acquire" /\ ~LockHeld
                                /\ \A q \in Proc : ~InSession(q),
           pc'[p] # "save" => lock' = lock,
           file' \in State, file' = file \/ file'.active = {},
           file' = file \/ (OthersBusy(p) => disturbed'),
           \A t \in Task : tracker'[t] \in {tracker[t], "open"},
           tracker' \in [Task -> {"open", "completed"} \cup Proc],
           disturbed' \in BOOLEAN, disturbed => disturbed',
           RecoveryInv(p)'
    PROVE  Types' /\ Frame(p) /\ ProcessInv(p)' /\ ListedStep(p)
<1>1. /\ ~InSession(p) /\ ~InSession(p)' /\ pc[p] # "drain" /\ pc'[p] # "drain"
      /\ pc[p] # "exited" /\ pc'[p] \notin {"idle", "exited", "drain", "saveQuit"}
      /\ pc'[p] \notin {"session"} \cup Shutdown \cup Ending
  BY DEF Setup, Shutdown, Ending, InSession
<1>2. ProcessInv(p)
  BY DEF IInv
<1>3. engine[p].phase = "stopped" /\ pending[p] = <<>>
  BY <1>1, <1>2 DEF ProcessInv, EngineInv
<1>4. \A q \in Proc \ {p} :
        /\ pc'[q] = pc[q] /\ kind'[q] = kind[q] /\ mem'[q] = mem[q] /\ todo'[q] = todo[q]
        /\ reset'[q] = reset[q]
        /\ engine'[q] = engine[q] /\ pending'[q] = pending[q] /\ found'[q] = found[q]
  BY Functions
<1>5. Types'
  <2>1. /\ pc' \in [Proc -> PcValues] /\ kind' \in [Proc -> Commands \cup {"none"}]
        /\ mem' \in [Proc -> State] /\ found' \in [Proc -> State]
        /\ lock' \in Proc \cup {NoProc}
    <3>1. pc'[p] \in PcValues /\ kind'[p] \in Commands \cup {"none"}
      BY DEF PcValues
    <3>2. pc' \in [Proc -> PcValues]
      BY <3>1, Functions, UpdatedAtOne, Zenon
    <3>3. kind' \in [Proc -> Commands \cup {"none"}]
      BY <3>1, Functions
    <3>4. mem' \in [Proc -> State]
      BY Functions
    <3>5. found' \in [Proc -> State]
      BY Functions
    <3>6. lock' \in Proc \cup {NoProc}
      BY Functions
    <3>. QED
      BY <3>2, <3>3, <3>4, <3>5, <3>6
  <2>3. todo' \in [Proc -> SUBSET Task]
    BY Functions
  <2>2. \A q \in Proc : pending'[q] \in Seq(State) /\ Len(pending'[q]) <= MaxPending
    BY Functions
  <2>. QED
    BY <2>1, <2>2, <2>3, Functions DEF Types, TypeOK
<1>6. OthersKept(p)
  BY <1>1, <1>4 DEF OthersKept
<1>7. ~Busy(p)'
  BY <1>1, <1>3 DEF Busy
<1>8. SharedKept(p) /\ SessionEntered(p)
  BY <1>1, <1>7 DEF SharedKept, SessionEntered, Holding
<1>9. ProcessInv(p)'
  <2>1. CommandInv(p)'
    BY <1>1, <1>2 DEF CommandInv, Shutdown, Ending
  <2>2. EngineInv(p)' /\ WorkInv(p)'
    BY <1>1, <1>2, <1>3 DEF ProcessInv, EngineInv, WorkInv, Working
  <2>3. OwnInv(p)'
    <3>1. \A t \in Task : tracker[t] # p
      BY <1>1, <1>2 DEF ProcessInv, OwnInv, HasSetBack, Accountable
    <3>2. \A t \in Task : tracker'[t] # p
      BY <3>1, PersistenceAssumption
    <3>. QED
      BY <1>1, <3>2 DEF OwnInv, HasSetBack, Accountable, Shutdown, Ending
  <2>4. ResumableInv(p)' /\ LastSaveInv(p)' /\ MemoryInv(p)'
    BY <1>1, <1>7 DEF ResumableInv, LastSaveInv, MemoryInv, Saved, Ending
  <2>. QED
    BY <2>1, <2>2, <2>3, <2>4 DEF ProcessInv
<1>10. ListedStep(p)
  <2>1. \A t : ~RecordedBy(p, t)
    BY <1>1, <1>3 DEF RecordedBy, At, EngineRuns, Setup
  <2>. QED
    BY <2>1, Functions DEF ListedStep, State
<1>. QED
  BY <1>5, <1>6, <1>8, <1>9, <1>10 DEF Frame
-----------------------------------------------------------------------------
(* The actions before the session.                                          *)
StepInv(p) == Types' /\ Frame(p) /\ ProcessInv(p)' /\ ListedStep(p)

(* Before its session a process records nothing.                             *)
LEMMA NothingRecorded ==
    ASSUME IInv, NEW p \in Proc, pc[p] \in Setup \cup {"idle"}
    PROVE  /\ pending[p] = <<>> /\ engine[p].phase = "stopped" /\ ~InSession(p)
           /\ \A t : ~RecordedBy(p, t)
<1>1. ~InSession(p) /\ pc[p] # "drain" /\ pc[p] # "saveQuit"
  BY DEF Setup, Shutdown, Ending, InSession
<1>2. pending[p] = <<>> /\ engine[p].phase = "stopped"
  BY <1>1 DEF IInv, ProcessInv, EngineInv
<1>. QED
  BY <1>1, <1>2 DEF RecordedBy, At

(* A file that nobody is about to correct lists nothing that is completed    *)
(* and not exposed.                                                         *)
LEMMA FileIsRight ==
    ASSUME IInv, NEW p \in Proc, pc[p] \in Setup, ~disturbed, ~OthersBusy(p),
           NEW t \in file.active, tracker[t] = "completed"
    PROVE  t \in exposed
<1>1. ASSUME NEW q \in Proc, RecordedBy(q, t) PROVE FALSE
  <2>1. q # p
    BY <1>1, NothingRecorded
  <2>2. Busy(q)
    BY <1>1 DEF RecordedBy, At, EngineRuns, Busy, InSession, Shutdown
  <2>. QED
    BY <2>1, <2>2 DEF OthersBusy
<1>2. t \in exposed \/ BeingRecorded(t)
  BY DEF IInv, CompletedIsNotListed
<1>. QED
  BY <1>1, <1>2 DEF BeingRecorded, RecordedBy

(* A command that refuses to start leaves everything as it is.               *)
LEMMA RefuseInv ==
    ASSUME IInv, NEW p \in Proc, pc[p] \in Setup, Refuse(p)
    PROVE  StepInv(p)
<1>1. pc[p] # "idle" /\ \A t : ~RecordedBy(p, t)
  BY NothingRecorded DEF Setup
<1>. QED
  BY <1>1, Functions, ExitInv DEF Refuse, StepInv

(* Going on in the command, with the rest as it is.                         *)
LEMMA ProceedInv ==
    ASSUME IInv, NEW p \in Proc, NEW label \in Setup \ {"reset", "save"}, Proceed(p, label),
           pc[p] \in Setup \ {"save"},
           label \in {"idle", "load", "checkSession", "detect"} => found[p].active = {},
           label \in {"prompt", "delete"} => ~Resumes(p),
           label = "acquire" /\ Resumes(p) => found[p].active = {}
    PROVE  StepInv(p)
<1>1. pc'[p] = label /\ pc' = [pc EXCEPT ![p] = pc'[p]]
  BY Functions DEF Proceed, Goto
<1>2. /\ kind'[p] = kind[p] /\ mem'[p] = mem[p] /\ found'[p] = found[p] /\ todo'[p] = todo[p]
      /\ kind' = kind /\ mem' = mem /\ found' = found /\ todo' = todo
      /\ UNCHANGED <<reset, engine, pending, exposed, tracker, file, disturbed, lock>>
  BY DEF Proceed
<1>3. /\ kind[p] \in Commands /\ mem[p] \in State /\ found[p] \in State /\ todo[p] \subseteq Task
  <2>1. pc[p] \notin {"idle", "exited"}
    BY DEF Setup
  <2>. QED
    BY <2>1, Functions DEF IInv, ProcessInv, CommandInv
<1>4. RecoveryInv(p)'
  BY <1>1, <1>2 DEF RecoveryInv, Resumes
<1>5. /\ kind = [kind EXCEPT ![p] = kind[p]] /\ mem = [mem EXCEPT ![p] = mem[p]]
      /\ found = [found EXCEPT ![p] = found[p]] /\ todo = [todo EXCEPT ![p] = todo[p]]
  BY Functions
<1>. QED
  BY <1>1, <1>2, <1>3, <1>4, <1>5, Functions, SetupInv DEF StepInv

(* What is known of a process before its session.                            *)
LEMMA SetupFacts ==
    ASSUME IInv, NEW p \in Proc, pc[p] \in Setup
    PROVE  /\ kind[p] \in Commands /\ mem[p] \in State /\ found[p] \in State
           /\ todo[p] \subseteq Task
           /\ kind = [kind EXCEPT ![p] = kind[p]] /\ mem = [mem EXCEPT ![p] = mem[p]]
           /\ found = [found EXCEPT ![p] = found[p]] /\ todo = [todo EXCEPT ![p] = todo[p]]
           /\ pc = [pc EXCEPT ![p] = pc[p]]
           /\ RecoveryInv(p) /\ pc[p] \notin {"idle", "exited"}
<1>1. pc[p] \notin {"idle", "exited"}
  BY DEF Setup
<1>2. kind[p] \in Commands /\ RecoveryInv(p)
  BY <1>1 DEF IInv, ProcessInv, CommandInv
<1>. QED
  BY <1>1, <1>2, Functions

(* A command is started.                                                     *)
LEMMA StartCommandInv ==
    ASSUME IInv, NEW p \in Proc, NEW k \in Kinds, StartCommand(p, k)
    PROVE  StepInv(p)
<1>1. /\ pc[p] = "idle" /\ pc'[p] \in {"load", "detect"} /\ pc' = [pc EXCEPT ![p] = pc'[p]]
      /\ kind'[p] \in Commands /\ kind' = [kind EXCEPT ![p] = kind'[p]]
  BY Functions, PersistenceAssumption DEF StartCommand, Goto
<1>2. /\ mem' = mem /\ found' = found /\ todo' = todo
      /\ UNCHANGED <<reset, engine, pending, exposed, tracker, file, disturbed, lock>>
  BY DEF StartCommand
<1>3. /\ mem[p] \in State /\ found[p] \in State /\ todo[p] \subseteq Task
      /\ mem = [mem EXCEPT ![p] = mem[p]] /\ found = [found EXCEPT ![p] = found[p]]
      /\ todo = [todo EXCEPT ![p] = todo[p]]
  BY Functions
<1>4. RecoveryInv(p)'
  BY <1>1, <1>2 DEF IInv, ProcessInv, RecoveryInv
<1>5. pc'[p] \in Setup /\ pc'[p] # "save" /\ pc[p] # "save"
  BY <1>1 DEF Setup
<1>. QED
  BY <1>1, <1>2, <1>3, <1>4, <1>5, Functions, SetupInv DEF StepInv

(* A resume loads the session, if there is one to resume.                    *)
LEMMA LoadSessionInv ==
    ASSUME IInv, NEW p \in Proc, LoadSession(p)
    PROVE  StepInv(p)
<1>1. pc[p] = "load" /\ pc[p] \in Setup
  BY DEF LoadSession, Setup
<1>2. CASE Refuse(p)
  BY <1>1, <1>2, RefuseInv
<1>3. CASE ~Refuse(p)
  <2>1. /\ pc'[p] = "checkSession" /\ pc' = [pc EXCEPT ![p] = pc'[p]]
        /\ mem'[p] = file /\ mem' = [mem EXCEPT ![p] = mem'[p]]
        /\ kind' = kind /\ found' = found /\ todo' = todo
        /\ UNCHANGED <<reset, engine, pending, exposed, tracker, file, disturbed, lock>>
    BY <1>3, Functions DEF LoadSession, Goto
  <2>2. RecoveryInv(p)'
    BY <1>1, <2>1, SetupFacts DEF RecoveryInv
  <2>3. pc'[p] \in Setup /\ pc'[p] # "save"
    BY <2>1 DEF Setup
  <2>. QED
    BY <1>1, <2>1, <2>2, <2>3, Functions, SetupFacts, SetupInv DEF StepInv
<1>. QED
  BY <1>2, <1>3

(* A resume looks whether a session is under way.                            *)
LEMMA CheckSessionInv ==
    ASSUME IInv, NEW p \in Proc, CheckSession(p)
    PROVE  StepInv(p)
<1>1. pc[p] = "checkSession" /\ pc[p] \in Setup /\ found[p].active = {}
  BY SetupFacts DEF CheckSession, Setup, RecoveryInv
<1>2. CASE Refuse(p)
  BY <1>1, <1>2, RefuseInv
<1>3. CASE Proceed(p, "detect")
  BY <1>1, <1>3, ProceedInv DEF Setup
<1>. QED
  BY <1>2, <1>3 DEF CheckSession

(* The recovery reads the session.                                           *)
LEMMA DetectStaleInv ==
    ASSUME IInv, NEW p \in Proc, DetectStale(p)
    PROVE  StepInv(p)
<1>1. pc[p] = "detect" /\ pc[p] \in Setup /\ found[p].active = {}
  BY SetupFacts DEF DetectStale, Setup, RecoveryInv
<1>2. CASE Proceed(p, AfterRecovery(p))
  BY <1>1, <1>2, ProceedInv DEF Setup, AfterRecovery
<1>3. CASE ~Proceed(p, AfterRecovery(p))
  <2>1. /\ pc'[p] = "probe" /\ pc' = [pc EXCEPT ![p] = pc'[p]]
        /\ found'[p] = file /\ found' = [found EXCEPT ![p] = found'[p]]
        /\ kind' = kind /\ mem' = mem /\ todo' = todo
        /\ UNCHANGED <<reset, engine, pending, exposed, tracker, file, disturbed, lock>>
    BY <1>3, Functions DEF DetectStale, Goto
  <2>2. RecoveryInv(p)'
    BY <2>1 DEF RecoveryInv
  <2>3. pc'[p] \in Setup /\ pc'[p] # "save"
    BY <2>1 DEF Setup
  <2>. QED
    BY <1>1, <2>1, <2>2, <2>3, Functions, SetupFacts, SetupInv DEF StepInv
<1>. QED
  BY <1>2, <1>3

(* The recovery looks who holds the lock.                                    *)
LEMMA ProbeLockInv ==
    ASSUME IInv, NEW p \in Proc, ProbeLock(p)
    PROVE  StepInv(p)
<1>1. pc[p] = "probe" /\ pc[p] \in Setup
  BY DEF ProbeLock, Setup
<1>2. CASE LockHeld
  <2>1. /\ pc'[p] = AfterRecovery(p) /\ pc' = [pc EXCEPT ![p] = pc'[p]]
        /\ found'[p] = NoSession /\ found' = [found EXCEPT ![p] = found'[p]]
        /\ kind' = kind /\ mem' = mem /\ todo' = todo
        /\ UNCHANGED <<reset, engine, pending, exposed, tracker, file, disturbed, lock>>
    BY <1>2, Functions DEF ProbeLock, Goto
  <2>2. RecoveryInv(p)'
    BY <2>1, NewStates DEF RecoveryInv, AfterRecovery, Resumes
  <2>3. pc'[p] \in Setup /\ pc'[p] # "save"
    BY <2>1 DEF Setup, AfterRecovery
  <2>. QED
    BY <1>1, <2>1, <2>2, <2>3, Functions, NewStates, SetupFacts, SetupInv DEF StepInv
<1>3. CASE ~LockHeld
  <2>1. /\ pc'[p] = "reset" /\ pc' = [pc EXCEPT ![p] = pc'[p]]
        /\ todo'[p] = found[p].active /\ todo' = [todo EXCEPT ![p] = todo'[p]]
        /\ kind' = kind /\ mem' = mem /\ found' = found
        /\ UNCHANGED <<reset, engine, pending, exposed, tracker, file, disturbed, lock>>
    BY <1>3, Functions DEF ProbeLock, Goto
  <2>2. RecoveryInv(p)'
    BY <2>1 DEF RecoveryInv
  <2>3. pc'[p] \in Setup /\ pc'[p] # "save" /\ found[p].active \subseteq Task
    BY <2>1, Functions DEF Setup, State
  <2>. QED
    BY <1>1, <2>1, <2>2, <2>3, Functions, SetupFacts, SetupInv DEF StepInv
<1>. QED
  BY <1>2, <1>3

(* The recovery sets an active task back to open.                            *)
LEMMA RecoverTaskInv ==
    ASSUME IInv, NEW p \in Proc, NEW t \in Task, RecoverTask(p, t)
    PROVE  StepInv(p)
<1>1. pc[p] = "reset" /\ pc[p] \in Setup
  BY DEF RecoverTask, Setup
<1>2. /\ todo'[p] = todo[p] \ {t} /\ todo' = [todo EXCEPT ![p] = todo'[p]]
      /\ pc' = pc /\ kind' = kind /\ mem' = mem /\ found' = found
      /\ UNCHANGED <<reset, engine, pending, exposed, file, lock>>
      /\ disturbed' \in BOOLEAN
      /\ disturbed => disturbed'
  BY Functions DEF RecoverTask
<1>3. /\ tracker' \in [Task -> {"open", "completed"} \cup Proc]
      /\ \A u \in Task : tracker'[u] \in {tracker[u], "open"}
  BY Functions DEF RecoverTask
<1>4. RecoveryInv(p)'
  BY <1>1, <1>2, SetupFacts DEF RecoveryInv
<1>5. /\ pc'[p] \in Setup /\ pc' = [pc EXCEPT ![p] = pc'[p]] /\ pc'[p] # "save" /\ pc[p] # "save"
      /\ kind'[p] \in Commands /\ kind' = [kind EXCEPT ![p] = kind'[p]]
      /\ mem'[p] \in State /\ mem' = [mem EXCEPT ![p] = mem'[p]]
      /\ found'[p] \in State /\ found' = [found EXCEPT ![p] = found'[p]]
      /\ todo'[p] \subseteq Task
  BY <1>1, <1>2, SetupFacts
<1>6. file' \in State /\ disturbed' \in BOOLEAN
  BY <1>2, Functions
<1>. QED
  BY <1>1, <1>2, <1>3, <1>4, <1>5, <1>6, SetupInv DEF StepInv

(* The recovered session: undisturbed, it is the one that was found.         *)
LEMMA SaveRecoveredInv ==
    ASSUME IInv, NEW p \in Proc, SaveRecovered(p)
    PROVE  StepInv(p)
<1>1. pc[p] = "reset" /\ pc[p] \in Setup
  BY DEF SaveRecovered, Setup
<1>2. /\ pc'[p] = AfterRecovery(p) /\ pc' = [pc EXCEPT ![p] = pc'[p]]
      /\ file' = Recovered(found[p])
      /\ kind' = kind /\ mem' = mem /\ found' = found /\ todo' = todo
      /\ UNCHANGED <<reset, engine, pending, exposed, tracker, lock>>
      /\ disturbed' = (disturbed \/ file # found[p] \/ OthersBusy(p))
  BY Functions DEF SaveRecovered, Goto
<1>3. file' \in State /\ file'.active = {}
  BY <1>2, Functions, StateEnds
<1>4. ASSUME Steady', NEW t \in found[p].active, tracker[t] = "completed"
      PROVE  t \in exposed
  BY <1>1, <1>2, <1>4, FileIsRight DEF Steady
<1>5. ASSUME Steady', NEW q \in Proc \ {p}
      PROVE  ~InSession(q)'
  <2>1. ~InSession(q)
    BY <1>2, <1>5 DEF Steady, OthersBusy, Busy
  <2>. QED
    BY <1>2, <2>1, Functions DEF InSession
<1>6. RecoveryInv(p)'
  BY <1>2, <1>4, <1>5 DEF RecoveryInv, Resumes, AfterRecovery
<1>7. pc'[p] \in Setup /\ pc'[p] # "save"
  BY <1>2 DEF Setup, AfterRecovery
<1>. QED
  BY <1>1, <1>2, <1>3, <1>6, <1>7, Functions, SetupFacts, SetupInv DEF StepInv

(* A run goes on, refuses, or deletes the old session.                       *)
LEMMA PromptInv ==
    ASSUME IInv, NEW p \in Proc, PromptResumeOrNew(p)
    PROVE  StepInv(p)
<1>1. pc[p] = "prompt" /\ pc[p] \in Setup /\ ~Resumes(p)
  BY SetupFacts DEF PromptResumeOrNew, Setup, RecoveryInv
<1>2. CASE Refuse(p)
  BY <1>1, <1>2, RefuseInv
<1>3. CASE Proceed(p, "acquire")
  BY <1>1, <1>3, ProceedInv DEF Setup
<1>4. CASE Proceed(p, "delete")
  BY <1>1, <1>4, ProceedInv DEF Setup
<1>. QED
  BY <1>2, <1>3, <1>4 DEF PromptResumeOrNew

(* The old session is deleted.                                               *)
LEMMA DeleteOldSessionInv ==
    ASSUME IInv, NEW p \in Proc, DeleteOldSession(p)
    PROVE  StepInv(p)
<1>1. pc[p] = "delete" /\ pc[p] \in Setup /\ ~Resumes(p)
  BY SetupFacts DEF DeleteOldSession, Setup, RecoveryInv
<1>2. /\ pc'[p] = "acquire" /\ pc' = [pc EXCEPT ![p] = pc'[p]]
      /\ file' = NoSession
      /\ kind' = kind /\ mem' = mem /\ found' = found /\ todo' = todo
      /\ UNCHANGED <<reset, engine, pending, exposed, tracker, lock>>
      /\ disturbed' = (disturbed \/ pending[p] # <<>> \/ OthersBusy(p))
  BY Functions DEF DeleteOldSession, Goto, Write
<1>3. RecoveryInv(p)'
  BY <1>1, <1>2 DEF RecoveryInv, Resumes
<1>4. pc'[p] \in Setup /\ pc'[p] # "save"
  BY <1>2 DEF Setup
<1>. QED
  BY <1>1, <1>2, <1>3, <1>4, Functions, NewStates, SetupFacts, SetupInv DEF StepInv

(* The lock is taken, which nobody has.                                      *)
LEMMA AcquireLockInv ==
    ASSUME IInv, NEW p \in Proc, AcquireLock(p)
    PROVE  StepInv(p)
<1>1. pc[p] = "acquire" /\ pc[p] \in Setup
  BY DEF AcquireLock, Setup
<1>2. CASE Refuse(p)
  BY <1>1, <1>2, RefuseInv
<1>3. CASE ~Refuse(p)
  <2>1. /\ pc'[p] = "save" /\ pc' = [pc EXCEPT ![p] = pc'[p]]
        /\ ~LockHeld /\ lock' = p /\ \A q \in Proc : ~InSession(q)
        /\ kind' = kind /\ mem' = mem /\ found' = found /\ todo' = todo
        /\ UNCHANGED <<reset, engine, pending, exposed, tracker, file, disturbed>>
    BY <1>3, Functions DEF AcquireLock, Goto
  <2>2. \A q \in Proc \ {p} : ~InSession(q)'
    BY <2>1, Functions DEF InSession
  <2>3. RecoveryInv(p)'
    BY <1>1, <2>1, <2>2, SetupFacts DEF RecoveryInv, Resumes, Steady
  <2>4. pc'[p] \in Setup
    BY <2>1 DEF Setup
  <2>. QED
    BY <1>1, <2>1, <2>3, <2>4, Functions, SetupFacts, SetupInv DEF StepInv
<1>. QED
  BY <1>2, <1>3

-----------------------------------------------------------------------------
(* The actions of a session.                                                *)
LocalStep(p) ==
    /\ pc' \in [Proc -> PcValues] /\ mem' \in [Proc -> State]
    /\ todo' \in [Proc -> SUBSET Task] /\ engine' \in [Proc -> Engine]
    /\ reset' \in [Proc -> Resets]
    /\ pending' \in [Proc -> Seq(State)] /\ Len(pending'[p]) <= MaxPending
    /\ \A q \in Proc \ {p} :
          /\ pc'[q] = pc[q] /\ mem'[q] = mem[q] /\ todo'[q] = todo[q]
        /\ reset'[q] = reset[q]
          /\ engine'[q] = engine[q] /\ pending'[q] = pending[q]
    /\ kind' = kind /\ found' = found /\ exposed' = exposed

(* A step in a session touches the process and what is shared.               *)
LEMMA SessionFrame ==
    ASSUME IInv, NEW p \in Proc, InSession(p), LocalStep(p), pc'[p] # "save",
           file' \in State, tracker' \in [Task -> {"open", "completed"} \cup Proc],
           \A t \in Task : tracker'[t] \in {tracker[t], "open", "completed", p},
           disturbed' \in BOOLEAN, disturbed => disturbed',
           OthersBusy(p) /\ ~disturbed' => file' = file,
           lock' \in {lock, NoProc}
    PROVE  Types' /\ Frame(p)
<1>1. Types'
  <2>1. \A q \in Proc : pending'[q] \in Seq(State) /\ Len(pending'[q]) <= MaxPending
    BY Functions DEF LocalStep
  <2>2. lock' \in Proc \cup {NoProc}
    BY Functions
  <2>. QED
    BY <2>1, <2>2, Functions DEF LocalStep, Types, TypeOK
<1>2. Holding(p) /\ Busy(p) /\ pc[p] # "save"
  BY DEF Holding, Busy, InSession, Shutdown, Ending
<1>3. Frame(p)
  BY <1>2 DEF LocalStep, Frame, OthersKept, SharedKept, SessionEntered
<1>. QED
  BY <1>1, <1>3

(* What is known of a process in its session.                                *)
LEMMA SessionFacts ==
    ASSUME IInv, NEW p \in Proc, InSession(p)
    PROVE  /\ kind[p] \in Commands /\ mem[p] \in State /\ mem[p].active \subseteq Task
           /\ todo[p] \subseteq Task
           /\ engine[p] \in Engine /\ engine[p].iteration \in 0..MaxIterations
           /\ engine[p].tasksCompleted \in 0..MaxIterations
           /\ pending[p] \in Seq(State) /\ Len(pending[p]) <= MaxPending
           /\ file \in State /\ file.active \subseteq Task
           /\ pc[p] \notin Setup \cup {"idle", "exited", "drain"}
           /\ CommandInv(p) /\ EngineInv(p) /\ WorkInv(p) /\ OwnInv(p)
           /\ ResumableInv(p) /\ LastSaveInv(p) /\ MemoryInv(p)
<1>1. pc[p] \notin Setup \cup {"idle", "exited", "drain"}
  BY DEF InSession, Setup, Shutdown, Ending
<1>2. kind[p] \in Commands
  BY <1>1 DEF IInv, ProcessInv, CommandInv
<1>3. /\ mem[p] \in State /\ mem[p].active \subseteq Task /\ file.active \subseteq Task
      /\ file \in State /\ todo[p] \subseteq Task
  BY Functions DEF State
<1>4. /\ engine[p] \in Engine /\ engine[p].iteration \in 0..MaxIterations
      /\ engine[p].tasksCompleted \in 0..MaxIterations
  BY Functions DEF Engine
<1>5. pending[p] \in Seq(State) /\ Len(pending[p]) <= MaxPending
  BY Functions
<1>. QED
  BY <1>1, <1>2, <1>3, <1>4, <1>5 DEF IInv, ProcessInv

(* The tasks left are at most all of them.                                   *)
LEMMA NoneUnfinished == Cardinality(Unfinished) \in 0..Cardinality(Task)
<1>1. Unfinished \subseteq Task
  BY DEF Unfinished
<1>2. /\ IsFiniteSet(Unfinished) /\ Cardinality(Unfinished) <= Cardinality(Task)
      /\ Cardinality(Unfinished) \in Nat /\ Cardinality(Task) \in Nat
  BY <1>1, PersistenceAssumption, FS_Subset, FS_CardinalityType
<1>. QED
  BY <1>2

(* The engine goes to another phase, and nowhere else.                       *)
LEMMA ToPhase ==
    ASSUME IInv, NEW p \in Proc, NEW x \in Phases, To(p, x)
    PROVE  /\ engine' \in [Proc -> Engine]
           /\ \A q \in Proc \ {p} : engine'[q] = engine[q]
           /\ engine'[p].phase = x /\ engine'[p].cur = engine[p].cur
           /\ engine'[p].iteration = engine[p].iteration
           /\ engine'[p].tasksCompleted = engine[p].tasksCompleted
<1>1. engine' = [engine EXCEPT ![p] = [engine[p] EXCEPT !.phase = x]]
  BY Functions DEF To
<1>2. [engine[p] EXCEPT !.phase = x] \in Engine
  BY Functions DEF Engine
<1>3. engine'[p] = [engine[p] EXCEPT !.phase = x]
  BY <1>1, Functions
<1>4. engine[p] \in Engine
  BY Functions
<1>5. /\ engine'[p].phase = x /\ engine'[p].cur = engine[p].cur
      /\ engine'[p].iteration = engine[p].iteration
      /\ engine'[p].tasksCompleted = engine[p].tasksCompleted
  BY <1>3, <1>4 DEF Engine
<1>. QED
  BY <1>1, <1>2, <1>5, Functions

(* savePersistedSession: memory and the last save are the new state.         *)
LEMMA SaveIsAdded ==
    ASSUME IInv, NEW p \in Proc, NEW s \in State, SaveLater(p, s)
    PROVE  /\ mem' \in [Proc -> State] /\ mem'[p] = s
           /\ pending' \in [Proc -> Seq(State)] /\ Len(pending'[p]) <= MaxPending
           /\ pending'[p] = Append(pending[p], s)
           /\ \A q \in Proc \ {p} : mem'[q] = mem[q] /\ pending'[q] = pending[q]
<1>1. mem' \in [Proc -> State] /\ mem'[p] = s /\ \A q \in Proc \ {p} : mem'[q] = mem[q]
  BY Functions DEF SaveLater
<1>2. Append(pending[p], s) \in Seq(State) /\ Len(Append(pending[p], s)) = Len(pending[p]) + 1
  BY Functions, SaveAdded
<1>3. /\ pending' \in [Proc -> Seq(State)] /\ pending'[p] = Append(pending[p], s)
      /\ \A q \in Proc \ {p} : pending'[q] = pending[q]
  BY <1>2, Functions DEF SaveLater
<1>4. Len(pending[p]) \in Nat /\ Len(pending[p]) < MaxPending
  BY Functions DEF SaveLater
<1>5. Len(pending'[p]) <= MaxPending
  BY <1>2, <1>3, <1>4, PersistenceAssumption
<1>. QED
  BY <1>1, <1>3, <1>5

(* An event that is saved: the file does not change yet, but the last save   *)
(* has what the memory has.                                                  *)
LEMMA EventInv ==
    ASSUME IInv, NEW p \in Proc, NEW s \in State, SaveLater(p, s), EngineRuns(p),
           UNCHANGED <<tracker, file, lock, pc, kind, found, todo, reset, exposed, disturbed>>,
           engine' \in [Proc -> Engine], \A q \in Proc \ {p} : engine'[q] = engine[q],
           EngineInv(p)', WorkInv(p)', OwnInv(p)',
           IsSessionResumable(mem[p]) => IsSessionResumable(s),
           \A t \in s.active : tracker[t] = "completed" =>
               t \in mem[p].active /\ ~(engine[p].phase = "completed" /\ engine[p].cur = t),
           \A t : engine[p].phase = "completed" /\ engine[p].cur = t => t \notin s.active
    PROVE  StepInv(p)
<1>1. /\ mem' \in [Proc -> State] /\ mem'[p] = s
      /\ pending' \in [Proc -> Seq(State)] /\ Len(pending'[p]) <= MaxPending
      /\ pending'[p] = Append(pending[p], s)
      /\ \A q \in Proc \ {p} : mem'[q] = mem[q] /\ pending'[q] = pending[q]
  BY SaveIsAdded
<1>2. /\ pending'[p] # <<>> /\ pending'[p][Len(pending'[p])] = s
      /\ Len(pending'[p]) \in DOMAIN pending'[p]
      /\ \A i \in DOMAIN pending[p] : i \in DOMAIN pending'[p] /\ pending'[p][i] = pending[p][i]
      /\ \A i \in DOMAIN pending'[p] :
            pending'[p][i] = s \/ \E j \in DOMAIN pending[p] : pending'[p][i] = pending[p][j]
  <2>1. pending[p] \in Seq(State)
    BY Functions
  <2>. QED
    BY <1>1, <2>1, SaveAdded
<1>3. InSession(p) /\ pc[p] \in {"session"} \cup Shutdown
  BY DEF EngineRuns, InSession
<1>4. pc' = pc /\ kind' = kind /\ engine[p].phase # "stopped"
  BY DEF EngineRuns
<1>5. LocalStep(p)
  BY <1>1, Functions DEF LocalStep
<1>6. Types' /\ Frame(p)
  <2>1. pc[p] # "save"
    BY <1>3, SessionFacts DEF Setup
  <2>. QED
    BY <1>3, <1>5, <2>1, Functions, SessionFrame
<1>7. CommandInv(p)'
  BY <1>3, <1>4, SessionFacts DEF CommandInv
<1>8. ResumableInv(p)'
  BY <1>1, <1>2, <1>3, <1>4, SessionFacts DEF ResumableInv, Steady
<1>9. LastSaveInv(p)'
  BY <1>1, <1>2, <1>3, <1>4 DEF LastSaveInv, Saved, Shutdown
<1>10. MemoryInv(p)'
  BY <1>1, <1>3, SessionFacts DEF MemoryInv, Busy, Steady
<1>11. RecoveryInv(p)'
  BY <1>3, <1>4 DEF RecoveryInv, Shutdown
<1>12. ListedStep(p)
  <2>1. ASSUME NEW t \in file.active, tracker[t] = "completed", RecordedBy(p, t), Steady
        PROVE  RecordedBy(p, t)'
    <3>1. CASE At(p, "completed") /\ engine[p].cur = t
      BY <1>1, <1>2, <3>1 DEF RecordedBy, At
    <3>2. CASE \E i \in DOMAIN pending[p] : t \notin pending[p][i].active
      BY <1>2, <3>2 DEF RecordedBy
    <3>3. CASE pc[p] = "saveQuit" /\ t \notin mem[p].active
      <4>1. t \notin s.active
        BY <2>1, <3>3
      <4>2. pc'[p] = "saveQuit" /\ t \notin mem'[p].active
        BY <1>1, <1>4, <3>3, <4>1
      <4>. QED
        BY <4>2 DEF RecordedBy
    <3>. QED
      BY <2>1, <3>1, <3>2, <3>3 DEF RecordedBy
  <2>. QED
    BY <2>1 DEF ListedStep, Steady
<1>. QED
  BY <1>6, <1>7, <1>8, <1>9, <1>10, <1>11, <1>12 DEF StepInv, ProcessInv

(* The phases are different, and the engine is at its task in one of them.   *)
LEMMA RunningFacts ==
    ASSUME IInv, NEW p \in Proc, EngineRuns(p)
    PROVE  /\ InSession(p) /\ pc[p] \in {"session"} \cup Shutdown /\ engine[p].phase # "stopped"
           /\ engine[p].phase \in Phases /\ mem[p] \in State
           /\ kind[p] = "run" => pc[p] \notin {"resetActive", "saveQuit"} \cup Ending
           /\ pc[p] \notin Ending
           /\ Working(p) => engine[p].cur \in Task
<1>1. InSession(p) /\ pc[p] \in {"session"} \cup Shutdown /\ engine[p].phase # "stopped"
  BY DEF EngineRuns, InSession
<1>2. engine[p].phase \in Phases /\ mem[p] \in State
  BY Functions DEF Engine
<1>3. EngineInv(p) /\ WorkInv(p)
  BY <1>1, SessionFacts
<1>. QED
  BY <1>1, <1>2, <1>3 DEF EngineInv, WorkInv

(* The activated task is active: it is not completed.                        *)
LEMMA OnTaskActivatedInv ==
    ASSUME IInv, NEW p \in Proc, OnTaskActivated(p)
    PROVE  StepInv(p)
<1>1. EngineRuns(p) /\ engine[p].phase = "activated" /\ To(p, "agent")
  BY DEF OnTaskActivated, At
<1>2. engine[p].cur \in Task /\ Working(p)
  BY <1>1, RunningFacts DEF Working
<1>3. PICK s \in State : s = AddActive(mem[p], engine[p].cur)
  BY <1>1, <1>2, RunningFacts, StateOps DEF Statuses
<1>4. s.active = mem[p].active \cup {engine[p].cur} /\ s.status = mem[p].status
  BY <1>1, <1>2, <1>3, RunningFacts, StateOps DEF Statuses
<1>5. /\ engine' \in [Proc -> Engine] /\ \A q \in Proc \ {p} : engine'[q] = engine[q]
      /\ engine'[p].phase = "agent" /\ engine'[p].cur = engine[p].cur
      /\ engine'[p].iteration = engine[p].iteration
      /\ engine'[p].tasksCompleted = engine[p].tasksCompleted
  BY <1>1, ToPhase DEF Phases
<1>6. SaveLater(p, s)
  BY <1>3 DEF OnTaskActivated
<1>7. mem'[p] = s /\ pending'[p] = Append(pending[p], s)
  BY <1>6, SaveIsAdded
<1>8. /\ UNCHANGED <<tracker, file, lock, pc, kind, found, todo, reset, exposed, disturbed>>
      /\ EngineInv(p) /\ WorkInv(p) /\ OwnInv(p) /\ MemoryInv(p)
  BY <1>1, RunningFacts, SessionFacts DEF OnTaskActivated
<1>9. EngineInv(p)'
  BY <1>1, <1>2, <1>5, <1>8, RunningFacts DEF EngineInv, Working, InSession
<1>10. WorkInv(p)'
  BY <1>1, <1>2, <1>5, <1>8 DEF WorkInv, Working
<1>11. OwnInv(p)'
  BY <1>1, <1>4, <1>7, <1>8, RunningFacts DEF OwnInv, HasSetBack, Accountable, InSession, At
<1>12. \A t \in s.active : tracker[t] = "completed" =>
               t \in mem[p].active /\ ~(engine[p].phase = "completed" /\ engine[p].cur = t)
  BY <1>1, <1>2, <1>4, <1>8 DEF WorkInv
<1>. QED
  BY <1>1, <1>4, <1>5, <1>6, <1>8, <1>9, <1>10, <1>11, <1>12, EventInv DEF IsSessionResumable

(* The completed task is active no longer, and the save says so.             *)
LEMMA OnTaskCompletedInv ==
    ASSUME IInv, NEW p \in Proc, OnTaskCompleted(p)
    PROVE  StepInv(p)
<1>1. EngineRuns(p) /\ engine[p].phase = "completed" /\ To(p, "reported")
  BY DEF OnTaskCompleted, At
<1>2. engine[p].cur \in Task /\ Working(p)
  BY <1>1, RunningFacts DEF Working
<1>3. PICK s \in State : s = RemoveActive(mem[p], engine[p].cur)
  BY <1>1, <1>2, RunningFacts, StateOps DEF Statuses
<1>4. s.active = mem[p].active \ {engine[p].cur} /\ s.status = mem[p].status
  BY <1>1, <1>2, <1>3, RunningFacts, StateOps DEF Statuses
<1>5. /\ engine' \in [Proc -> Engine] /\ \A q \in Proc \ {p} : engine'[q] = engine[q]
      /\ engine'[p].phase = "reported" /\ engine'[p].cur = engine[p].cur
      /\ engine'[p].iteration = engine[p].iteration
      /\ engine'[p].tasksCompleted = engine[p].tasksCompleted
  BY <1>1, ToPhase DEF Phases
<1>6. SaveLater(p, s)
  BY <1>3 DEF OnTaskCompleted
<1>7. mem'[p] = s /\ pending'[p] = Append(pending[p], s)
  BY <1>6, SaveIsAdded
<1>8. /\ UNCHANGED <<tracker, file, lock, pc, kind, found, todo, reset, exposed, disturbed>>
      /\ EngineInv(p) /\ WorkInv(p) /\ OwnInv(p) /\ MemoryInv(p)
  BY <1>1, RunningFacts, SessionFacts DEF OnTaskCompleted
<1>9. EngineInv(p)'
  BY <1>1, <1>2, <1>5, <1>8, RunningFacts DEF EngineInv, Working, InSession
<1>10. WorkInv(p)'
  BY <1>1, <1>2, <1>5, <1>8 DEF WorkInv, Working
<1>11. OwnInv(p)'
  <2>1. tracker[engine[p].cur] # p
    BY <1>1, <1>8 DEF WorkInv
  <2>. QED
    BY <1>1, <1>4, <1>7, <1>8, <2>1, RunningFacts DEF OwnInv, HasSetBack, Accountable, InSession, At
<1>. QED
  BY <1>1, <1>4, <1>5, <1>6, <1>8, <1>9, <1>10, <1>11, EventInv DEF IsSessionResumable

(* The iteration is over, its task was recorded before.                      *)
LEMMA OnIterationCompletedInv ==
    ASSUME IInv, NEW p \in Proc, OnIterationCompleted(p)
    PROVE  StepInv(p)
<1>1. EngineRuns(p) /\ engine[p].phase = "reported"
  BY DEF OnIterationCompleted, At
<1>2. engine[p].cur \in Task /\ Working(p) /\ InSession(p)
  BY <1>1, RunningFacts DEF Working
<1>3. PICK s \in State : s = AfterIteration(mem[p], engine[p].cur)
  BY <1>1, <1>2, RunningFacts, StateOps DEF Statuses
<1>4. s.active = mem[p].active \ {engine[p].cur} /\ s.status = mem[p].status
  BY <1>1, <1>2, <1>3, RunningFacts, StateOps DEF Statuses
<1>5. /\ UNCHANGED <<tracker, file, lock, pc, kind, found, todo, reset, exposed, disturbed>>
      /\ EngineInv(p) /\ WorkInv(p) /\ OwnInv(p) /\ MemoryInv(p)
  BY <1>1, RunningFacts, SessionFacts DEF OnIterationCompleted
<1>6. /\ engine[p].tasksCompleted + 1 \in 0..MaxIterations
      /\ engine[p].tasksCompleted + 1 <= engine[p].iteration
  BY <1>2, <1>5, SessionFacts, PersistenceAssumption DEF EngineInv
<1>7. /\ engine' \in [Proc -> Engine] /\ \A q \in Proc \ {p} : engine'[q] = engine[q]
      /\ engine'[p].phase = "idle" /\ engine'[p].cur = NoTask
      /\ engine'[p].iteration = engine[p].iteration
      /\ engine'[p].tasksCompleted = engine[p].tasksCompleted + 1
  <2>. DEFINE e == [engine[p] EXCEPT !.phase = "idle", !.cur = NoTask,
                                     !.totalTasks = Cardinality(Unfinished),
                                     !.tasksCompleted = engine[p].tasksCompleted + 1]
  <2>1. engine' = [engine EXCEPT ![p] = e] /\ engine[p] \in Engine
    BY Functions DEF OnIterationCompleted
  <2>2. e \in Engine /\ e.phase = "idle" /\ e.cur = NoTask /\ e.iteration = engine[p].iteration
          /\ e.tasksCompleted = engine[p].tasksCompleted + 1
    BY <1>6, <2>1, NoneUnfinished DEF Engine, Phases
  <2>. HIDE DEF e
  <2>. QED
    BY <2>1, <2>2, Functions
<1>8. SaveLater(p, s)
  BY <1>3 DEF OnIterationCompleted
<1>9. mem'[p] = s /\ pending'[p] = Append(pending[p], s)
  BY <1>8, SaveIsAdded
<1>10. EngineInv(p)'
  BY <1>1, <1>2, <1>5, <1>6, <1>7, RunningFacts, SessionFacts DEF EngineInv, Working, InSession
<1>11. WorkInv(p)'
  BY <1>7 DEF WorkInv, Working
<1>12. OwnInv(p)'
  <2>1. tracker[engine[p].cur] # p
    BY <1>1, <1>5 DEF WorkInv
  <2>. QED
    BY <1>1, <1>4, <1>5, <1>9, <2>1, RunningFacts DEF OwnInv, HasSetBack, Accountable, InSession, At
<1>. QED
  BY <1>1, <1>4, <1>5, <1>7, <1>8, <1>10, <1>11, <1>12, EventInv DEF IsSessionResumable

(* Pausing and going on change the status only.                             *)
LEMMA StatusSaved ==
    ASSUME IInv, NEW p \in Proc, NEW x \in Statuses, NEW y \in {"idle", "paused"},
           At(p, "idle") \/ At(p, "paused"), x \in {"paused", "running"},
           SaveLater(p, WithStatus(mem[p], x)), To(p, y),
           UNCHANGED <<tracker, file, lock, pc, kind, found, todo, reset, exposed, disturbed>>
    PROVE  StepInv(p)
<1>1. EngineRuns(p) /\ engine[p].phase \in {"idle", "paused"} /\ ~Working(p)
  BY DEF At, Working
<1>2. PICK s \in State : s = WithStatus(mem[p], x)
  BY <1>1, RunningFacts, StateEnds
<1>3. s.active = mem[p].active /\ s.status = x
  <2>1. mem[p] \in State
    BY Functions
  <2>2. WithStatus(mem[p], x).active = mem[p].active /\ WithStatus(mem[p], x).status = x
    BY <2>1, StateEnds
  <2>. QED
    BY <1>2, <2>2
<1>4. /\ engine' \in [Proc -> Engine] /\ \A q \in Proc \ {p} : engine'[q] = engine[q]
      /\ engine'[p].phase = y /\ engine'[p].cur = engine[p].cur
      /\ engine'[p].iteration = engine[p].iteration
      /\ engine'[p].tasksCompleted = engine[p].tasksCompleted
  BY ToPhase DEF Phases
<1>5. SaveLater(p, s)
  BY <1>2
<1>6. mem'[p] = s /\ pending'[p] = Append(pending[p], s)
  BY <1>5, SaveIsAdded
<1>7. EngineInv(p) /\ WorkInv(p) /\ OwnInv(p) /\ MemoryInv(p)
  BY <1>1, RunningFacts, SessionFacts
<1>8. EngineInv(p)'
  BY <1>1, <1>4, <1>7, RunningFacts DEF EngineInv, Working, InSession
<1>9. WorkInv(p)'
  BY <1>4 DEF WorkInv, Working
<1>10. OwnInv(p)'
  BY <1>1, <1>3, <1>6, <1>7, RunningFacts DEF OwnInv, HasSetBack, Accountable, InSession, At
<1>. QED
  BY <1>1, <1>3, <1>4, <1>5, <1>8, <1>9, <1>10, EventInv DEF IsSessionResumable

(* The session is paused ...                                                 *)
LEMMA OnPausedInv ==
    ASSUME IInv, NEW p \in Proc, OnPaused(p)
    PROVE  StepInv(p)
BY StatusSaved DEF OnPaused, Statuses

(* ... and goes on.                                                          *)
LEMMA OnResumedInv ==
    ASSUME IInv, NEW p \in Proc, OnResumed(p)
    PROVE  StepInv(p)
BY StatusSaved DEF OnResumed, Statuses

(* A step of the engine or of the shutdown that leaves file and saves alone:  *)
(* what the process recorded it must go on recording.                        *)
LEMMA QuietInv ==
    ASSUME IInv, NEW p \in Proc, InSession(p), LocalStep(p),
           pc'[p] \notin Setup \cup {"idle", "exited", "release"},
           tracker' \in [Task -> {"open", "completed"} \cup Proc],
           \A t \in Task : tracker'[t] \in {tracker[t], "open", "completed", p},
           file' = file, pending' = pending, disturbed' \in BOOLEAN, disturbed => disturbed',
           lock' \in {lock, NoProc},
           CommandInv(p)', EngineInv(p)', WorkInv(p)', OwnInv(p)',
           LastSaveInv(p)', MemoryInv(p)',
           pc'[p] \in {"session"} \cup Shutdown =>
               pc[p] \in {"session"} \cup Shutdown
               /\ (IsSessionResumable(mem[p]) => IsSessionResumable(mem'[p])),
           \A t \in Task : Steady' /\ tracker'[t] = "completed" =>
               RecordedBy(p, t)' \/ (tracker[t] = "completed" /\ ~RecordedBy(p, t))
    PROVE  StepInv(p)
<1>1. Types' /\ Frame(p)
  <2>1. pc'[p] # "save"
    BY DEF Setup
  <2>. QED
    BY <2>1, Functions, SessionFrame
<1>2. ResumableInv(p)'
  BY SessionFacts DEF ResumableInv, Steady
<1>3. RecoveryInv(p)'
  BY DEF RecoveryInv, Setup
<1>4. ListedStep(p)
  BY SessionFacts DEF ListedStep, Steady, LocalStep
<1>. QED
  BY <1>1, <1>2, <1>3, <1>4 DEF StepInv, ProcessInv

(* The next task becomes the process's own.                                  *)
LEMMA SetInProgressInv ==
    ASSUME IInv, NEW p \in Proc, NEW t \in Task, SetInProgress(p, t)
    PROVE  StepInv(p)
<1>1. EngineRuns(p) /\ engine[p].phase = "idle" /\ InSession(p) /\ ~Working(p)
  BY RunningFacts DEF SetInProgress, At, Working
<1>2. /\ UNCHANGED <<file, lock, pc, kind, mem, found, todo, reset, pending, exposed, disturbed>>
      /\ EngineInv(p) /\ WorkInv(p) /\ OwnInv(p) /\ MemoryInv(p) /\ LastSaveInv(p)
      /\ CommandInv(p) /\ tracker[t] # "completed"
      /\ engine[p].iteration < MaxIterations
  BY <1>1, SessionFacts DEF SetInProgress, Unfinished
<1>3. engine[p].iteration + 1 \in 0..MaxIterations
  BY <1>1, <1>2, SessionFacts, PersistenceAssumption
<1>4. /\ engine' \in [Proc -> Engine] /\ \A q \in Proc \ {p} : engine'[q] = engine[q]
      /\ engine'[p].phase = "activated" /\ engine'[p].cur = t
      /\ engine'[p].iteration = engine[p].iteration + 1
      /\ engine'[p].tasksCompleted = engine[p].tasksCompleted
  <2>. DEFINE e == [engine[p] EXCEPT !.phase = "activated", !.cur = t,
                                     !.iteration = engine[p].iteration + 1]
  <2>1. engine' = [engine EXCEPT ![p] = e] /\ engine[p] \in Engine
    BY Functions DEF SetInProgress
  <2>2. e \in Engine /\ e.phase = "activated" /\ e.cur = t
          /\ e.iteration = engine[p].iteration + 1
          /\ e.tasksCompleted = engine[p].tasksCompleted
    BY <1>3, <2>1 DEF Engine, Phases
  <2>. HIDE DEF e
  <2>. QED
    BY <2>1, <2>2, Functions
<1>5. /\ tracker' \in [Task -> {"open", "completed"} \cup Proc] /\ tracker'[t] = p
      /\ \A u \in Task \ {t} : tracker'[u] = tracker[u]
  BY Functions DEF SetInProgress
<1>6. LocalStep(p)
  BY <1>1, <1>2, <1>4, Functions, SessionFacts DEF LocalStep
<1>7. p # "completed"
  BY PersistenceAssumption
<1>8. CommandInv(p)' /\ LastSaveInv(p)' /\ MemoryInv(p)'
  <2>1. CommandInv(p)' /\ LastSaveInv(p)'
    BY <1>2 DEF CommandInv, LastSaveInv, Steady
  <2>2. MemoryInv(p)'
    BY <1>1, <1>2, <1>5, <1>7, SessionFacts DEF MemoryInv, Busy, InSession, Steady
  <2>. QED
    BY <2>1, <2>2
<1>9. EngineInv(p)'
  BY <1>1, <1>2, <1>4, RunningFacts, SessionFacts DEF EngineInv, Working, InSession
<1>10. WorkInv(p)'
  BY <1>4, <1>5, <1>7 DEF WorkInv
<1>11. OwnInv(p)'
  BY <1>1, <1>2, <1>4, <1>5, RunningFacts DEF OwnInv, HasSetBack, Accountable, InSession, At,
     EngineRuns
<1>12. \A u \in Task : tracker'[u] = "completed" =>
               tracker[u] = "completed" /\ (RecordedBy(p, u) => RecordedBy(p, u)')
  BY <1>1, <1>2, <1>5, <1>7 DEF RecordedBy, At
<1>13. pc'[p] \notin Setup \cup {"idle", "exited", "release"}
         /\ pc[p] \in {"session"} \cup Shutdown
  BY <1>1, <1>2, RunningFacts DEF Setup, Shutdown
<1>14. \A u \in Task : tracker'[u] \in {tracker[u], "open", "completed", p}
  BY <1>5
<1>. QED
  BY <1>1, <1>2, <1>5, <1>6, <1>8, <1>9, <1>10, <1>11, <1>12, <1>13, <1>14, Functions, QuietInv

(* The tracker has the completion, and its event is to come.                 *)
LEMMA CompleteTaskInv ==
    ASSUME IInv, NEW p \in Proc, CompleteTask(p)
    PROVE  StepInv(p)
<1>1. EngineRuns(p) /\ engine[p].phase = "agent" /\ InSession(p) /\ Working(p)
  BY RunningFacts DEF CompleteTask, At, Working
<1>2. /\ UNCHANGED <<file, lock, pc, kind, mem, found, todo, reset, pending, exposed, disturbed>>
      /\ EngineInv(p) /\ WorkInv(p) /\ OwnInv(p) /\ MemoryInv(p) /\ LastSaveInv(p)
      /\ CommandInv(p) /\ To(p, "completed")
  BY <1>1, SessionFacts DEF CompleteTask
<1>3. PICK t \in Task : t = engine[p].cur
  BY <1>1, RunningFacts
<1>4. /\ engine' \in [Proc -> Engine] /\ \A q \in Proc \ {p} : engine'[q] = engine[q]
      /\ engine'[p].phase = "completed" /\ engine'[p].cur = t
      /\ engine'[p].iteration = engine[p].iteration
      /\ engine'[p].tasksCompleted = engine[p].tasksCompleted
  BY <1>2, <1>3, ToPhase DEF Phases
<1>5. /\ tracker' \in [Task -> {"open", "completed"} \cup Proc] /\ tracker'[t] = "completed"
      /\ \A u \in Task \ {t} : tracker'[u] = tracker[u]
  BY <1>3, Functions DEF CompleteTask
<1>6. LocalStep(p)
  BY <1>1, <1>2, <1>4, Functions, SessionFacts DEF LocalStep
<1>7. p # "completed"
  BY PersistenceAssumption
<1>8. CommandInv(p)' /\ LastSaveInv(p)' /\ MemoryInv(p)'
  <2>1. CommandInv(p)' /\ LastSaveInv(p)'
    BY <1>2 DEF CommandInv, LastSaveInv, Steady
  <2>2. MemoryInv(p)'
    BY <1>1, <1>2, <1>4, <1>5, SessionFacts DEF MemoryInv, Busy, InSession, Steady
  <2>. QED
    BY <2>1, <2>2
<1>9. EngineInv(p)'
  BY <1>1, <1>2, <1>4, RunningFacts, SessionFacts DEF EngineInv, Working, InSession
<1>10. WorkInv(p)'
  BY <1>4, <1>5, <1>7 DEF WorkInv
<1>11. OwnInv(p)'
  BY <1>1, <1>2, <1>4, <1>5, <1>7, RunningFacts DEF OwnInv, HasSetBack, Accountable, InSession,
     At, EngineRuns
<1>12. \A u \in Task : tracker'[u] = "completed" =>
               RecordedBy(p, u)' \/ (tracker[u] = "completed" /\ ~RecordedBy(p, u))
  <2>1. RecordedBy(p, t)'
    BY <1>1, <1>2, <1>4 DEF RecordedBy, At, EngineRuns
  <2>2. \A u \in Task \ {t} : RecordedBy(p, u) => RecordedBy(p, u)'
    BY <1>1, <1>2 DEF RecordedBy, At
  <2>. QED
    BY <1>5, <2>1, <2>2
<1>13. pc'[p] \notin Setup \cup {"idle", "exited", "release"}
         /\ pc[p] \in {"session"} \cup Shutdown
  BY <1>1, <1>2, RunningFacts DEF Setup, Shutdown
<1>14. \A u \in Task : tracker'[u] \in {tracker[u], "open", "completed", p}
  BY <1>5
<1>. QED
  BY <1>1, <1>2, <1>5, <1>6, <1>8, <1>9, <1>10, <1>11, <1>12, <1>13, <1>14, Functions, QuietInv

(* The task stays in progress and active.                                    *)
LEMMA IterationWithoutCompletionInv ==
    ASSUME IInv, NEW p \in Proc, IterationWithoutCompletion(p)
    PROVE  StepInv(p)
<1>1. EngineRuns(p) /\ engine[p].phase = "agent" /\ InSession(p) /\ Working(p)
  BY RunningFacts DEF IterationWithoutCompletion, At, Working
<1>2. /\ UNCHANGED <<tracker, file, lock, pc, kind, found, todo, reset, exposed, disturbed>>
      /\ EngineInv(p) /\ WorkInv(p) /\ OwnInv(p) /\ MemoryInv(p) /\ LastSaveInv(p)
      /\ CommandInv(p) /\ engine[p].cur \in Task
  BY <1>1, RunningFacts, SessionFacts DEF IterationWithoutCompletion
<1>3. /\ engine' \in [Proc -> Engine] /\ \A q \in Proc \ {p} : engine'[q] = engine[q]
      /\ engine'[p].phase = "idle" /\ engine'[p].cur = NoTask
      /\ engine'[p].iteration = engine[p].iteration
      /\ engine'[p].tasksCompleted = engine[p].tasksCompleted
  <2>. DEFINE e == [engine[p] EXCEPT !.phase = "idle", !.cur = NoTask]
  <2>1. engine' = [engine EXCEPT ![p] = e] /\ engine[p] \in Engine
    BY Functions DEF IterationWithoutCompletion
  <2>2. e \in Engine /\ e.phase = "idle" /\ e.cur = NoTask
          /\ e.iteration = engine[p].iteration /\ e.tasksCompleted = engine[p].tasksCompleted
    BY <2>1 DEF Engine, Phases
  <2>. HIDE DEF e
  <2>. QED
    BY <2>1, <2>2, Functions
<1>4. EngineInv(p)'
  BY <1>1, <1>2, <1>3, RunningFacts, SessionFacts DEF EngineInv, Working, InSession
<1>5. WorkInv(p)'
  BY <1>3 DEF WorkInv, Working
<1>6. mem'[p] = mem[p] => OwnInv(p)'
  BY <1>1, <1>2, <1>3, RunningFacts DEF OwnInv, HasSetBack, Accountable, InSession, At
<1>7. CASE SaveLater(p, mem[p])
  <2>1. mem'[p] = mem[p]
    BY <1>7, Functions DEF SaveLater
  <2>2. mem[p] \in State
    BY Functions
  <2>3. \A t \in mem[p].active : engine[p].phase = "completed" => FALSE
    BY <1>1
  <2>. QED
    BY <1>1, <1>2, <1>3, <1>4, <1>5, <1>6, <1>7, <2>1, <2>2, EventInv
<1>8. CASE UNCHANGED <<mem, pending>>
  <2>1. LocalStep(p)
    BY <1>1, <1>2, <1>3, <1>8, Functions, SessionFacts DEF LocalStep
  <2>2. CommandInv(p)' /\ LastSaveInv(p)' /\ MemoryInv(p)'
    BY <1>1, <1>2, <1>3, <1>8 DEF CommandInv, LastSaveInv, MemoryInv, Busy, InSession, Steady
  <2>3. \A u \in Task : RecordedBy(p, u) => RecordedBy(p, u)'
    BY <1>1, <1>2, <1>8 DEF RecordedBy, At
  <2>4. pc'[p] \notin Setup \cup {"idle", "exited", "release"}
          /\ pc[p] \in {"session"} \cup Shutdown
    BY <1>1, <1>2, RunningFacts DEF Setup, Shutdown
  <2>. QED
    BY <1>1, <1>2, <1>4, <1>5, <1>6, <1>8, <2>1, <2>2, <2>3, <2>4, Functions, QuietInv
<1>. QED
  BY <1>7, <1>8 DEF IterationWithoutCompletion

(* The engine ends: no task is in hand, and no completion to be told.       *)
LEMMA EngineStopsInv ==
    ASSUME IInv, NEW p \in Proc, EngineStops(p)
    PROVE  StepInv(p)
<1>1. EngineRuns(p) /\ engine[p].phase \in {"idle", "paused"} /\ InSession(p) /\ ~Working(p)
  BY RunningFacts DEF EngineStops, At, Working
<1>2. /\ UNCHANGED <<tracker, file, lock, pc, kind, mem, found, todo, reset, pending, exposed,
                     disturbed>>
      /\ EngineInv(p) /\ WorkInv(p) /\ OwnInv(p) /\ MemoryInv(p) /\ LastSaveInv(p)
      /\ CommandInv(p)
  BY <1>1, SessionFacts DEF EngineStops
<1>3. /\ engine' \in [Proc -> Engine] /\ \A q \in Proc \ {p} : engine'[q] = engine[q]
      /\ engine'[p].phase = "stopped" /\ engine'[p].cur = engine[p].cur
      /\ engine'[p].iteration = engine[p].iteration
      /\ engine'[p].tasksCompleted = engine[p].tasksCompleted
  BY ToPhase DEF EngineStops, Phases
<1>4. LocalStep(p)
  BY <1>1, <1>2, <1>3, Functions, SessionFacts DEF LocalStep
<1>5. CommandInv(p)' /\ LastSaveInv(p)' /\ MemoryInv(p)'
  BY <1>1, <1>2, <1>3 DEF CommandInv, LastSaveInv, MemoryInv, Busy, InSession, Steady
<1>6. EngineInv(p)'
  BY <1>1, <1>2, <1>3 DEF EngineInv, Working, InSession
<1>7. WorkInv(p)'
  BY <1>3 DEF WorkInv, Working
<1>8. OwnInv(p)'
  BY <1>1, <1>2 DEF OwnInv, HasSetBack, Accountable, InSession, At
<1>9. \A u \in Task : RecordedBy(p, u) => RecordedBy(p, u)'
  BY <1>1, <1>2 DEF RecordedBy, At
<1>10. pc'[p] \notin Setup \cup {"idle", "exited", "release"}
         /\ pc[p] \in {"session"} \cup Shutdown
  BY <1>1, <1>2, RunningFacts DEF Setup, Shutdown
<1>. QED
  BY <1>1, <1>2, <1>4, <1>5, <1>6, <1>7, <1>8, <1>9, <1>10, Functions, QuietInv

(* The shutdown sets an active task back to open.                            *)
LEMMA ResetTaskInv ==
    ASSUME IInv, NEW p \in Proc, NEW t \in Task, ResetTask(p, t)
    PROVE  StepInv(p)
<1>1. InSession(p) /\ pc[p] = "resetActive" /\ pc[p] \in Shutdown /\ ~HasSetBack(p)
  BY DEF ResetTask, InSession, Shutdown, HasSetBack, Ending
<1>2. /\ UNCHANGED <<file, lock, pc, kind, mem, found, engine, pending, exposed>>
      /\ EngineInv(p) /\ WorkInv(p) /\ OwnInv(p) /\ MemoryInv(p) /\ LastSaveInv(p)
      /\ CommandInv(p)
  BY <1>1, SessionFacts DEF ResetTask
<1>3. /\ disturbed' \in BOOLEAN
      /\ disturbed => disturbed'
  BY Functions DEF ResetTask
<1>4. /\ tracker' \in [Task -> {"open", "completed"} \cup Proc] /\ tracker'[t] \in {tracker[t], "open"}
      /\ \A u \in Task \ {t} : tracker'[u] = tracker[u]
  BY Functions DEF ResetTask
<1>5. /\ todo' \in [Proc -> SUBSET Task] /\ todo'[p] = todo[p] \ {t}
      /\ \A q \in Proc \ {p} : todo'[q] = todo[q]
      /\ reset' \in [Proc -> Resets] /\ \A q \in Proc \ {p} : reset'[q] = reset[q]
      /\ reset[p].failed \subseteq reset'[p].failed
      /\ tracker'[t] = "open" \/ t \in reset'[p].failed
  <2>1. /\ todo' \in [Proc -> SUBSET Task] /\ todo'[p] = todo[p] \ {t}
        /\ \A q \in Proc \ {p} : todo'[q] = todo[q]
    BY Functions DEF ResetTask
  <2>2. CASE tracker' = [tracker EXCEPT ![t] = "open"] /\ reset' = [reset EXCEPT ![p].counted = TRUE]
    BY <2>1, <2>2, Functions DEF Resets
  <2>3. ASSUME NEW counts \in {TRUE, reset[p].counted},
               reset' = [reset EXCEPT ![p].counted = counts, ![p].failed = @ \cup {t}]
        PROVE  /\ reset' \in [Proc -> Resets] /\ \A q \in Proc \ {p} : reset'[q] = reset[q]
               /\ reset'[p].failed = reset[p].failed \cup {t}
    BY <2>3, Functions DEF Resets
  <2>. QED
    BY <2>1, <2>2, <2>3 DEF ResetTask
<1>6. p # "open"
  BY PersistenceAssumption
<1>7. LocalStep(p)
  BY <1>1, <1>2, <1>5, Functions, SessionFacts DEF LocalStep
<1>8. CommandInv(p)' /\ LastSaveInv(p)' /\ EngineInv(p)'
  BY <1>2, <1>3 DEF CommandInv, LastSaveInv, EngineInv, Working, InSession, Steady
<1>9. MemoryInv(p)'
  BY <1>1, <1>2, <1>3, <1>4, SessionFacts DEF MemoryInv, Busy, InSession, Steady
<1>10. WorkInv(p)'
  BY <1>2, <1>4, <1>6 DEF WorkInv, Working
<1>11. OwnInv(p)'
  BY <1>1, <1>2, <1>4, <1>5, <1>6 DEF OwnInv, InSession, HasSetBack, Accountable, At, EngineRuns
<1>12. \A u \in Task : tracker'[u] = "completed" =>
               tracker[u] = "completed" /\ (RecordedBy(p, u) => RecordedBy(p, u)')
  BY <1>2, <1>4 DEF RecordedBy, At, EngineRuns
<1>13. pc'[p] \notin Setup \cup {"idle", "exited", "release"}
  BY <1>1, <1>2 DEF Setup, Shutdown
<1>14. \A u \in Task : tracker'[u] \in {tracker[u], "open", "completed", p}
  BY <1>4
<1>. QED
  BY <1>1, <1>2, <1>3, <1>4, <1>7, <1>8, <1>9, <1>10, <1>11, <1>12, <1>13, <1>14, Functions,
     QuietInv

(* The command goes on to another place, with the tasks it has active.      *)
LEMMA TurnInv ==
    ASSUME IInv, NEW p \in Proc, InSession(p), pc[p] \notin {"saveQuit", "release"},
           pc' \in [Proc -> PcValues], \A q \in Proc \ {p} : pc'[q] = pc[q],
           mem' \in [Proc -> State], \A q \in Proc \ {p} : mem'[q] = mem[q],
           mem'[p].active = mem[p].active,
           todo' \in [Proc -> SUBSET Task], \A q \in Proc \ {p} : todo'[q] = todo[q],
           UNCHANGED <<tracker, file, kind, found, reset, engine, pending, exposed, disturbed>>,
           lock' \in {lock, NoProc},
           pc'[p] \in {"session", "drain"} \cup Shutdown \cup Ending, pc'[p] # "release",
           pc'[p] \in {"session"} \cup Shutdown =>
               pc[p] \in {"session"} \cup Shutdown
               /\ (IsSessionResumable(mem[p]) => IsSessionResumable(mem'[p])),
           CommandInv(p)', EngineInv(p)', OwnInv(p)'
    PROVE  StepInv(p)
<1>1. /\ EngineInv(p) /\ WorkInv(p) /\ OwnInv(p) /\ MemoryInv(p) /\ LastSaveInv(p)
      /\ CommandInv(p) /\ mem[p] \in State /\ mem[p].active \subseteq Task
  BY SessionFacts
<1>2. LocalStep(p)
  BY Functions, SessionFacts DEF LocalStep
<1>3. pc[p] \in Saved /\ pc'[p] \notin Setup \cup {"idle", "exited", "release"}
  BY DEF InSession, Saved, Setup, Shutdown, Ending
<1>4. LastSaveInv(p)'
  BY <1>1, <1>3 DEF LastSaveInv, Steady
<1>5. MemoryInv(p)'
  BY <1>1 DEF MemoryInv, Busy, Steady
<1>6. WorkInv(p)'
  BY <1>1 DEF WorkInv, Working
<1>7. \A t \in Task : RecordedBy(p, t) => RecordedBy(p, t)'
  <2>1. ASSUME At(p, "completed") PROVE At(p, "completed")'
    <3>1. InSession(p)' /\ pc'[p] \notin Ending
      BY <2>1 DEF EngineInv, At, EngineRuns
    <3>2. pc'[p] \in {"session"} \cup Shutdown
      BY <3>1 DEF InSession
    <3>. QED
      BY <2>1, <3>2 DEF At, EngineRuns
  <2>. QED
    BY <2>1 DEF RecordedBy
<1>. QED
  BY <1>1, <1>2, <1>3, <1>4, <1>5, <1>6, <1>7, Functions, QuietInv

(* A status that is noted leaves the active tasks.                           *)
LEMMA Interruption ==
    ASSUME IInv, NEW p \in Proc, NEW x \in Statuses,
           mem' = [mem EXCEPT ![p] = WithStatus(@, x)]
    PROVE  /\ mem' \in [Proc -> State] /\ mem'[p].active = mem[p].active /\ mem'[p].status = x
           /\ \A q \in Proc \ {p} : mem'[q] = mem[q]
<1>1. mem[p] \in State
  BY Functions
<1>2. /\ WithStatus(mem[p], x) \in State /\ WithStatus(mem[p], x).active = mem[p].active
      /\ WithStatus(mem[p], x).status = x
  BY <1>1, StateEnds
<1>3. mem' = [mem EXCEPT ![p] = WithStatus(mem[p], x)]
  OBVIOUS
<1>4. mem' \in [Proc -> State] /\ \A q \in Proc \ {p} : mem'[q] = mem[q]
  BY <1>2, <1>3, Functions
<1>5. mem'[p] = WithStatus(mem[p], x)
  BY <1>3, Functions
<1>. QED
  BY <1>2, <1>4, <1>5

(* The shutdown reads the active tasks once.                                 *)
LEMMA BeginResetValues ==
    ASSUME IInv, NEW p \in Proc, BeginReset(p)
    PROVE  /\ pc' \in [Proc -> PcValues] /\ \A q \in Proc \ {p} : pc'[q] = pc[q]
           /\ todo' \in [Proc -> SUBSET Task] /\ \A q \in Proc \ {p} : todo'[q] = todo[q]
           /\ \/ pc'[p] = "saveQuit" /\ mem[p].active = {}
              \/ pc'[p] = "resetActive" /\ todo'[p] = mem[p].active
<1>1. mem[p].active \subseteq Task
  BY Functions DEF State
<1>. QED
  BY <1>1, Functions DEF BeginReset, Goto, PcValues, Shutdown

(* The engine of a TUI run has stopped; its tasks are set back.              *)
LEMMA ExecutionOverInv ==
    ASSUME IInv, NEW p \in Proc, ExecutionOver(p)
    PROVE  StepInv(p)
<1>1. pc[p] = "stopping" /\ engine[p].phase = "stopped" /\ InSession(p) /\ BeginReset(p)
  BY DEF ExecutionOver, InSession, Shutdown
<1>2. /\ UNCHANGED <<tracker, file, lock, kind, mem, found, reset, engine, pending, exposed,
                     disturbed>>
      /\ EngineInv(p) /\ OwnInv(p) /\ CommandInv(p) /\ kind[p] = "run"
  BY <1>1, SessionFacts DEF ExecutionOver, CommandInv
<1>3. pc'[p] \in {"saveQuit", "resetActive"}
  BY <1>1, BeginResetValues
<1>4. CommandInv(p)' /\ EngineInv(p)'
  BY <1>1, <1>2, <1>3 DEF CommandInv, EngineInv, InSession, Working, Ending, Shutdown
<1>5. OwnInv(p)'
  BY <1>1, <1>2, <1>3, BeginResetValues DEF OwnInv, HasSetBack, Accountable, InSession, At,
     EngineRuns, Ending, Shutdown
<1>. QED
  BY <1>1, <1>2, <1>3, <1>4, <1>5, Functions, BeginResetValues, TurnInv DEF Shutdown

(* A command is told to quit.                                                *)
LEMMA QuitInv ==
    ASSUME IInv, NEW p \in Proc, Quit(p)
    PROVE  StepInv(p)
<1>1. pc[p] = "session" /\ InSession(p) /\ lock' \in {lock, NoProc}
  BY DEF Quit, InSession
<1>2. /\ UNCHANGED <<tracker, file, kind, found, reset, engine, pending, exposed, disturbed>>
      /\ EngineInv(p) /\ OwnInv(p) /\ CommandInv(p) /\ kind[p] \in Commands
  BY <1>1, SessionFacts DEF Quit
<1>3. CASE kind[p] = "run" /\ Goto(p, "stopping") /\ UNCHANGED <<mem, todo>>
  <2>1. pc' \in [Proc -> PcValues] /\ pc'[p] = "stopping" /\ \A q \in Proc \ {p} : pc'[q] = pc[q]
    BY <1>3, Functions DEF Goto, PcValues, Shutdown
  <2>2. CommandInv(p)' /\ EngineInv(p)'
    BY <1>1, <1>2, <1>3, <2>1 DEF CommandInv, EngineInv, InSession, Working, Ending, Shutdown
  <2>3. OwnInv(p)'
    BY <1>1, <1>2, <1>3, <2>1 DEF OwnInv, HasSetBack, Accountable, InSession, At, EngineRuns,
       Ending, Shutdown
  <2>. QED
    BY <1>1, <1>2, <1>3, <2>1, <2>2, <2>3, Functions, TurnInv DEF Shutdown
<1>4. CASE kind[p] = "runHeadless" /\ BeginReset(p) /\ UNCHANGED mem
  <2>1. pc'[p] \in {"saveQuit", "resetActive"}
    BY <1>4, BeginResetValues
  <2>2. CommandInv(p)' /\ EngineInv(p)'
    BY <1>1, <1>2, <1>4, <2>1 DEF CommandInv, EngineInv, InSession, Working, Ending, Shutdown
  <2>3. OwnInv(p)'
    BY <1>1, <1>2, <1>4, <2>1 DEF OwnInv, HasSetBack, Accountable, InSession, At, EngineRuns,
       Ending, Shutdown
  <2>. QED
    BY <1>1, <1>2, <1>4, <2>1, <2>2, <2>3, Functions, BeginResetValues, TurnInv DEF Shutdown
<1>5. CASE Resumes(p) /\ Interrupted(p) /\ Goto(p, "saveQuit") /\ UNCHANGED todo
  <2>1. pc' \in [Proc -> PcValues] /\ pc'[p] = "saveQuit" /\ \A q \in Proc \ {p} : pc'[q] = pc[q]
    BY <1>5, Functions DEF Goto, PcValues, Shutdown
  <2>2. /\ mem' \in [Proc -> State] /\ mem'[p].active = mem[p].active
        /\ mem'[p].status = "interrupted" /\ \A q \in Proc \ {p} : mem'[q] = mem[q]
    BY <1>5, Interruption DEF Interrupted, Statuses
  <2>3. kind[p] \in {"resume", "resumeHeadless"}
    BY <1>5 DEF Resumes
  <2>4. CommandInv(p)' /\ EngineInv(p)'
    BY <1>1, <1>2, <2>1, <2>3 DEF CommandInv, EngineInv, InSession, Working, Ending, Shutdown
  <2>5. OwnInv(p)'
    BY <1>1, <1>2, <2>1, <2>2, <2>3 DEF OwnInv, HasSetBack, Accountable, InSession, At,
       EngineRuns, Ending, Shutdown
  <2>. QED
    BY <1>1, <1>2, <1>5, <2>1, <2>2, <2>4, <2>5, Functions, TurnInv DEF Shutdown, IsSessionResumable
<1>. QED
  BY <1>3, <1>4, <1>5 DEF Quit

(* The engine of a headless command has stopped.                             *)
LEMMA HeadlessOverInv ==
    ASSUME IInv, NEW p \in Proc, HeadlessOver(p)
    PROVE  StepInv(p)
<1>1. /\ pc[p] = "session" /\ engine[p].phase = "stopped" /\ InSession(p)
      /\ lock' \in {lock, NoProc}
  BY DEF HeadlessOver, InSession
<1>2. /\ UNCHANGED <<tracker, file, kind, mem, found, todo, reset, engine, pending, exposed,
                     disturbed>>
      /\ EngineInv(p) /\ OwnInv(p) /\ CommandInv(p)
  BY <1>1, SessionFacts DEF HeadlessOver
<1>3. /\ pc' \in [Proc -> PcValues] /\ \A q \in Proc \ {p} : pc'[q] = pc[q]
      /\ \/ kind[p] = "runHeadless" /\ pc'[p] = "final"
         \/ kind[p] = "resumeHeadless" /\ pc'[p] = "drain"
  BY Functions DEF HeadlessOver, Goto, PcValues, Ending
<1>4. CommandInv(p)'
  BY <1>1, <1>2, <1>3 DEF CommandInv, Commands, Ending
<1>5. EngineInv(p)'
  BY <1>1, <1>2, <1>3 DEF EngineInv, InSession, Working, Ending, Shutdown
<1>6. OwnInv(p)'
  BY <1>1, <1>2, <1>3 DEF OwnInv, HasSetBack, Accountable, InSession, At, EngineRuns, Ending,
     Shutdown
<1>. QED
  BY <1>1, <1>2, <1>3, <1>4, <1>5, <1>6, Functions, TurnInv DEF Shutdown, Ending

(* A run asks whether the session is complete.                               *)
LEMMA FinalCheckInv ==
    ASSUME IInv, NEW p \in Proc, FinalCheck(p)
    PROVE  StepInv(p)
<1>1. pc[p] = "final" /\ InSession(p)
  BY DEF FinalCheck, InSession, Ending
<1>2. /\ UNCHANGED <<tracker, file, lock, kind, found, todo, reset, engine, pending, exposed,
                     disturbed>>
      /\ EngineInv(p) /\ OwnInv(p) /\ CommandInv(p)
  BY <1>1, SessionFacts DEF FinalCheck
<1>3. /\ pc' \in [Proc -> PcValues] /\ \A q \in Proc \ {p} : pc'[q] = pc[q]
      /\ pc'[p] \in {"saveCompleted", "saveEnd"}
  BY Functions DEF FinalCheck, Goto, PcValues, Ending
<1>4. /\ mem' \in [Proc -> State] /\ mem'[p].active = mem[p].active
      /\ \A q \in Proc \ {p} : mem'[q] = mem[q]
  <2>1. CASE mem' = mem
    BY <2>1, Functions
  <2>2. CASE mem' = [mem EXCEPT ![p] = WithStatus(@, "completed")]
    BY <2>2, Interruption DEF Statuses
  <2>. QED
    BY <2>1, <2>2 DEF FinalCheck
<1>5. CommandInv(p)'
  BY <1>1, <1>2, <1>3 DEF CommandInv, Ending
<1>6. EngineInv(p)'
  BY <1>1, <1>2, <1>3 DEF EngineInv, InSession, Working, Ending
<1>7. OwnInv(p)'
  BY <1>1, <1>2, <1>3, <1>4 DEF OwnInv, HasSetBack, Accountable, InSession, At, EngineRuns,
     Ending, Shutdown
<1>. QED
  BY <1>1, <1>2, <1>3, <1>4, <1>5, <1>6, <1>7, Functions, TurnInv DEF Shutdown, Ending

(* The shutdown has set back what it had read.                               *)
LEMMA ResetDoneInv ==
    ASSUME IInv, NEW p \in Proc, ResetDone(p)
    PROVE  StepInv(p)
<1>1. pc[p] = "resetActive" /\ todo[p] = {} /\ InSession(p) /\ pc[p] \in Shutdown
  BY DEF ResetDone, InSession, Shutdown
<1>2. /\ UNCHANGED <<tracker, file, lock, kind, found, todo, reset, engine, pending, exposed,
                     disturbed>>
      /\ EngineInv(p) /\ OwnInv(p) /\ CommandInv(p) /\ WorkInv(p) /\ MemoryInv(p)
      /\ LastSaveInv(p) /\ mem[p] \in State
  BY <1>1, SessionFacts DEF ResetDone
<1>3. pc' \in [Proc -> PcValues] /\ pc'[p] = "saveQuit" /\ \A q \in Proc \ {p} : pc'[q] = pc[q]
  BY Functions DEF ResetDone, Goto, PcValues, Shutdown
<1>4. /\ mem' \in [Proc -> State] /\ mem'[p].status = mem[p].status
      /\ mem'[p].active = IF reset[p].counted THEN {} ELSE mem[p].active
      /\ \A q \in Proc \ {p} : mem'[q] = mem[q]
  <2>1. /\ ClearActive(mem[p]) \in State /\ ClearActive(mem[p]).active = {}
        /\ ClearActive(mem[p]).status = mem[p].status
    BY <1>2, StateEnds
  <2>2. ASSUME mem' = [mem EXCEPT ![p] = ClearActive(mem[p])]
        PROVE  /\ mem' \in [Proc -> State] /\ mem'[p] = ClearActive(mem[p])
               /\ \A q \in Proc \ {p} : mem'[q] = mem[q]
    BY <2>1, <2>2, Functions
  <2>3. CASE reset[p].counted
    BY <2>1, <2>2, <2>3 DEF ResetDone
  <2>4. CASE ~reset[p].counted
    BY <2>4, Functions DEF ResetDone
  <2>. QED
    BY <2>3, <2>4
<1>5. LocalStep(p)
  BY <1>1, <1>2, <1>3, <1>4, Functions, SessionFacts DEF LocalStep
<1>6. CommandInv(p)' /\ EngineInv(p)'
  BY <1>1, <1>2, <1>3 DEF CommandInv, EngineInv, InSession, Working, Ending, Shutdown
<1>7. WorkInv(p)' /\ MemoryInv(p)' /\ LastSaveInv(p)'
  <2>1. Busy(p)
    BY <1>1 DEF Busy
  <2>2. WorkInv(p)' /\ LastSaveInv(p)'
    BY <1>2, <1>3 DEF WorkInv, Working, LastSaveInv, Saved, Shutdown, Ending
  <2>3. mem'[p].active \subseteq mem[p].active
    BY <1>4
  <2>4. MemoryInv(p)'
    BY <1>2, <2>1, <2>3 DEF MemoryInv, Steady
  <2>. QED
    BY <2>2, <2>4
<1>8. OwnInv(p)'
  <2>1. kind[p] \in {"run", "runHeadless"}
    BY <1>1, <1>2 DEF CommandInv
  <2>2. ASSUME kind[p] = "run", NEW t \in Task, tracker[t] = p
        PROVE  t \in reset[p].failed /\ t \in mem[p].active
    <3>1. ~HasSetBack(p) /\ Accountable(p) /\ engine[p].phase = "stopped"
      BY <1>1, <1>2, <2>2 DEF HasSetBack, Accountable, Ending, EngineInv
    <3>. QED
      BY <1>1, <1>2, <2>2, <3>1 DEF OwnInv, At
  <2>3. InSession(p)' /\ (kind[p] = "run" => HasSetBack(p)')
    BY <1>2, <1>3 DEF InSession, HasSetBack, Shutdown
  <2>4. kind[p] = "runHeadless" => ~Accountable(p)' /\ ~HasSetBack(p)'
    BY <1>2, <1>3 DEF Accountable, HasSetBack
  <2>5. ASSUME HasSetBack(p)', NEW t \in Task, tracker'[t] = p
        PROVE  t \in reset'[p].failed /\ (t \in mem'[p].active \/ reset'[p].counted)
    <3>1. kind[p] = "run" /\ tracker[t] = p
      BY <1>2, <2>5 DEF HasSetBack
    <3>. QED
      BY <1>2, <1>4, <2>2, <3>1
  <2>. QED
    BY <1>3, <2>1, <2>3, <2>4, <2>5, <1>2 DEF OwnInv
<1>9. \A t \in Task : RecordedBy(p, t) => RecordedBy(p, t)'
  BY <1>1, <1>2, <1>3 DEF RecordedBy, At, EngineRuns, Shutdown
<1>10. pc'[p] \notin Setup \cup {"idle", "exited", "release"}
  BY <1>3 DEF Setup
<1>. QED
  BY <1>1, <1>2, <1>4, <1>5, <1>6, <1>7, <1>8, <1>9, <1>10, Functions, QuietInv
     DEF IsSessionResumable

(* A headless run fails.                                                     *)
LEMMA ExecutionFailsInv ==
    ASSUME IInv, NEW p \in Proc, ExecutionFails(p)
    PROVE  StepInv(p)
<1>1. /\ pc[p] = "session" /\ kind[p] = "runHeadless" /\ engine[p].phase = "idle"
      /\ InSession(p) /\ ~Working(p)
  BY DEF ExecutionFails, InSession, At, Working
<1>2. /\ UNCHANGED <<tracker, file, lock, kind, found, todo, reset, pending, exposed, disturbed>>
      /\ EngineInv(p) /\ OwnInv(p) /\ CommandInv(p) /\ MemoryInv(p) /\ LastSaveInv(p)
      /\ mem[p] \in State
  BY <1>1, SessionFacts DEF ExecutionFails
<1>3. pc' \in [Proc -> PcValues] /\ pc'[p] = "saveEnd" /\ \A q \in Proc \ {p} : pc'[q] = pc[q]
  BY Functions DEF ExecutionFails, Goto, PcValues, Ending
<1>4. /\ mem' \in [Proc -> State] /\ mem'[p].active = mem[p].active
      /\ \A q \in Proc \ {p} : mem'[q] = mem[q]
  BY Interruption DEF ExecutionFails, Statuses
<1>5. /\ engine' \in [Proc -> Engine] /\ \A q \in Proc \ {p} : engine'[q] = engine[q]
      /\ engine'[p].phase = "stopped"
      /\ engine'[p].iteration = engine[p].iteration
      /\ engine'[p].tasksCompleted = engine[p].tasksCompleted
  BY ToPhase DEF ExecutionFails, Phases
<1>6. LocalStep(p)
  BY <1>1, <1>2, <1>3, <1>4, <1>5, Functions, SessionFacts DEF LocalStep
<1>7. CommandInv(p)' /\ EngineInv(p)' /\ WorkInv(p)'
  BY <1>1, <1>2, <1>3, <1>5 DEF CommandInv, EngineInv, WorkInv, InSession, Working, Ending
<1>8. MemoryInv(p)' /\ LastSaveInv(p)'
  BY <1>1, <1>2, <1>3, <1>4 DEF MemoryInv, LastSaveInv, Saved, Busy, InSession, Steady, Ending
<1>9. OwnInv(p)'
  BY <1>1, <1>2, <1>3 DEF OwnInv, HasSetBack, Accountable, InSession, Ending
<1>10. \A t \in Task : RecordedBy(p, t) => RecordedBy(p, t)'
  BY <1>1, <1>2 DEF RecordedBy, At
<1>11. pc'[p] \notin Setup \cup {"idle", "exited", "release", "session"} \cup Shutdown
  BY <1>3 DEF Setup, Shutdown
<1>. QED
  BY <1>1, <1>2, <1>6, <1>7, <1>8, <1>9, <1>10, <1>11, Functions, QuietInv

(* A save the process waits for: after it the file has what the memory has.  *)
LEMMA WriteInv ==
    ASSUME IInv, NEW p \in Proc, InSession(p), NEW s \in State, Write(p, s),
           s.active \subseteq mem[p].active,
           pc' \in [Proc -> PcValues], \A q \in Proc \ {p} : pc'[q] = pc[q],
           mem' \in [Proc -> State], \A q \in Proc \ {p} : mem'[q] = mem[q],
           mem'[p].active = mem[p].active,
           UNCHANGED <<tracker, lock, kind, found, todo, reset, engine, pending, exposed>>,
           pc'[p] \in {"dispose"} \cup Ending,
           pc'[p] # "release" => s.active = mem'[p].active,
           pc'[p] = "dispose" => pc[p] = "saveQuit" /\ IsSessionResumable(mem'[p])
                                   /\ IsSessionResumable(s),
           CommandInv(p)', EngineInv(p)', OwnInv(p)'
    PROVE  StepInv(p)
<1>1. /\ EngineInv(p) /\ WorkInv(p) /\ MemoryInv(p) /\ LastSaveInv(p) /\ ResumableInv(p)
      /\ mem[p] \in State /\ mem[p].active \subseteq Task
  BY SessionFacts
<1>2. LocalStep(p)
  BY Functions, SessionFacts DEF LocalStep
<1>3. file' = s /\ disturbed' = (disturbed \/ pending[p] # <<>> \/ OthersBusy(p))
  BY DEF Write
<1>4. pc'[p] \notin Setup \cup {"idle", "exited", "saveQuit"} /\ InSession(p)'
        /\ pc'[p] \in {"dispose"} \cup Ending
  BY DEF Setup, Shutdown, Ending, InSession
<1>5. Types' /\ Frame(p)
  <2>1. pc'[p] # "save"
    BY <1>4 DEF Setup
  <2>2. disturbed' \in BOOLEAN
    BY <1>3, Functions
  <2>. QED
    BY <1>2, <1>3, <2>1, <2>2, Functions, SessionFrame
<1>6. ResumableInv(p)'
  <2>1. pc'[p] \in {"session"} \cup Shutdown => pc'[p] = "dispose"
    BY <1>4 DEF Shutdown, Ending
  <2>. QED
    BY <1>1, <1>3, <2>1 DEF ResumableInv, Shutdown
<1>7. LastSaveInv(p)'
  BY <1>3, <1>4 DEF LastSaveInv, Saved, Steady
<1>8. MemoryInv(p)' /\ WorkInv(p)'
  BY <1>1, <1>3 DEF MemoryInv, WorkInv, Working, Busy, Steady
<1>9. RecoveryInv(p)'
  BY <1>4 DEF RecoveryInv, Setup
<1>10. ListedStep(p)
  <2>. SUFFICES ASSUME ~disturbed', NEW t \in s.active, tracker[t] = "completed", t \notin exposed
                PROVE  RecordedBy(p, t)'
    BY <1>3 DEF ListedStep
  <2>1. engine[p].phase = "completed" /\ engine[p].cur = t
    BY <1>1, <1>3 DEF MemoryInv, Steady, Busy
  <2>2. pc'[p] \notin Ending
    BY <2>1 DEF EngineInv
  <2>3. pc'[p] = "dispose"
    BY <1>4, <2>2
  <2>. QED
    BY <2>1, <2>3 DEF RecordedBy, At, EngineRuns, Shutdown
<1>. QED
  BY <1>5, <1>6, <1>7, <1>8, <1>9, <1>10 DEF StepInv, ProcessInv

(* The save of the shutdown, which is awaited.                               *)
LEMMA SaveOnQuitInv ==
    ASSUME IInv, NEW p \in Proc, SaveOnQuit(p)
    PROVE  StepInv(p)
<1>1. pc[p] = "saveQuit" /\ InSession(p)
  BY DEF SaveOnQuit, InSession, Shutdown
<1>2. /\ UNCHANGED <<tracker, lock, kind, found, todo, reset, engine, pending, exposed>>
      /\ EngineInv(p) /\ OwnInv(p) /\ CommandInv(p) /\ kind[p] \in Commands
      /\ mem[p] \in State
  BY <1>1, SessionFacts DEF SaveOnQuit
<1>3. PICK s \in State : /\ s = FinalState(p) /\ s.active = mem[p].active
                         /\ kind[p] # "run" => s.status = "interrupted"
  BY <1>2, StateEnds DEF FinalState, Statuses
<1>4. /\ pc' \in [Proc -> PcValues] /\ \A q \in Proc \ {p} : pc'[q] = pc[q]
      /\ pc'[p] = IF kind[p] = "run" THEN "final" ELSE "dispose"
  BY Functions DEF SaveOnQuit, Goto, PcValues, Ending, Shutdown
<1>5. mem' \in [Proc -> State] /\ mem'[p] = s /\ \A q \in Proc \ {p} : mem'[q] = mem[q]
  BY <1>3, Functions DEF SaveOnQuit
<1>6. CommandInv(p)'
  BY <1>1, <1>2, <1>4 DEF CommandInv, Ending
<1>7. EngineInv(p)'
  BY <1>1, <1>2, <1>4 DEF EngineInv, InSession, Working, Ending, Shutdown
<1>8. OwnInv(p)'
  BY <1>1, <1>2, <1>3, <1>4, <1>5 DEF OwnInv, HasSetBack, Accountable, InSession, At,
     EngineRuns, Ending, Shutdown
<1>9. Write(p, s)
  BY <1>3 DEF SaveOnQuit
<1>. QED
  BY <1>1, <1>2, <1>3, <1>4, <1>5, <1>6, <1>7, <1>8, <1>9, WriteInv DEF Ending, IsSessionResumable

(* The awaited writes at the end of a run.                                   *)
LEMMA LastWrite ==
    ASSUME IInv, NEW p \in Proc, pc[p] \in Ending, NEW s \in State, Write(p, s),
           s = mem[p] \/ (s = NoSession /\ pc'[p] = "release"),
           pc'[p] \in {"deleteCompleted", "release"}, Goto(p, pc'[p]),
           UNCHANGED <<tracker, lock, kind, mem, found, todo, reset, engine, pending, exposed>>
    PROVE  StepInv(p)
<1>1. InSession(p)
  BY DEF InSession
<1>2. EngineInv(p) /\ OwnInv(p) /\ CommandInv(p) /\ kind[p] \in Commands
  BY <1>1, SessionFacts
<1>3. pc'[p] \in PcValues /\ pc'[p] \in Ending
  BY DEF PcValues, Ending
<1>4. pc' \in [Proc -> PcValues] /\ \A q \in Proc \ {p} : pc'[q] = pc[q]
  <2>1. pc' = [pc EXCEPT ![p] = pc'[p]]
    BY DEF Goto
  <2>. QED
    BY <1>3, <2>1, Functions, UpdatedAtOne, Zenon
<1>5. mem' \in [Proc -> State] /\ \A q \in Proc \ {p} : mem'[q] = mem[q]
  BY Functions
<1>6. CommandInv(p)'
  BY <1>2, <1>3 DEF CommandInv, Ending
<1>7. EngineInv(p)'
  BY <1>2, <1>3 DEF EngineInv, InSession, Working, Ending
<1>8. OwnInv(p)'
  <2>1. kind[p] \in {"run", "runHeadless"} /\ (kind[p] = "run" => HasSetBack(p))
    BY <1>2 DEF CommandInv, HasSetBack
  <2>2. /\ InSession(p)' /\ pc'[p] \notin {"session", "resetActive"}
        /\ kind[p] = "run" => HasSetBack(p)'
    BY <1>3 DEF InSession, Ending, HasSetBack
  <2>. QED
    BY <1>2, <2>1, <2>2 DEF OwnInv, HasSetBack, Accountable
<1>9. s.active \subseteq mem[p].active
  BY NewStates
<1>. QED
  BY <1>1, <1>3, <1>4, <1>5, <1>6, <1>7, <1>8, <1>9, WriteInv DEF Ending

(* The completed session is saved ...                                        *)
LEMMA SaveCompletedInv ==
    ASSUME IInv, NEW p \in Proc, SaveCompleted(p)
    PROVE  StepInv(p)
<1>1. pc'[p] = "deleteCompleted" /\ mem[p] \in State /\ pc[p] \in Ending
  BY Functions DEF SaveCompleted, Goto, Ending
<1>. QED
  BY <1>1, LastWrite DEF SaveCompleted

(* ... and deleted.                                                          *)
LEMMA DeleteCompletedInv ==
    ASSUME IInv, NEW p \in Proc, DeleteCompleted(p)
    PROVE  StepInv(p)
<1>1. pc'[p] = "release" /\ pc[p] \in Ending
  BY Functions DEF DeleteCompleted, Goto, Ending
<1>. QED
  BY <1>1, NewStates, LastWrite DEF DeleteCompleted

(* The session of a run that is not complete is saved.                       *)
LEMMA SaveEndInv ==
    ASSUME IInv, NEW p \in Proc, SaveEnd(p)
    PROVE  StepInv(p)
<1>1. pc'[p] = "release" /\ mem[p] \in State /\ pc[p] \in Ending
  BY Functions DEF SaveEnd, Goto, Ending
<1>. QED
  BY <1>1, LastWrite DEF SaveEnd

(* The exits.                                                               *)
LEMMA ExposureSaid ==
    ASSUME IInv
    PROVE  /\ Exposure \subseteq Task
           /\ \A t \in file.active : tracker[t] = "completed" => t \in Exposure
BY Functions DEF Exposure, State

(* The process exits at the end of its shutdown.                             *)
LEMMA ExitOnQuitInv ==
    ASSUME IInv, NEW p \in Proc, ExitOnQuit(p)
    PROVE  StepInv(p)
<1>1. pc[p] # "idle" /\ InSession(p) /\ lock' \in {lock, NoProc}
  BY DEF ExitOnQuit, InSession, Shutdown
<1>2. exposed' = exposed \cup Exposure /\ Exit(p) /\ UNCHANGED <<tracker, file, disturbed>>
  BY DEF ExitOnQuit
<1>. QED
  BY <1>1, <1>2, Functions, ExposureSaid, ExitInv DEF StepInv

(* The process is killed.                                                    *)
LEMMA CrashInv ==
    ASSUME IInv, NEW p \in Proc, Crash(p)
    PROVE  StepInv(p)
<1>1. pc[p] # "idle"
  BY DEF Crash, Alive
<1>2. exposed' = exposed \cup Exposure /\ Exit(p) /\ UNCHANGED <<tracker, file, lock, disturbed>>
  BY DEF Crash
<1>. QED
  BY <1>1, <1>2, Functions, ExposureSaid, ExitInv DEF StepInv

(* A headless resume ends when its saves have landed.                        *)
LEMMA DrainedInv ==
    ASSUME IInv, NEW p \in Proc, Drained(p)
    PROVE  StepInv(p)
<1>1. /\ pc[p] = "drain" /\ pending[p] = <<>> /\ Exit(p)
      /\ UNCHANGED <<tracker, file, lock, exposed, disturbed>>
  BY DEF Drained
<1>2. \A t : ~RecordedBy(p, t)
  BY <1>1 DEF RecordedBy, At, EngineRuns, Shutdown
<1>. QED
  BY <1>1, <1>2, Functions, ExitInv DEF StepInv

(* A run gives the lock back; undisturbed, no save is under way.             *)
LEMMA ReleaseInv ==
    ASSUME IInv, NEW p \in Proc, Release(p)
    PROVE  StepInv(p)
<1>1. /\ pc[p] = "release" /\ Exit(p) /\ lock' = NoProc /\ InSession(p)
      /\ UNCHANGED <<tracker, file, exposed, disturbed>>
  BY DEF Release, InSession, Ending
<1>2. \A t : Steady => ~RecordedBy(p, t)
  <2>1. Steady => pending[p] = <<>>
    BY <1>1, SessionFacts DEF LastSaveInv
  <2>. QED
    BY <1>1, <2>1 DEF RecordedBy, At, EngineRuns, Shutdown
<1>. QED
  BY <1>1, <1>2, Functions, ExitInv DEF StepInv, Steady

(* A save lands: while nothing was disturbed it is the oldest, and what it    *)
(* lists though it is completed a later one will take out of the file.       *)
LEMMA SaveLandsInv ==
    ASSUME IInv, NEW p \in Proc, SaveLands(p)
    PROVE  StepInv(p)
<1>1. PICK i \in 1..Len(pending[p]) :
          /\ file' = pending[p][i]
          /\ pending' = [pending EXCEPT ![p] = RemoveAt(@, i)]
          /\ disturbed' = (disturbed \/ i > 1 \/ OthersBusy(p))
          /\ UNCHANGED <<tracker, lock, pc, kind, mem, found, todo, reset, engine, exposed>>
  BY DEF SaveLands
<1>2. /\ pending[p] \in Seq(State) /\ Len(pending[p]) <= MaxPending
      /\ Len(pending[p]) \in Nat /\ DOMAIN pending[p] = 1..Len(pending[p])
  BY Functions
<1>3. i \in DOMAIN pending[p] /\ pending[p][i] \in State /\ pending[p] # <<>>
  BY <1>2
<1>4. PICK s \in Seq(State) : s = RemoveAt(pending[p], i)
  BY <1>2, SaveTaken
<1>5. /\ Len(s) = Len(pending[p]) - 1
      /\ \A j \in DOMAIN s : \E k \in DOMAIN pending[p] : s[j] = pending[p][k]
      /\ i = 1 => s = Tail(pending[p])
  BY <1>2, <1>4, SaveTaken
<1>6. /\ pending' \in [Proc -> Seq(State)] /\ pending'[p] = s
      /\ \A q \in Proc \ {p} : pending'[q] = pending[q]
  BY <1>1, <1>4, Functions
<1>7. Busy(p) /\ (InSession(p) \/ pc[p] = "drain")
  <2>1. EngineInv(p)
    BY DEF IInv, ProcessInv
  <2>. QED
    BY <1>3, <2>1 DEF EngineInv, Busy
<1>8. /\ CommandInv(p) /\ EngineInv(p) /\ WorkInv(p) /\ OwnInv(p) /\ ResumableInv(p)
      /\ LastSaveInv(p) /\ MemoryInv(p) /\ RecoveryInv(p)
  BY DEF IInv, ProcessInv
<1>9. Steady' => Steady /\ i = 1 /\ ~OthersBusy(p)
  <2>1. i \in Nat /\ i >= 1
    BY <1>2
  <2>2. Steady' => Steady /\ ~(i > 1) /\ ~OthersBusy(p)
    BY <1>1, Zenon DEF Steady
  <2>. QED
    BY <2>1, <2>2
<1>10. ASSUME Steady', s # <<>>
       PROVE  /\ s[Len(s)] = pending[p][Len(pending[p])] /\ Len(s) \in DOMAIN s
              /\ Len(pending[p]) # 1
  BY <1>2, <1>3, <1>5, <1>9, <1>10, TailEnds
<1>11. ASSUME Steady', s = <<>>
       PROVE  file' = pending[p][Len(pending[p])]
  BY <1>1, <1>2, <1>5, <1>9, <1>11
<1>12. Types'
  <2>1. \A q \in Proc : pending'[q] \in Seq(State) /\ Len(pending'[q]) <= MaxPending
    <3>1. Len(s) <= MaxPending
      BY <1>2, <1>5, PersistenceAssumption
    <3>. QED
      BY <1>6, <3>1, Functions
  <2>2. file' \in State /\ disturbed' \in BOOLEAN
    BY <1>1, <1>3, Functions
  <2>. QED
    BY <1>1, <1>6, <2>1, <2>2, Functions DEF Types, TypeOK
<1>13. Frame(p)
  <2>1. OthersKept(p)
    BY <1>1, <1>6, <1>7 DEF OthersKept, InSession, Shutdown, Ending
  <2>2. SharedKept(p)
    BY <1>1 DEF SharedKept
  <2>3. SessionEntered(p)
    BY <1>1, <1>7 DEF SessionEntered, Holding, InSession
  <2>. QED
    BY <2>1, <2>2, <2>3 DEF Frame
<1>14. CommandInv(p)' /\ EngineInv(p)'
  BY <1>1, <1>7, <1>8 DEF CommandInv, EngineInv, InSession, Working
<1>15. WorkInv(p)' /\ OwnInv(p)' /\ RecoveryInv(p)'
  <2>1. WorkInv(p)' /\ OwnInv(p)'
    BY <1>1, <1>8 DEF WorkInv, Working, OwnInv, HasSetBack, Accountable, InSession, At, EngineRuns
  <2>2. RecoveryInv(p)'
    BY <1>1, <1>7 DEF RecoveryInv, InSession, Shutdown, Ending
  <2>. QED
    BY <2>1, <2>2
<1>16. ResumableInv(p)'
  BY <1>1, <1>3, <1>5, <1>6, <1>8 DEF ResumableInv
<1>17. LastSaveInv(p)'
  <2>. SUFFICES ASSUME Steady'
                PROVE  /\ pc[p] \in Saved \cup {"drain"} /\ s # <<>>
                             => s[Len(s)].active = mem[p].active
                       /\ pc[p] \in Saved /\ s = <<>> => file'.active = mem[p].active
                       /\ pc[p] # "release"
    BY <1>1, <1>6 DEF LastSaveInv
  <2>. QED
    BY <1>3, <1>8, <1>9, <1>10, <1>11 DEF LastSaveInv
<1>18. MemoryInv(p)'
  BY <1>1, <1>7, <1>8, <1>9 DEF MemoryInv, Steady
<1>19. ListedStep(p)
  <2>. SUFFICES ASSUME ~disturbed', NEW t \in file'.active, tracker[t] = "completed",
                       t \notin exposed
                PROVE  RecordedBy(p, t)'
    BY <1>1 DEF ListedStep
  <2>1. Steady'
    BY DEF Steady
  <2>2. CASE t \in mem[p].active
    <3>1. engine[p].phase = "completed" /\ engine[p].cur = t
      BY <1>7, <1>8, <1>9, <2>1, <2>2 DEF MemoryInv
    <3>2. InSession(p) /\ pc[p] \notin Ending
      BY <1>8, <3>1 DEF EngineInv
    <3>3. At(p, "completed")'
      BY <1>1, <3>1, <3>2 DEF At, EngineRuns, InSession
    <3>. QED
      BY <1>1, <3>1, <3>3 DEF RecordedBy
  <2>3. CASE t \notin mem[p].active /\ pc[p] = "saveQuit"
    BY <1>1, <2>3 DEF RecordedBy
  <2>4. CASE t \notin mem[p].active /\ pc[p] \in Saved \cup {"drain"}
    <3>1. pending[p][Len(pending[p])].active = mem[p].active
      BY <1>3, <1>8, <1>9, <2>1, <2>4 DEF LastSaveInv
    <3>2. s # <<>>
      BY <1>11, <2>1, <2>4, <3>1
    <3>3. Len(s) \in DOMAIN s /\ t \notin s[Len(s)].active
      BY <1>10, <2>1, <2>4, <3>1, <3>2
    <3>. QED
      BY <1>6, <3>3 DEF RecordedBy
  <2>5. pc[p] # "release"
    BY <1>3, <1>8, <1>9, <2>1 DEF LastSaveInv
  <2>. QED
    BY <1>7, <2>2, <2>3, <2>4, <2>5 DEF InSession, Saved
<1>. QED
  BY <1>12, <1>13, <1>14, <1>15, <1>16, <1>17, <1>18, <1>19 DEF StepInv, ProcessInv

(* The first save.  A resume takes up the state it loaded, which lists no     *)
(* completed task: nobody used the session since, or its own recovery did.   *)
LEMMA SaveFirstInv ==
    ASSUME IInv, NEW p \in Proc, SaveFirst(p)
    PROVE  StepInv(p)
<1>1. pc[p] = "save" /\ pc[p] \in Setup /\ Holding(p)
  BY DEF SaveFirst, Setup, Holding
<1>2. /\ pending[p] = <<>> /\ engine[p].phase = "stopped" /\ ~InSession(p)
      /\ kind[p] \in Commands /\ mem[p] \in State /\ RecoveryInv(p) /\ OwnInv(p)
  BY <1>1, NothingRecorded, SetupFacts DEF IInv, ProcessInv
<1>3. /\ disturbed' = (disturbed \/ Outdated(p) \/ OthersBusy(p))
      /\ UNCHANGED <<tracker, lock, kind, todo, reset, pending, exposed>>
  BY DEF SaveFirst
<1>4. PICK s \in State : /\ s = FirstState(p) /\ s.status = "running"
                         /\ s.active = IF Resumes(p) THEN mem[p].active ELSE {}
  <2>1. /\ WithStatus(mem[p], "running") \in State
        /\ WithStatus(mem[p], "running").active = mem[p].active
        /\ WithStatus(mem[p], "running").status = "running"
    BY <1>2, StateEnds DEF Statuses
  <2>2. CASE Resumes(p)
    BY <2>1, <2>2 DEF FirstState
  <2>3. CASE ~Resumes(p)
    BY <2>3, NewStates DEF FirstState
  <2>. QED
    BY <2>2, <2>3
<1>5. file' = s
  BY <1>4 DEF SaveFirst
<1>6. mem' \in [Proc -> State] /\ mem'[p] = s /\ \A q \in Proc \ {p} : mem'[q] = mem[q]
  BY <1>4, Functions DEF SaveFirst
<1>7. pc' \in [Proc -> PcValues] /\ pc'[p] = "session" /\ \A q \in Proc \ {p} : pc'[q] = pc[q]
  BY Functions DEF SaveFirst, Goto, PcValues
<1>8. /\ engine' \in [Proc -> Engine] /\ \A q \in Proc \ {p} : engine'[q] = engine[q]
      /\ engine'[p].phase = "idle" /\ engine'[p].iteration = 0
      /\ engine'[p].tasksCompleted = 0
  <2>. DEFINE e == [NoEngine EXCEPT !.phase = "idle", !.totalTasks = Cardinality(Unfinished)]
  <2>1. engine' = [engine EXCEPT ![p] = e]
    BY DEF SaveFirst
  <2>2. e \in Engine /\ e.phase = "idle" /\ e.iteration = 0 /\ e.tasksCompleted = 0
    BY StartsNowhere, NoneUnfinished DEF Engine, Phases
  <2>. HIDE DEF e
  <2>. QED
    BY <2>1, <2>2, Functions
<1>9. /\ found' \in [Proc -> State]
      /\ \A q \in Proc : found'[q] = IF q = p \/ pc[q] = "acquire" THEN NoSession ELSE found[q]
  BY Functions, NewStates DEF SaveFirst
<1>10. ASSUME Steady', NEW t \in s.active, tracker[t] = "completed"
       PROVE  t \in exposed
  <2>1. Resumes(p) /\ t \in mem[p].active
    BY <1>4
  <2>2. ~disturbed /\ ~Outdated(p) /\ ~OthersBusy(p)
    BY <1>3, <1>10 DEF Steady
  <2>3. CASE file = mem[p]
    BY <1>1, <1>10, <2>1, <2>2, <2>3, FileIsRight
  <2>4. CASE found[p] = mem[p]
    BY <1>1, <1>2, <1>10, <2>1, <2>2, <2>4 DEF RecoveryInv, Steady
  <2>. QED
    BY <2>1, <2>2, <2>3, <2>4 DEF Outdated
<1>11. InSession(p)' /\ Busy(p)' /\ Holding(p)'
  BY <1>7 DEF InSession, Busy, Holding
<1>12. Types'
  <2>1. disturbed' \in BOOLEAN /\ lock' \in Proc \cup {NoProc} /\ exposed' \subseteq Task
    BY <1>3, Functions
  <2>2. kind' \in [Proc -> Commands \cup {"none"}] /\ todo' \in [Proc -> SUBSET Task]
    BY <1>3, Functions
  <2>. QED
    BY <1>3, <1>5, <1>6, <1>7, <1>8, <1>9, <2>1, <2>2, Functions DEF Types, TypeOK
<1>13. Frame(p)
  <2>1. OthersKept(p)
    BY <1>3, <1>6, <1>7, <1>8, <1>9, NewStates DEF OthersKept
  <2>2. SharedKept(p)
    BY <1>3, <1>5 DEF SharedKept
  <2>3. SessionEntered(p)
    BY <1>1, <1>3 DEF SessionEntered
  <2>. QED
    BY <2>1, <2>2, <2>3 DEF Frame
<1>14. CommandInv(p)'
  BY <1>2, <1>3, <1>7 DEF CommandInv, Ending
<1>15. EngineInv(p)'
  BY <1>7, <1>8, <1>11 DEF EngineInv, Working, Ending
<1>16. WorkInv(p)'
  BY <1>8 DEF WorkInv, Working
<1>17. OwnInv(p)'
  <2>1. \A t \in Task : tracker[t] # p
    BY <1>1, <1>2 DEF OwnInv, HasSetBack, Accountable, Setup
  <2>. QED
    BY <1>3, <1>7, <2>1 DEF OwnInv, HasSetBack, Accountable, Ending
<1>18. ResumableInv(p)'
  BY <1>2, <1>3, <1>4, <1>5, <1>6 DEF ResumableInv, IsSessionResumable
<1>19. LastSaveInv(p)'
  BY <1>2, <1>3, <1>5, <1>6, <1>7 DEF LastSaveInv
<1>20. MemoryInv(p)'
  BY <1>3, <1>6, <1>10 DEF MemoryInv
<1>21. RecoveryInv(p)'
  BY <1>7 DEF RecoveryInv
<1>22. ListedStep(p)
  BY <1>3, <1>5, <1>10 DEF ListedStep, Steady
<1>. QED
  BY <1>12, <1>13, <1>14, <1>15, <1>16, <1>17, <1>18, <1>19, <1>20, <1>21, <1>22
     DEF StepInv, ProcessInv

-----------------------------------------------------------------------------
(* The invariant.                                                           *)
LEMMA InitInv == Init => IInv
<1>. SUFFICES ASSUME Init PROVE IInv
  OBVIOUS
<1>1. \A p \in Proc : /\ pc[p] = "idle" /\ kind[p] = "none" /\ mem[p] = NoSession
                      /\ found[p] = NoSession /\ todo[p] = {} /\ engine[p] = NoEngine
                      /\ pending[p] = <<>>
  BY DEF Init
<1>2. \A p \in Proc : ~InSession(p) /\ ~Holding(p) /\ ~Busy(p)
  BY <1>1 DEF InSession, Holding, Busy, Shutdown, Ending
<1>3. Types
  <2>1. /\ tracker \in [Task -> {"open", "completed"} \cup Proc]
        /\ file \in State /\ lock \in Proc \cup {NoProc}
        /\ exposed \subseteq Task /\ disturbed \in BOOLEAN
    BY NewStates DEF Init
  <2>2. /\ pc \in [Proc -> PcValues] /\ kind \in [Proc -> Commands \cup {"none"}]
        /\ mem \in [Proc -> State] /\ found \in [Proc -> State] /\ todo \in [Proc -> SUBSET Task]
        /\ reset \in [Proc -> Resets]
    BY NewStates, NothingResetYet DEF Init, PcValues
  <2>3. engine \in [Proc -> Engine] /\ pending \in [Proc -> Seq(State)]
    BY StartsNowhere DEF Init
  <2>4. \A p \in Proc : pending[p] \in Seq(State) /\ Len(pending[p]) <= MaxPending
    <3>1. <<>> \in Seq(State) /\ Len(<<>>) = 0
      OBVIOUS
    <3>2. \A p \in Proc : pending[p] = <<>>
      BY <1>1
    <3>3. 0 <= MaxPending
      BY PersistenceAssumption
    <3>4. ASSUME NEW p \in Proc PROVE Len(pending[p]) = 0
      BY <3>1, <3>2
    <3>. QED
      BY <3>1, <3>2, <3>3, <3>4
  <2>. QED
    BY <2>1, <2>2, <2>3, <2>4 DEF Types, TypeOK
<1>4. OneAtATime /\ OneIsBusy /\ CompletedIsNotListed
  BY <1>2, NewStates DEF OneAtATime, OneIsBusy, CompletedIsNotListed, Init
<1>5. ASSUME NEW p \in Proc PROVE ProcessInv(p)
  <2>1. \A t \in Task : tracker[t] # p
    BY PersistenceAssumption DEF Init
  <2>2. CommandInv(p) /\ EngineInv(p) /\ WorkInv(p)
    BY <1>1, <1>2, StartsNowhere DEF CommandInv, EngineInv, WorkInv, Working, Ending
  <2>3. OwnInv(p) /\ ResumableInv(p) /\ LastSaveInv(p) /\ MemoryInv(p) /\ RecoveryInv(p)
    BY <1>1, <1>2, <2>1, NewStates DEF OwnInv, HasSetBack, Accountable, ResumableInv,
       LastSaveInv, MemoryInv,
                                       RecoveryInv, Shutdown, Ending, Saved
  <2>. QED
    BY <2>2, <2>3 DEF ProcessInv
<1>. QED
  BY <1>3, <1>4, <1>5 DEF IInv

(* Every step of a command.                                                  *)
LEMMA CommandStepInv ==
    ASSUME IInv, NEW p \in Proc, CommandStep(p)
    PROVE  StepInv(p)
<1>1. ASSUME NEW t \in Task, RecoverTask(p, t) \/ ResetTask(p, t) PROVE StepInv(p)
  BY <1>1, RecoverTaskInv, ResetTaskInv
<1>2. CASE \/ LoadSession(p) \/ CheckSession(p) \/ DetectStale(p) \/ ProbeLock(p)
           \/ SaveRecovered(p) \/ PromptResumeOrNew(p) \/ DeleteOldSession(p)
           \/ AcquireLock(p) \/ SaveFirst(p)
  BY <1>2, LoadSessionInv, CheckSessionInv, DetectStaleInv, ProbeLockInv, SaveRecoveredInv,
     PromptInv, DeleteOldSessionInv, AcquireLockInv, SaveFirstInv
<1>3. CASE \/ ExecutionOver(p) \/ ResetDone(p) \/ SaveOnQuit(p) \/ ExitOnQuit(p)
           \/ HeadlessOver(p) \/ Drained(p) \/ FinalCheck(p) \/ SaveCompleted(p)
           \/ DeleteCompleted(p) \/ SaveEnd(p) \/ Release(p)
  BY <1>3, ExecutionOverInv, ResetDoneInv, SaveOnQuitInv, ExitOnQuitInv, HeadlessOverInv,
     DrainedInv, FinalCheckInv, SaveCompletedInv, DeleteCompletedInv, SaveEndInv, ReleaseInv
<1>. QED
  BY <1>1, <1>2, <1>3 DEF CommandStep

(* Every step of an engine.                                                  *)
LEMMA EngineStepInv ==
    ASSUME IInv, NEW p \in Proc, EngineStep(p)
    PROVE  StepInv(p)
BY SetInProgressInv, OnTaskActivatedInv, CompleteTaskInv, OnTaskCompletedInv,
   OnIterationCompletedInv, IterationWithoutCompletionInv, EngineStopsInv DEF EngineStep

(* Every step keeps the invariant.                                           *)
LEMMA NextInv == IInv /\ [Next]_vars => IInv'
<1>. SUFFICES ASSUME IInv, [Next]_vars PROVE IInv'
  OBVIOUS
<1>1. CASE UNCHANGED vars
  <2>1. Types' /\ OneAtATime' /\ OneIsBusy' /\ CompletedIsNotListed'
    BY <1>1 DEF vars, IInv, Types, TypeOK, OneAtATime, OneIsBusy, Steady, Holding, Busy,
       InSession, CompletedIsNotListed, BeingRecorded, At, EngineRuns
  <2>2. ASSUME NEW p \in Proc PROVE ProcessInv(p)'
    BY <1>1 DEF vars, IInv, ProcessInv, CommandInv, EngineInv, WorkInv, OwnInv, HasSetBack,
       Accountable, ResumableInv,
       LastSaveInv, MemoryInv, RecoveryInv, InSession, Working, At, EngineRuns, Busy, Steady,
       Resumes
  <2>. QED
    BY <2>1, <2>2 DEF IInv
<1>2. ASSUME NEW p \in Proc, StepInv(p) PROVE IInv'
  <2>1. OneAtATime' /\ OneIsBusy'
    BY <1>2, StaysAlone DEF StepInv
  <2>2. CompletedIsNotListed'
    BY <1>2, ListedInv DEF StepInv
  <2>3. \A q \in Proc \ {p} : ProcessInv(q)'
    BY <1>2, OthersInv DEF StepInv
  <2>. QED
    BY <1>2, <2>1, <2>2, <2>3 DEF StepInv, IInv
<1>3. ASSUME Next PROVE \E p \in Proc : StepInv(p)
  <2>1. PICK p \in Proc :
          \/ \E k \in Kinds : StartCommand(p, k)
          \/ CommandStep(p) \/ EngineStep(p) \/ SaveLands(p)
          \/ OnPaused(p) \/ OnResumed(p)
          \/ Quit(p) \/ ExecutionFails(p) \/ Crash(p)
    BY <1>3 DEF Next
  <2>. QED
    BY <2>1, StartCommandInv, CommandStepInv, EngineStepInv, SaveLandsInv, OnPausedInv,
       OnResumedInv, QuitInv, ExecutionFailsInv, CrashInv
<1>. QED
  BY <1>1, <1>2, <1>3

(* The invariant holds in every state of any number of commands.             *)
THEOREM Invariant == Spec => []IInv
<1>. QED
  BY InitInv, NextInv, PTL DEF Spec

(* detectAndRecoverStaleSession (src/src/session/persistence.ts) may trust    *)
(* it finds: at any time, and after a kill at any point, the session file     *)
(* can be resumed while a session is under way, and lists no completed task   *)
(* as active but one whose recording is on its way, or was cut off.           *)
THEOREM Recoverable == Spec => []SessionCanBeRecovered
<1>1. IInv => SessionCanBeRecovered
  BY DEF IInv, Types, ProcessInv, ResumableInv, SessionCanBeRecovered, SessionIsResumable, Steady
<1>. QED
  BY <1>1, Invariant, PTL

(* A session always knows which tasks in the tracker are its own; and the      *)
(* graceful shutdown of run.tsx leaves in progress only what the tracker did    *)
(* not set back, and keeps it among the active tasks if nothing was set back.   *)
THEOREM SetBack == Spec => []QuitSetsBack
<1>1. IInv => QuitSetsBack
  BY DEF IInv, ProcessInv, OwnInv, QuitSetsBack, OwnTasksAreActive, QuitLeavesOnlyFailedResets
<1>. QED
  BY <1>1, Invariant, PTL

(* A task in progress is in the session file or in a save on its way there: a   *)
(* recovery has what it must set back, whenever a process is killed.            *)
THEOREM Listed == Spec => []WorkInProgressIsListed
<1>1. IInv => WorkInProgressIsListed
  <2>. SUFFICES ASSUME IInv, NEW p \in Proc, NEW t \in Task, tracker[t] = p, KeepsFile(p),
                       Accountable(p), ~disturbed, ~(At(p, "activated") /\ engine[p].cur = t)
                PROVE  t \in file.active \/ \E i \in DOMAIN pending[p] : t \in pending[p][i].active
    BY DEF WorkInProgressIsListed
  <2>1. InSession(p) /\ pc[p] \in Saved /\ ~HasSetBack(p)
    BY DEF KeepsFile, InSession, Saved, Shutdown, Ending, HasSetBack
  <2>2. t \in mem[p].active
    BY <2>1, SessionFacts DEF OwnInv
  <2>3. CASE pending[p] = <<>>
    BY <2>1, <2>2, <2>3, SessionFacts DEF LastSaveInv, Steady
  <2>4. CASE pending[p] # <<>>
    <3>1. pending[p][Len(pending[p])].active = mem[p].active
      BY <2>1, <2>4, SessionFacts DEF LastSaveInv, Steady
    <3>2. Len(pending[p]) \in DOMAIN pending[p]
      BY <2>1, <2>4, SessionFacts
    <3>. QED
      BY <2>2, <3>1, <3>2
  <2>. QED
    BY <2>3, <2>4
<1>. QED
  BY <1>1, Invariant, PTL

-----------------------------------------------------------------------------
(* Only a reset reopens what was completed.                                 *)
LEMMA OnlyResetsReopen ==
    ASSUME IInv, NEW p \in Proc, NEW t \in Task,
           tracker[t] = "completed", tracker'[t] # "completed",
           \/ \E k \in Kinds : StartCommand(p, k)
           \/ CommandStep(p) \/ EngineStep(p) \/ SaveLands(p)
           \/ OnPaused(p) \/ OnResumed(p)
           \/ Quit(p) \/ ExecutionFails(p) \/ Crash(p)
    PROVE  RecoverTask(p, t) \/ ResetTask(p, t)
<1>1. ASSUME NEW u \in Task, RecoverTask(p, u) \/ ResetTask(p, u) PROVE u = t
  BY <1>1, Functions DEF RecoverTask, ResetTask
<1>2. ASSUME NEW u \in Task, SetInProgress(p, u) PROVE FALSE
  BY <1>2, Functions DEF SetInProgress, Unfinished
<1>3. CASE CompleteTask(p)
  BY <1>3, Functions DEF CompleteTask
<1>4. tracker' # tracker
  OBVIOUS
<1>5. CASE EngineStep(p)
  BY <1>2, <1>3, <1>4, <1>5 DEF EngineStep, OnTaskActivated, OnTaskCompleted,
     OnIterationCompleted, IterationWithoutCompletion, EngineStops
<1>6. ~(\E k \in Kinds : StartCommand(p, k)) /\ ~SaveLands(p) /\ ~OnPaused(p) /\ ~OnResumed(p)
        /\ ~Quit(p) /\ ~ExecutionFails(p) /\ ~Crash(p)
  BY <1>4 DEF StartCommand, SaveLands, OnPaused, OnResumed, Quit, ExecutionFails, Crash
<1>7. /\ ~LoadSession(p) /\ ~CheckSession(p) /\ ~DetectStale(p) /\ ~ProbeLock(p)
      /\ ~SaveRecovered(p) /\ ~PromptResumeOrNew(p) /\ ~DeleteOldSession(p)
      /\ ~AcquireLock(p) /\ ~SaveFirst(p)
  BY <1>4 DEF LoadSession, CheckSession, DetectStale, ProbeLock, SaveRecovered,
     PromptResumeOrNew, DeleteOldSession, AcquireLock, SaveFirst, Refuse, Proceed
<1>8. /\ ~ExecutionOver(p) /\ ~ResetDone(p) /\ ~SaveOnQuit(p) /\ ~ExitOnQuit(p)
      /\ ~HeadlessOver(p) /\ ~Drained(p) /\ ~FinalCheck(p) /\ ~SaveCompleted(p)
      /\ ~DeleteCompleted(p) /\ ~SaveEnd(p) /\ ~Release(p)
  BY <1>4 DEF ExecutionOver, ResetDone, SaveOnQuit, ExitOnQuit, HeadlessOver, Drained,
     FinalCheck, SaveCompleted, DeleteCompleted, SaveEnd, Release
<1>9. CASE CommandStep(p)
  BY <1>1, <1>7, <1>8, <1>9 DEF CommandStep
<1>. QED
  BY <1>5, <1>6, <1>9

(* A reset reopens no work whose completion the session could have known.    *)
LEMMA ResetIsSafe ==
    ASSUME IInv, NEW p \in Proc, NEW t \in Task, tracker[t] = "completed",
           RecoverTask(p, t) \/ ResetTask(p, t)
    PROVE  disturbed' \/ t \in exposed \/ (HeadlessShutdown(p) /\ t \in todo[p])
<1>. SUFFICES ASSUME ~disturbed', ~(HeadlessShutdown(p) /\ t \in todo[p])
              PROVE  t \in exposed
  OBVIOUS
<1>1. t \in todo[p] /\ Steady /\ ~OthersBusy(p)
  BY DEF RecoverTask, ResetTask, Steady
<1>2. CASE pc[p] = "reset"
  <2>1. pc[p] \in Setup
    BY <1>2 DEF Setup
  <2>2. t \in found[p].active /\ file = found[p]
    BY <1>1, <1>2, <2>1, SetupFacts DEF RecoveryInv, RecoverTask, ResetTask
  <2>. QED
    BY <1>1, <2>1, <2>2, FileIsRight DEF Steady
<1>3. CASE pc[p] = "resetActive"
  <2>1. InSession(p) /\ Busy(p)
    BY <1>3 DEF InSession, Busy, Shutdown
  <2>2. kind[p] = "run"
    BY <1>1, <1>3, <2>1, SessionFacts DEF CommandInv, HeadlessShutdown
  <2>3. t \in mem[p].active /\ engine[p].phase = "stopped"
    BY <1>1, <1>3, <2>1, <2>2, SessionFacts DEF OwnInv, HasSetBack, Accountable, EngineInv
  <2>. QED
    BY <1>1, <2>1, <2>3, SessionFacts DEF MemoryInv
<1>. QED
  BY <1>2, <1>3 DEF RecoverTask, ResetTask

(* Completed work is reopened, by the recovery of a stale session or by a    *)
(* shutdown, only where it was cut off before the file said so, or by a        *)
(* headless run that is told to quit while its engine goes on.               *)
THEOREM NothingRecordedIsRedone == Spec => OnlyUnrecordedWorkIsRedone
<1>. DEFINE Redone == \A t \in Task : tracker[t] = "completed" /\ tracker'[t] # "completed"
                        => \/ disturbed' \/ t \in exposed
                           \/ \E p \in Proc : HeadlessShutdown(p) /\ t \in todo[p]
<1>1. IInv /\ [Next]_vars => [Redone]_vars
  <2>. SUFFICES ASSUME IInv, Next, NEW t \in Task,
                       tracker[t] = "completed", tracker'[t] # "completed"
                PROVE  \/ disturbed' \/ t \in exposed
                       \/ \E p \in Proc : HeadlessShutdown(p) /\ t \in todo[p]
    OBVIOUS
  <2>1. PICK p \in Proc :
          \/ \E k \in Kinds : StartCommand(p, k)
          \/ CommandStep(p) \/ EngineStep(p) \/ SaveLands(p)
          \/ OnPaused(p) \/ OnResumed(p)
          \/ Quit(p) \/ ExecutionFails(p) \/ Crash(p)
    BY DEF Next
  <2>. QED
    BY <2>1, OnlyResetsReopen, ResetIsSafe
<1>. QED
  BY <1>1, Invariant, PTL DEF Spec, OnlyUnrecordedWorkIsRedone

=============================================================================
