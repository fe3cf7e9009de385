------------------------- MODULE JsonTracker_proofs -------------------------
(***************************************************************************)
(* What prd.json and the cache of its tracker keep, for any number of tasks, *)
(* updaters and readers.                                                     *)
(*                                                                         *)
(* That a completion stays in the file needs the lock (who is past the wait  *)
(* is the head of the queue), what the copy of the holder has to do with the *)
(* file at each of its awaits, and what the executor keeps during a merge.   *)
(***************************************************************************)
EXTENDS JsonTracker, TLAPS

(* Past the wait is the holder of the lock only. *)
LockInv ==
    /\ \A u \in Updater : pc[u] \notin {"idle", "waiting"} => HoldsWriteLock(u)
    /\ \A r \in Reader : pc[r] \in {"idle", "reading", "read"}

Changed(u) == pc[u] \in {"truncating", "writing", "written"}

(* What an updater has read or changed, and what for. *)
BufferInv ==
    /\ \A u \in Updater :
          /\ pc[u] # "idle" => op[u] \in Asked
          /\ Changed(u) => /\ buf[u] \in Content
                           /\ op[u].kind = "complete" => op[u].task \in buf[u]
    /\ \A c \in Updater \cup Reader : pc[c] = "read" => buf[c] # None

(* The copy of an updater and the file. *)
CopyInv(u) ==
    /\ pc[u] = "read" => buf[u] = file
    /\ Changed(u) => acked \subseteq buf[u]
    /\ pc[u] = "writing" => file = Torn
    /\ pc[u] = "written" => file = buf[u]

UpdateInv == disturbed \/ \A u \in Updater : CopyInv(u)

(* During a merge nobody updates, and what was acknowledged is in the content *)
(* that will be written back.                                                *)
MergeInv ==
    /\ saved = None <=> merge = "none"
    /\ disturbed \/ merge = "none" \/
         /\ ~Updating /\ saved \in Content /\ acked \subseteq saved
         /\ merge \in {"saved", "restored"} => file = saved
         /\ merge = "merged" => file # Torn
         /\ merge = "restoring" => file = Torn

IInv ==
    /\ FileKeepsCompletions /\ CompletionsAreSeen
    /\ LockInv /\ BufferInv /\ UpdateInv /\ MergeInv

-----------------------------------------------------------------------------
(* The queue, which has nobody twice.                                        *)
LEMMA AppendFresh ==
    ASSUME NEW s \in Seq(Updater), IsInjective(s), NEW e \in Updater,
           \A i \in DOMAIN s : s[i] # e
    PROVE  /\ Append(s, e) \in Seq(Updater) /\ IsInjective(Append(s, e))
           /\ \A x : (\E i \in DOMAIN Append(s, e) : Append(s, e)[i] = x)
                     <=> (x = e \/ \E i \in DOMAIN s : s[i] = x)
           /\ Append(s, e) # <<>> /\ (s # <<>> => Head(Append(s, e)) = Head(s))
<1>1. /\ Append(s, e) \in Seq(Updater) /\ Len(Append(s, e)) = Len(s) + 1
      /\ DOMAIN Append(s, e) = 1 .. Len(s) + 1 /\ DOMAIN s = 1 .. Len(s) /\ Len(s) \in Nat
      /\ \A i \in 1 .. Len(s) : Append(s, e)[i] = s[i]
      /\ Append(s, e)[Len(s) + 1] = e
  OBVIOUS
<1>2. IsInjective(Append(s, e))
  BY <1>1 DEF IsInjective
<1>3. ASSUME NEW x
      PROVE (\E i \in DOMAIN Append(s, e) : Append(s, e)[i] = x)
                     <=> (x = e \/ \E i \in DOMAIN s : s[i] = x)
  BY <1>1
<1>4. Append(s, e) # <<>> /\ (s # <<>> => Head(Append(s, e)) = Head(s))
  BY <1>1
<1>. QED
  BY <1>1, <1>2, <1>3, <1>4

(* The tail of a sequence without repetitions lacks its head only.           *)
LEMMA TailWithoutHead ==
    ASSUME NEW s \in Seq(Updater), IsInjective(s), s # <<>>
    PROVE  /\ Tail(s) \in Seq(Updater) /\ IsInjective(Tail(s))
           /\ \A x : (\E i \in DOMAIN Tail(s) : Tail(s)[i] = x)
                     <=> (x # Head(s) /\ \E i \in DOMAIN s : s[i] = x)
<1>1. /\ Tail(s) \in Seq(Updater) /\ Len(s) \in Nat \ {0} /\ DOMAIN s = 1 .. Len(s)
      /\ DOMAIN Tail(s) = 1 .. Len(s) - 1 /\ Head(s) = s[1]
      /\ \A i \in 1 .. Len(s) - 1 : Tail(s)[i] = s[i + 1]
  OBVIOUS
<1>2. IsInjective(Tail(s))
  <2>. SUFFICES ASSUME NEW i \in 1 .. Len(s) - 1, NEW j \in 1 .. Len(s) - 1,
                       Tail(s)[i] = Tail(s)[j]
                PROVE i = j
    BY <1>1 DEF IsInjective
  <2>1. s[i + 1] = s[j + 1]
    BY <1>1
  <2>2. i + 1 \in DOMAIN s /\ j + 1 \in DOMAIN s
    BY <1>1
  <2>3. i + 1 = j + 1
    BY <2>1, <2>2 DEF IsInjective
  <2>. QED
    BY <2>3
<1>3. ASSUME NEW x, NEW i \in DOMAIN Tail(s), Tail(s)[i] = x
      PROVE x # Head(s) /\ \E j \in DOMAIN s : s[j] = x
  <2>1. i + 1 \in DOMAIN s /\ s[i + 1] = x /\ i + 1 # 1
    BY <1>1, <1>3
  <2>2. 1 \in DOMAIN s
    BY <1>1
  <2>. QED
    BY <1>1, <2>1, <2>2 DEF IsInjective
<1>4. ASSUME NEW x, x # Head(s), NEW i \in DOMAIN s, s[i] = x
      PROVE \E j \in DOMAIN Tail(s) : Tail(s)[j] = x
  <2>1. i - 1 \in DOMAIN Tail(s) /\ Tail(s)[i - 1] = s[(i - 1) + 1] /\ (i - 1) + 1 = i
    BY <1>1, <1>4
  <2>. QED
    BY <1>4, <2>1
<1>. QED
  BY <1>1, <1>2, <1>3, <1>4

-----------------------------------------------------------------------------
(* An empty queue and an unread file.                                        *)
LEMMA InitInv == Init => IInv
<1>. SUFFICES ASSUME Init PROVE IInv
  OBVIOUS
<1>. USE TrackerAssumption DEF Init, NoOp
<1>1. TypeOK
  <2>1. <<>> \in Seq(Updater) /\ DOMAIN <<>> = {}
    OBVIOUS
  <2>2. IsInjective(<<>>) /\ \A u \in Updater : ~ \E i \in DOMAIN <<>> : <<>>[i] = u
    BY <2>1 DEF IsInjective
  <2>. QED
    BY <2>1, <2>2 DEF TypeOK, Content
<1>2. FileIsWhole /\ CompletionsAreKept /\ CompletionsAreSeen
  BY DEF FileIsWhole, CompletionsAreKept, CompletionsAreSeen
<1>3. LockInv /\ BufferInv /\ UpdateInv /\ MergeInv
  BY DEF LockInv, BufferInv, UpdateInv, CopyInv, MergeInv, Changed
<1>. QED
  BY <1>1, <1>2, <1>3 DEF IInv, FileKeepsCompletions

(* An updater past the wait is the only one, and unless a write failed or the *)
(* merge came in between there is no merge.                                  *)
LEMMA OneUpdates ==
    ASSUME IInv, NEW u \in Updater, pc[u] \notin {"idle", "waiting"}
    PROVE  /\ HoldsWriteLock(u)
           /\ \A v \in Updater : pc[v] \notin {"idle", "waiting"} => v = u
           /\ disturbed \/ merge = "none"
           /\ op[u] \in Asked /\ op[u].kind \in {"complete", "reopen"} /\ op[u].task \in Task
BY TrackerAssumption DEF IInv, LockInv, HoldsWriteLock, MergeInv, Updating, BufferInv

(* A call waits its turn. *)
LEMMA AskKeeps ==
    ASSUME IInv, NEW u \in Updater, NEW o \in Asked, Ask(u, o)
    PROVE  IInv'
<1>. USE TrackerAssumption DEF Ask, Goto, history
<1>1. /\ queue \in Seq(Updater) /\ IsInjective(queue) /\ pc[u] = "idle"
      /\ \A i \in DOMAIN queue : queue[i] # u
      /\ \A v \in Updater : pc[v] # "idle" <=> \E i \in DOMAIN queue : queue[i] = v
  BY DEF IInv, FileKeepsCompletions, TypeOK
<1>2. /\ \A c \in Updater \cup Reader : pc'[c] = IF c = u THEN "waiting" ELSE pc[c]
      /\ \A v \in Updater : op'[v] = IF v = u THEN o ELSE op[v]
  BY DEF IInv, FileKeepsCompletions, TypeOK
<1>3. TypeOK'
  <2>1. /\ queue' \in Seq(Updater) /\ IsInjective(queue')
        /\ \A v : (\E i \in DOMAIN queue' : queue'[i] = v)
                     <=> (v = u \/ \E i \in DOMAIN queue : queue[i] = v)
    BY <1>1, AppendFresh
  <2>2. \A v \in Updater : pc'[v] # "idle" <=> \E i \in DOMAIN queue' : queue'[i] = v
    <3>1. \A v \in Updater : pc'[v] # "idle" <=> v = u \/ pc[v] # "idle"
      BY <1>2
    <3>. QED
      BY <1>1, <2>1, <3>1
  <2>3. /\ op' \in [Updater -> Asked \cup {NoOp}]
        /\ pc' \in [Updater \cup Reader ->
                 {"idle", "waiting", "reading", "read", "truncating", "writing", "written"}]
    BY DEF IInv, FileKeepsCompletions, TypeOK
  <2>. QED
    BY <2>1, <2>2, <2>3 DEF IInv, FileKeepsCompletions, TypeOK
<1>4. LockInv'
  BY <1>1, <1>2, AppendFresh DEF IInv, LockInv, HoldsWriteLock
<1>5. BufferInv' /\ UpdateInv'
  BY <1>2 DEF IInv, BufferInv, UpdateInv, CopyInv, Changed
<1>6. MergeInv'
  BY <1>2 DEF IInv, MergeInv, Updating
<1>7. FileIsWhole' /\ CompletionsAreKept' /\ CompletionsAreSeen'
  BY <1>1, <1>2 DEF IInv, FileKeepsCompletions, FileIsWhole, CompletionsAreKept, CompletionsAreSeen
<1>. QED
  BY <1>3, <1>4, <1>5, <1>6, <1>7 DEF IInv, FileKeepsCompletions

(* Who holds the lock goes to its next await; what changes besides pc is up   *)
(* to the step.                                                              *)
LEMMA MoveKeeps ==
    ASSUME IInv, NEW c \in Updater \cup Reader, NEW label, Goto(c, label),
           c \in Reader => label \in {"idle", "reading", "read"},
           c \in Updater =>
             /\ label \in {"reading", "read", "truncating", "writing", "written"}
             /\ HoldsWriteLock(c) /\ pc[c] # "idle",
           UNCHANGED <<queue, op>>
    PROVE  /\ pc' \in [Updater \cup Reader ->
                 {"idle", "waiting", "reading", "read", "truncating", "writing", "written"}]
           /\ \A d \in Updater \cup Reader : pc'[d] = IF d = c THEN label ELSE pc[d]
           /\ queue' \in Seq(Updater) /\ IsInjective(queue')
           /\ op' \in [Updater -> Asked \cup {NoOp}]
           /\ \A u \in Updater : pc'[u] # "idle" <=> \E i \in DOMAIN queue' : queue'[i] = u
           /\ LockInv'
           /\ c \in Reader => (Updating' <=> Updating)
<1>. USE TrackerAssumption DEF Goto
<1>1. /\ pc' \in [Updater \cup Reader ->
                 {"idle", "waiting", "reading", "read", "truncating", "writing", "written"}]
      /\ \A d \in Updater \cup Reader : pc'[d] = IF d = c THEN label ELSE pc[d]
      /\ \A d \in Updater \cup Reader : pc[d] \in
                 {"idle", "waiting", "reading", "read", "truncating", "writing", "written"}
  BY DEF IInv, FileKeepsCompletions, TypeOK
<1>2. /\ queue' \in Seq(Updater) /\ IsInjective(queue')
      /\ op' \in [Updater -> Asked \cup {NoOp}]
      /\ \A u \in Updater : pc'[u] # "idle" <=> \E i \in DOMAIN queue' : queue'[i] = u
  BY <1>1 DEF IInv, FileKeepsCompletions, TypeOK
<1>3. LockInv'
  BY <1>1 DEF IInv, LockInv, HoldsWriteLock
<1>4. c \in Reader => (Updating' <=> Updating)
  BY <1>1 DEF Updating
<1>. QED
  BY <1>1, <1>2, <1>3, <1>4

(* The cache is dropped before the file is read.                             *)
LEMMA InvalidateKeeps ==
    ASSUME IInv, NEW u \in Updater, Invalidate(u)
    PROVE  IInv'
<1>. USE TrackerAssumption DEF Invalidate, DisturbedIf
<1>1. /\ \A d \in Updater \cup Reader : pc'[d] = IF d = u THEN "reading" ELSE pc[d]
      /\ LockInv'
  BY MoveKeeps
<1>2. TypeOK'
  BY MoveKeeps DEF IInv, FileKeepsCompletions, TypeOK
<1>3. BufferInv' /\ UpdateInv'
  BY <1>1 DEF IInv, BufferInv, UpdateInv, CopyInv, Changed
<1>4. MergeInv'
  BY <1>1 DEF IInv, MergeInv, Updating
<1>5. FileIsWhole' /\ CompletionsAreKept' /\ CompletionsAreSeen'
  BY <1>1 DEF IInv, FileKeepsCompletions, FileIsWhole, CompletionsAreKept, CompletionsAreSeen
<1>. QED
  BY <1>1, <1>2, <1>3, <1>4, <1>5 DEF IInv, FileKeepsCompletions

(* Of an updater or a reader. *)
LEMMA ReadFileKeeps ==
    ASSUME IInv, NEW c \in Updater \cup Reader, ReadFile(c)
    PROVE  IInv'
<1>. USE TrackerAssumption DEF ReadFile, history
<1>0. c \in Updater => HoldsWriteLock(c)
  BY OneUpdates
<1>1. /\ \A d \in Updater \cup Reader : pc'[d] = IF d = c THEN "read" ELSE pc[d]
      /\ LockInv' /\ (c \in Reader => (Updating' <=> Updating))
  BY <1>0, MoveKeeps
<1>2. /\ \A d \in Updater \cup Reader : buf'[d] = IF d = c THEN file ELSE buf[d]
      /\ file # None
  BY DEF IInv, FileKeepsCompletions, TypeOK, Content
<1>3. TypeOK'
  <2>1. buf' \in [Updater \cup Reader -> {Torn, None} \cup Content]
    BY DEF IInv, FileKeepsCompletions, TypeOK
  <2>. QED
    BY <1>0, <2>1, MoveKeeps DEF IInv, FileKeepsCompletions, TypeOK
<1>4. BufferInv' /\ UpdateInv'
  BY <1>1, <1>2 DEF IInv, BufferInv, UpdateInv, CopyInv, Changed
<1>5. MergeInv'
  BY <1>1 DEF IInv, MergeInv, Updating
<1>6. FileIsWhole' /\ CompletionsAreKept' /\ CompletionsAreSeen'
  BY <1>1 DEF IInv, FileKeepsCompletions, FileIsWhole, CompletionsAreKept, CompletionsAreSeen
<1>. QED
  BY <1>1, <1>3, <1>4, <1>5, <1>6 DEF IInv, FileKeepsCompletions

(* The story is changed in the copy that was read.                           *)
LEMMA ChangeStoryKeeps ==
    ASSUME IInv, NEW u \in Updater, ChangeStory(u)
    PROVE  IInv'
<1>. DEFINE content == Updated(buf[u], op[u])
<1>. USE TrackerAssumption
<1>1. /\ pc[u] = "read" /\ HoldsWriteLock(u) /\ (disturbed \/ merge = "none")
      /\ op[u] \in Asked /\ op[u].kind \in {"complete", "reopen"} /\ op[u].task \in Task
      /\ \A v \in Updater : pc[v] \notin {"idle", "waiting"} => v = u
  BY OneUpdates DEF ChangeStory
<1>2. /\ buf[u] \in Content
      /\ acked' = (IF op[u].kind = "reopen" THEN acked \ {op[u].task} ELSE acked)
      /\ prdCache' = [passes |-> content, sound |-> Sound(buf[u])]
      /\ buf' = [buf EXCEPT ![u] = content]
      /\ UNCHANGED <<file, queue, op, merge, saved, disturbed>>
  BY <1>1 DEF ChangeStory, IInv, FileKeepsCompletions, TypeOK, BufferInv
<1>3. content \in Content /\ (op[u].kind = "complete" => op[u].task \in content)
  BY <1>1, <1>2 DEF Updated, Content
<1>4. disturbed \/ (buf[u] = file /\ acked \subseteq buf[u] /\ acked' \subseteq content)
  BY <1>1, <1>2 DEF IInv, UpdateInv, CopyInv, FileKeepsCompletions, CompletionsAreKept,
     Updated, Content
<1>5. /\ \A d \in Updater \cup Reader : pc'[d] = IF d = u THEN "truncating" ELSE pc[d]
      /\ LockInv'
  BY <1>1, <1>2, MoveKeeps DEF ChangeStory
<1>. HIDE DEF content
<1>6. /\ \A d \in Updater \cup Reader : buf'[d] = IF d = u THEN content ELSE buf[d]
      /\ buf' \in [Updater \cup Reader -> {Torn, None} \cup Content]
  BY <1>2, <1>3 DEF IInv, FileKeepsCompletions, TypeOK
<1>7. TypeOK'
  <2>1. prdCache' \in Cached
    BY <1>2, <1>3 DEF Cached, Sound
  <2>2. acked' \subseteq Task
    BY <1>2 DEF IInv, FileKeepsCompletions, TypeOK
  <2>3. Goto(u, "truncating")
    BY DEF ChangeStory
  <2>. QED
    BY <1>1, <1>2, <1>6, <2>1, <2>2, <2>3, MoveKeeps DEF IInv, FileKeepsCompletions, TypeOK
<1>8. BufferInv'
  <2>1. ASSUME NEW v \in Updater
        PROVE  /\ pc'[v] # "idle" => op'[v] \in Asked
               /\ Changed(v)' => /\ buf'[v] \in Content
                                 /\ op'[v].kind = "complete" => op'[v].task \in buf'[v]
    <3>1. CASE v = u
      BY <1>1, <1>2, <1>3, <1>5, <1>6, <3>1
    <3>2. CASE v # u
      BY <1>2, <1>5, <1>6, <3>2 DEF IInv, BufferInv, Changed
    <3>. QED
      BY <3>1, <3>2
  <2>2. \A d \in Updater \cup Reader : pc'[d] = "read" => buf'[d] # None
    BY <1>5, <1>6 DEF IInv, BufferInv
  <2>. QED
    BY <2>1, <2>2 DEF BufferInv
<1>9. UpdateInv'
  BY <1>1, <1>2, <1>4, <1>5, <1>6 DEF IInv, UpdateInv, CopyInv, Changed
<1>10. MergeInv'
  BY <1>1, <1>2 DEF IInv, MergeInv
<1>11. FileIsWhole' /\ CompletionsAreKept'
  BY <1>1, <1>2, <1>5 DEF IInv, FileKeepsCompletions, FileIsWhole, CompletionsAreKept
<1>12. CompletionsAreSeen'
  BY <1>2, <1>4 DEF CompletionsAreSeen
<1>. QED
  BY <1>5, <1>7, <1>8, <1>9, <1>10, <1>11, <1>12 DEF IInv, FileKeepsCompletions

(* The file is emptied, as writeFile does first.                             *)
LEMMA TruncateKeeps ==
    ASSUME IInv, NEW u \in Updater, Truncate(u)
    PROVE  IInv'
<1>. USE TrackerAssumption DEF Truncate, history
<1>1. /\ HoldsWriteLock(u) /\ (disturbed \/ merge = "none")
      /\ \A v \in Updater : pc[v] \notin {"idle", "waiting"} => v = u
  BY OneUpdates
<1>2. /\ \A d \in Updater \cup Reader : pc'[d] = IF d = u THEN "writing" ELSE pc[d]
      /\ LockInv'
  BY <1>1, MoveKeeps
<1>3. TypeOK'
  BY <1>1, MoveKeeps DEF IInv, FileKeepsCompletions, TypeOK
<1>4. BufferInv' /\ UpdateInv'
  BY <1>1, <1>2 DEF IInv, BufferInv, UpdateInv, CopyInv, Changed
<1>5. MergeInv'
  BY <1>1 DEF IInv, MergeInv
<1>6. FileIsWhole' /\ CompletionsAreKept' /\ CompletionsAreSeen'
  BY <1>2 DEF IInv, FileKeepsCompletions, FileIsWhole, CompletionsAreKept, CompletionsAreSeen
<1>. QED
  BY <1>2, <1>3, <1>4, <1>5, <1>6 DEF IInv, FileKeepsCompletions

(* The file gets the whole of the changed copy.                              *)
LEMMA WriteFileKeeps ==
    ASSUME IInv, NEW u \in Updater, WriteFile(u)
    PROVE  IInv'
<1>. USE TrackerAssumption DEF WriteFile, history
<1>1. /\ HoldsWriteLock(u) /\ (disturbed \/ merge = "none")
      /\ \A v \in Updater : pc[v] \notin {"idle", "waiting"} => v = u
  BY OneUpdates
<1>2. /\ \A d \in Updater \cup Reader : pc'[d] = IF d = u THEN "written" ELSE pc[d]
      /\ LockInv'
  BY <1>1, MoveKeeps
<1>3. buf[u] \in Content /\ (disturbed \/ (file = Torn /\ acked \subseteq buf[u]))
  BY DEF IInv, BufferInv, UpdateInv, CopyInv, Changed
<1>4. file' \in {Torn} \cup Content /\ (disturbed \/ file' = buf[u])
  BY <1>3 DEF Written
<1>5. TypeOK'
  BY <1>1, <1>4, MoveKeeps DEF IInv, FileKeepsCompletions, TypeOK
<1>6. BufferInv' /\ UpdateInv'
  BY <1>1, <1>2, <1>4 DEF IInv, BufferInv, UpdateInv, CopyInv, Changed
<1>7. MergeInv'
  BY <1>1 DEF IInv, MergeInv
<1>8. FileIsWhole' /\ CompletionsAreKept' /\ CompletionsAreSeen'
  BY <1>3, <1>4 DEF IInv, FileKeepsCompletions, FileIsWhole, CompletionsAreKept,
                    CompletionsAreSeen, Content
<1>. QED
  BY <1>2, <1>5, <1>6, <1>7, <1>8 DEF IInv, FileKeepsCompletions

(* The lock is passed on: nobody is past the wait any more. *)
LEMMA LeaveKeeps ==
    ASSUME IInv, NEW u \in Updater, pc[u] \notin {"idle", "waiting"}, Leave(u)
    PROVE  /\ queue' \in Seq(Updater) /\ IsInjective(queue')
           /\ op' \in [Updater -> Asked \cup {NoOp}]
           /\ pc' \in [Updater \cup Reader ->
                 {"idle", "waiting", "reading", "read", "truncating", "writing", "written"}]
           /\ buf' \in [Updater \cup Reader -> {Torn, None} \cup Content]
           /\ \A v \in Updater : pc'[v] # "idle" <=> \E i \in DOMAIN queue' : queue'[i] = v
           /\ \A c \in Updater \cup Reader : pc'[c] = IF c = u THEN "idle" ELSE pc[c]
           /\ \A v \in Updater : pc'[v] \in {"idle", "waiting"}
           /\ LockInv' /\ BufferInv' /\ UpdateInv'
<1>. USE TrackerAssumption DEF Leave, Goto
<1>1. /\ queue \in Seq(Updater) /\ IsInjective(queue) /\ queue # <<>> /\ Head(queue) = u
      /\ \A v \in Updater : pc[v] \notin {"idle", "waiting"} => v = u
      /\ \A v \in Updater : pc[v] # "idle" <=> \E i \in DOMAIN queue : queue[i] = v
  BY OneUpdates DEF HoldsWriteLock, IInv, FileKeepsCompletions, TypeOK
<1>2. /\ pc' \in [Updater \cup Reader ->
                 {"idle", "waiting", "reading", "read", "truncating", "writing", "written"}]
      /\ buf' \in [Updater \cup Reader -> {Torn, None} \cup Content]
      /\ op' \in [Updater -> Asked \cup {NoOp}]
      /\ \A c \in Updater \cup Reader : /\ pc'[c] = IF c = u THEN "idle" ELSE pc[c]
                                        /\ buf'[c] = IF c = u THEN None ELSE buf[c]
      /\ \A v \in Updater : op'[v] = IF v = u THEN NoOp ELSE op[v]
  BY DEF IInv, FileKeepsCompletions, TypeOK
<1>3. /\ queue' \in Seq(Updater) /\ IsInjective(queue')
      /\ \A v \in Updater : pc'[v] # "idle" <=> \E i \in DOMAIN queue' : queue'[i] = v
  <2>1. queue' = Tail(queue)
    OBVIOUS
  <2>2. /\ Tail(queue) \in Seq(Updater) /\ IsInjective(Tail(queue))
        /\ \A v : (\E i \in DOMAIN Tail(queue) : Tail(queue)[i] = v)
                  <=> (v # Head(queue) /\ \E i \in DOMAIN queue : queue[i] = v)
    BY <1>1, TailWithoutHead, Zenon
  <2>3. \A v \in Updater :
          (\E i \in DOMAIN queue' : queue'[i] = v) <=> (v # u /\ pc[v] # "idle")
    BY <1>1, <2>1, <2>2, Zenon
  <2>. QED
    BY <1>1, <1>2, <2>1, <2>2, <2>3
<1>4. \A v \in Updater : pc'[v] \in {"idle", "waiting"}
  BY <1>1, <1>2
<1>5. LockInv'
  BY <1>2, <1>4 DEF IInv, LockInv
<1>6. BufferInv'
  BY <1>2, <1>4 DEF IInv, BufferInv, Changed
<1>7. UpdateInv'
  BY <1>4 DEF UpdateInv, CopyInv, Changed
<1>. QED
  BY <1>2, <1>3, <1>4, <1>5, <1>6, <1>7

(* The cache takes the copy written, and the next update its turn.           *)
LEMMA SucceedKeeps ==
    ASSUME IInv, NEW u \in Updater, Succeed(u)
    PROVE  IInv'
<1>. USE TrackerAssumption
<1>1. /\ pc[u] = "written" /\ Leave(u) /\ UNCHANGED <<file, merge, saved, disturbed>>
      /\ prdCache' = [passes |-> buf[u], sound |-> Sound(buf[u])]
      /\ acked' = IF ~disturbed /\ op[u].kind = "complete" THEN acked \cup {op[u].task} ELSE acked
  BY DEF Succeed, CacheWritten
<1>2. disturbed \/ merge = "none"
  BY <1>1, OneUpdates
<1>3. /\ op[u].task \in Task
      /\ buf[u] \in Content /\ (op[u].kind = "complete" => op[u].task \in buf[u])
  BY <1>1, OneUpdates DEF IInv, BufferInv, Changed
<1>4. disturbed \/ (file = buf[u] /\ acked \subseteq buf[u])
  BY <1>1 DEF IInv, UpdateInv, CopyInv, Changed
<1>5. disturbed \/ acked' \subseteq buf[u]
  BY <1>1, <1>3, <1>4
<1>6. TypeOK'
  <2>1. prdCache' \in Cached
    BY <1>1, <1>3 DEF Cached, Sound
  <2>2. acked' \subseteq Task
    BY <1>1, <1>3 DEF IInv, FileKeepsCompletions, TypeOK
  <2>. QED
    BY <1>1, <2>1, <2>2, LeaveKeeps DEF IInv, FileKeepsCompletions, TypeOK
<1>7. LockInv' /\ BufferInv' /\ UpdateInv'
  BY <1>1, LeaveKeeps
<1>8. MergeInv'
  BY <1>1, <1>2 DEF IInv, MergeInv
<1>9. FileIsWhole' /\ CompletionsAreKept' /\ CompletionsAreSeen'
  BY <1>1, <1>3, <1>4, <1>5 DEF FileIsWhole, CompletionsAreKept, CompletionsAreSeen, Content
<1>. QED
  BY <1>6, <1>7, <1>8, <1>9 DEF IInv, FileKeepsCompletions

(* A read or a write that fails leaves cache and lock to the next.           *)
LEMMA FailKeeps ==
    ASSUME IInv, NEW u \in Updater, FailToRead(u) \/ FailToWrite(u)
    PROVE  IInv'
<1>. USE TrackerAssumption DEF LeaveFailing, history, DisturbedIf
<1>1. pc[u] \notin {"idle", "waiting"} /\ Leave(u) /\ UNCHANGED <<file, prdCache, merge, saved>>
  BY DEF FailToRead, FailToWrite
<1>2. /\ disturbed' \in BOOLEAN /\ acked' \in {acked, {}} /\ (disturbed => disturbed')
      /\ disturbed' \/ pc[u] = "read"
  BY DEF FailToRead, FailToWrite, IInv, FileKeepsCompletions, TypeOK
<1>3. disturbed \/ merge = "none"
  BY <1>1, OneUpdates
<1>4. TypeOK'
  BY <1>1, <1>2, LeaveKeeps DEF IInv, FileKeepsCompletions, TypeOK
<1>5. /\ LockInv' /\ BufferInv' /\ UpdateInv'
      /\ \A v \in Updater : pc[v] = "writing" => v = u
  BY <1>1, LeaveKeeps, OneUpdates
<1>6. MergeInv'
  BY <1>1, <1>2, <1>3 DEF IInv, MergeInv
<1>7. FileIsWhole'
  BY <1>1, <1>2, <1>5 DEF IInv, FileKeepsCompletions, FileIsWhole
<1>8. CompletionsAreKept' /\ CompletionsAreSeen'
  BY <1>1, <1>2 DEF IInv, FileKeepsCompletions, CompletionsAreKept, CompletionsAreSeen
<1>. QED
  BY <1>4, <1>5, <1>6, <1>7, <1>8 DEF IInv, FileKeepsCompletions

(* A reader changes nothing but the cache.                                   *)
LEMMA ReaderKeeps ==
    ASSUME IInv, NEW r \in Reader, GetTasks(r) \/ TasksRead(r)
    PROVE  IInv'
<1>. USE TrackerAssumption DEF history
<1>1. /\ UNCHANGED <<file, queue, op, merge, saved, acked, disturbed>>
      /\ \E label \in {"idle", "reading"} : Goto(r, label)
      /\ \/ UNCHANGED prdCache
         \/ /\ buf[r] # Torn /\ buf[r] # None
            /\ prdCache' = [passes |-> buf[r], sound |-> Sound(buf[r])]
      /\ buf' \in {buf, [buf EXCEPT ![r] = None]}
  BY DEF GetTasks, TasksRead, IInv, BufferInv
<1>2. PICK label \in {"idle", "reading"} : Goto(r, label)
  BY <1>1
<1>3. /\ \A c \in Updater \cup Reader : pc'[c] = IF c = r THEN label ELSE pc[c]
      /\ LockInv' /\ (Updating' <=> Updating)
  BY <1>1, <1>2, MoveKeeps
<1>4. /\ \A u \in Updater : buf'[u] = buf[u] /\ pc'[u] = pc[u] /\ op'[u] = op[u]
      /\ \A c \in Updater \cup Reader : c # r => buf'[c] = buf[c]
  BY <1>1, <1>3 DEF IInv, FileKeepsCompletions, TypeOK
<1>5. TypeOK'
  <2>1. buf' \in [Updater \cup Reader -> {Torn, None} \cup Content]
    BY <1>1 DEF IInv, FileKeepsCompletions, TypeOK
  <2>2. prdCache' \in {None} \cup Cached
    <3>1. buf[r] \in {Torn, None} \cup Content
      BY DEF IInv, FileKeepsCompletions, TypeOK
    <3>2. prdCache \in {None} \cup Cached
      BY DEF IInv, FileKeepsCompletions, TypeOK
    <3>3. Sound(buf[r]) \in BOOLEAN
      BY DEF Sound
    <3>4. buf[r] \in Content => [passes |-> buf[r], sound |-> Sound(buf[r])] \in Cached
      BY <3>3 DEF Cached
    <3>. QED
      BY <1>1, <3>1, <3>2, <3>4
  <2>. QED
    BY <1>1, <1>2, <2>1, <2>2, MoveKeeps DEF IInv, FileKeepsCompletions, TypeOK
<1>6. BufferInv'
  BY <1>3, <1>4 DEF IInv, BufferInv, Changed
<1>7. UpdateInv'
  BY <1>1, <1>4 DEF IInv, UpdateInv, CopyInv, Changed
<1>8. MergeInv'
  BY <1>1, <1>3 DEF IInv, MergeInv
<1>9. FileIsWhole' /\ CompletionsAreKept'
  BY <1>1, <1>4 DEF IInv, FileKeepsCompletions, FileIsWhole, CompletionsAreKept
<1>10. CompletionsAreSeen'
  <2>1. CASE UNCHANGED prdCache
    BY <1>1, <2>1 DEF IInv, CompletionsAreSeen
  <2>2. CASE buf[r] # Torn /\ prdCache' = [passes |-> buf[r], sound |-> Sound(buf[r])]
    <3>1. prdCache'.passes = buf[r] /\ prdCache'.sound = Sound(buf[r])
      BY <2>2
    <3>2. Sound(buf[r]) => acked \subseteq buf[r]
      BY <2>2 DEF IInv, FileKeepsCompletions, CompletionsAreKept, Sound
    <3>. QED
      BY <1>1, <3>1, <3>2 DEF CompletionsAreSeen
  <2>. QED
    BY <1>1, <2>1, <2>2
<1>. QED
  BY <1>3, <1>5, <1>6, <1>7, <1>8, <1>9, <1>10 DEF IInv, FileKeepsCompletions

-----------------------------------------------------------------------------
(* A step of a merge leaves the updaters where they are.                     *)
LEMMA MergeKeeps ==
    ASSUME IInv,
           \/ SaveTrackerState \/ MergeStep \/ RestoreFails \/ CacheExpires
           \/ \E content \in Content : GitMerges(content)
    PROVE  IInv'
<1>. USE TrackerAssumption DEF MergeUnchanged, history
<1>1. UNCHANGED <<queue, op, pc, buf>>
  BY DEF SaveTrackerState, MergeStep, RestoreBegins, RestoreTrackerState, ClearCache,
         RestoreFails, CacheExpires, GitMerges
<1>2. LockInv' /\ BufferInv' /\ (Updating' <=> Updating)
  BY <1>1 DEF IInv, LockInv, HoldsWriteLock, BufferInv, Changed, Updating
<1>3. ASSUME disturbed' \/ (UNCHANGED <<file, acked, disturbed>>) \/ (~Updating)
      PROVE  UpdateInv'
  BY <1>1, <1>3 DEF IInv, UpdateInv, CopyInv, Changed, Updating
<1>4. CASE SaveTrackerState
  <2>. USE <1>4 DEF SaveTrackerState, DisturbedIf
  <2>1. TypeOK' /\ UpdateInv'
    BY <1>1, <1>3 DEF IInv, FileKeepsCompletions, TypeOK
  <2>2. disturbed' \/ (~Updating /\ file \in Content /\ acked \subseteq file)
    BY DEF IInv, FileKeepsCompletions, TypeOK, FileIsWhole, CompletionsAreKept, Updating
  <2>3. MergeInv'
    BY <1>2, <2>2 DEF IInv, FileKeepsCompletions, TypeOK, MergeInv, Content
  <2>4. FileIsWhole' /\ CompletionsAreKept' /\ CompletionsAreSeen'
    BY <2>2 DEF IInv, FileKeepsCompletions, FileIsWhole, CompletionsAreKept, CompletionsAreSeen,
                Content
  <2>. QED
    BY <1>2, <2>1, <2>3, <2>4 DEF IInv, FileKeepsCompletions
<1>5. ASSUME NEW content \in Content, GitMerges(content) PROVE IInv'
  <2>. USE <1>5 DEF GitMerges
  <2>1. disturbed \/ ~Updating
    BY DEF IInv, MergeInv
  <2>2. TypeOK' /\ UpdateInv'
    BY <1>1, <1>3, <2>1 DEF IInv, FileKeepsCompletions, TypeOK
  <2>3. MergeInv' /\ FileIsWhole' /\ CompletionsAreKept' /\ CompletionsAreSeen'
    BY <1>2 DEF IInv, FileKeepsCompletions, FileIsWhole, CompletionsAreKept, CompletionsAreSeen,
                MergeInv, Content
  <2>. QED
    BY <1>2, <2>2, <2>3 DEF IInv, FileKeepsCompletions
<1>6. CASE RestoreBegins
  <2>. USE <1>6 DEF RestoreBegins
  <2>1. disturbed \/ ~Updating
    BY DEF IInv, MergeInv
  <2>2. TypeOK' /\ UpdateInv'
    BY <1>1, <1>3, <2>1 DEF IInv, FileKeepsCompletions, TypeOK
  <2>3. MergeInv' /\ FileIsWhole' /\ CompletionsAreKept' /\ CompletionsAreSeen'
    BY <1>2 DEF IInv, FileKeepsCompletions, FileIsWhole, CompletionsAreKept, CompletionsAreSeen,
                MergeInv
  <2>. QED
    BY <1>2, <2>2, <2>3 DEF IInv, FileKeepsCompletions
<1>7. CASE RestoreTrackerState
  <2>. USE <1>7 DEF RestoreTrackerState, Restored, Written
  <2>1. disturbed \/ (~Updating /\ saved \in Content /\ file = Torn /\ file' = saved)
    BY DEF IInv, MergeInv, FileKeepsCompletions, FileIsWhole
  <2>2. saved # None
    BY DEF IInv, MergeInv
  <2>3. TypeOK' /\ UpdateInv'
    BY <1>1, <1>3, <2>1, <2>2 DEF IInv, FileKeepsCompletions, TypeOK
  <2>4. MergeInv' /\ FileIsWhole' /\ CompletionsAreKept' /\ CompletionsAreSeen'
    BY <1>2, <2>1 DEF IInv, FileKeepsCompletions, FileIsWhole, CompletionsAreKept,
                CompletionsAreSeen, MergeInv, Content
  <2>. QED
    BY <1>2, <2>3, <2>4 DEF IInv, FileKeepsCompletions
<1>8. CASE RestoreFails
  <2>. USE <1>8 DEF RestoreFails, DisturbedIf
  <2>1. TypeOK' /\ UpdateInv'
    BY <1>1, <1>3 DEF IInv, FileKeepsCompletions, TypeOK
  <2>2. MergeInv' /\ FileIsWhole' /\ CompletionsAreKept' /\ CompletionsAreSeen'
    BY DEF FileIsWhole, CompletionsAreKept, CompletionsAreSeen, MergeInv
  <2>. QED
    BY <1>2, <2>1, <2>2 DEF IInv, FileKeepsCompletions
<1>9. CASE ClearCache
  <2>. USE <1>9 DEF ClearCache
  <2>1. TypeOK' /\ UpdateInv'
    BY <1>1, <1>3 DEF IInv, FileKeepsCompletions, TypeOK
  <2>2. MergeInv' /\ FileIsWhole' /\ CompletionsAreKept' /\ CompletionsAreSeen'
    BY DEF IInv, FileKeepsCompletions, FileIsWhole, CompletionsAreKept, CompletionsAreSeen,
           MergeInv, Content
  <2>. QED
    BY <1>2, <2>1, <2>2 DEF IInv, FileKeepsCompletions
<1>10. CASE CacheExpires
  <2>. USE <1>10 DEF CacheExpires
  <2>1. TypeOK' /\ UpdateInv'
    BY <1>1, <1>3 DEF IInv, FileKeepsCompletions, TypeOK
  <2>2. MergeInv' /\ FileIsWhole' /\ CompletionsAreKept' /\ CompletionsAreSeen'
    BY <1>1, <1>2 DEF IInv, FileKeepsCompletions, FileIsWhole, CompletionsAreKept,
                CompletionsAreSeen, MergeInv
  <2>. QED
    BY <1>2, <2>1, <2>2 DEF IInv, FileKeepsCompletions
<1>. QED
  BY <1>4, <1>5, <1>6, <1>7, <1>8, <1>9, <1>10 DEF MergeStep

-----------------------------------------------------------------------------
(* Every step keeps the invariant.                                           *)
LEMMA StepInv == IInv /\ [Next]_vars => IInv'
<1>. SUFFICES ASSUME IInv, [Next]_vars PROVE IInv'
  OBVIOUS
<1>1. ASSUME NEW u \in Updater, UpdaterStep(u) \/ FailToWrite(u) PROVE IInv'
  BY <1>1, InvalidateKeeps, ReadFileKeeps, ChangeStoryKeeps, TruncateKeeps, WriteFileKeeps,
     SucceedKeeps, FailKeeps DEF UpdaterStep
<1>2. ASSUME NEW u \in Updater, NEW o \in Asked, Ask(u, o) PROVE IInv'
  BY <1>2, AskKeeps
<1>3. ASSUME NEW r \in Reader, GetTasks(r) \/ ReaderStep(r) PROVE IInv'
  BY <1>3, ReadFileKeeps, ReaderKeeps DEF ReaderStep
<1>4. CASE UNCHANGED vars
  <2>. USE <1>4 DEF vars
  <2>1. FileKeepsCompletions' /\ CompletionsAreSeen'
    BY DEF IInv, FileKeepsCompletions, TypeOK, FileIsWhole, CompletionsAreKept, CompletionsAreSeen
  <2>2. LockInv' /\ BufferInv' /\ UpdateInv' /\ MergeInv'
    BY DEF IInv, LockInv, HoldsWriteLock, BufferInv, Changed, UpdateInv, CopyInv, MergeInv, Updating
  <2>. QED
    BY <2>1, <2>2 DEF IInv
<1>. QED
  BY <1>1, <1>2, <1>3, <1>4, MergeKeeps DEF Next

(* The invariant the theorems below rest on. *)
THEOREM Invariant == Spec => []IInv
  BY InitInv, StepInv, PTL DEF Spec

(* A completion that was answered with success is in prd.json, which is whole *)
(* whenever nobody writes it; save for failed writes and updates beside a     *)
(* merge.                                                                    *)
THEOREM CompletionsStayInFile == Spec => []FileKeepsCompletions
<1>1. IInv => FileKeepsCompletions
  BY DEF IInv
<1>. QED
  BY <1>1, Invariant, PTL

(* ... and whoever asks the tracker sees it, unless the cache was filled from *)
(* a read that something overtook.                                           *)
THEOREM CompletionsStayInCache == Spec => []CompletionsAreSeen
<1>1. IInv => CompletionsAreSeen
  BY DEF IInv
<1>. QED
  BY <1>1, Invariant, PTL
=============================================================================
