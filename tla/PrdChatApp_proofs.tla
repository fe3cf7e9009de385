-------------------------- MODULE PrdChatApp_proofs --------------------------
(***************************************************************************)
(* What the executions of an agent and the conversations over them guarantee *)
(* for any engines that share the plugin.                                    *)
(*                                                                         *)
(* The inductive invariant follows an execution through its stages, ties a    *)
(* conversation to its execution, and says of the screen, as long as no       *)
(* message was sent under a dialog, that at most one conversation is busy    *)
(* and which flags belong to what it is busy with.                           *)
(***************************************************************************)
EXTENDS PrdChatApp, TLAPS

(* An interruption that came before the process was there has been passed on, *)
(* and whoever sent SIGTERM is known.                                        *)
Signalled(x) ==
    /\ x.pendingInterrupt => x.interrupted
    /\ x.term => x.interrupted \/ x.timer = "fired"
    /\ x.kill => x.term
    /\ x.timer # "off" => x.timed

ExecutionInv(x) ==
    /\ x.stage = "none" => x = NotExecuted
    /\ x.stage \in {"none", "starting"} => ~x.interrupted /\ ~x.term /\ ~x.kill
    /\ Tracked(x) => Signalled(x)
    /\ x.stage = "exited" /\ x.cause = "signal" => x.term \/ x.foreign
    /\ x.stage # "ended" => x.status = "none"
    /\ x.stage = "ended" =>
         /\ x.pendingInterrupt \/ x.interrupted => x.status \in {"interrupted", "failed"}
         /\ x.status = "timeout" =>
              (x.timer = "fired" \/ x.foreign) /\ ~x.interrupted /\ x.timed

ProcessInv == \A e \in Exec : ExecutionInv(exec[e])

(* A conversation processes a message while its execution is there. *)
ConversationInv == \A e \in Engine : Processing(e) <=> exec[e].stage # "none"

Busy(e) == chat[e].status \in {"processing", "timeout"}

Stuck(e) == chat[e].status = "error" /\ chat[e].isRetry

ScreenInv ==
    /\ \A e, f \in Engine : Busy(e) => (Busy(f) => e = f) /\ ~Stuck(f)
    /\ ui.isLoading <=> \E e \in Engine : Processing(e) \/ Stuck(e)
    /\ ui.showTimeoutDialog <=> \E e \in Engine : chat[e].status = "timeout"
    /\ \A e \in Engine : chat[e].status = "timeout" => ui.timeoutEngine = e
    /\ \A e \in Engine : Processing(e) => /\ ui.retryInFlight <=> chat[e].isRetry
                                          /\ ~ui.retryResponseHandled
    /\ ui.retryInFlight => \E e \in Engine : Processing(e)
    /\ ui.isLoading => ~ui.showTimeoutDialog
    /\ ui.showQuitConfirm => ~ui.isLoading /\ ~ui.showTimeoutDialog

IInv ==
    /\ TypeOK /\ ProcessInv
    /\ Open => ConversationInv
    /\ crossed \/ (shown = 1 /\ (Open => ScreenInv))
    /\ NoAgentLeftBehind

-----------------------------------------------------------------------------
(* Every step of an execution leaves it an execution that fits its history.  *)
LEMMA ExecutionStep ==
    ASSUME NEW e \in Exec, ExecTypeOK, ExecutionInv(exec[e]), ExecNext(e)
    PROVE  \E y \in Execution : /\ Change(e, y) /\ ExecutionInv(y)
                                /\ y.stage # "none" /\ InProgress(exec[e])
<1>. DEFINE x == exec[e]
<1>1. x \in Execution
  BY DEF ExecTypeOK
<1>. USE DEF Execution, Statuses, Causes, ExecutionInv, Tracked, InProgress, Signalled
<1>2. CASE StartProcess(e)
  <2>. DEFINE y == StartedAnyway(x)
  <2>1. x.stage = "starting" /\ Change(e, Started(x))
    BY <1>2 DEF StartProcess
  <2>2. /\ y \in Execution /\ y.stage = "running" /\ y.pendingInterrupt = x.pendingInterrupt
        /\ ~y.interrupted /\ ~y.term /\ y.status = "none" /\ y.kill = x.kill
        /\ y.timer # "off" => y.timed
    BY <1>1, <2>1 DEF StartedAnyway
  <2>3. CASE x.pendingInterrupt
    <3>1. Started(x) = Terminated(y)
      BY <2>3 DEF Started
    <3>. HIDE DEF y
    <3>2. Terminated(y) \in Execution /\ ExecutionInv(Terminated(y)) /\ Terminated(y).stage = "running"
      BY <2>2 DEF Terminated
    <3>. QED
      BY <2>1, <3>1, <3>2
  <2>4. CASE ~x.pendingInterrupt
    <3>1. Started(x) = y
      BY <2>4 DEF Started
    <3>2. ~x.kill
      BY <2>1
    <3>. HIDE DEF y
    <3>3. ExecutionInv(y)
      BY <2>2, <2>4, <3>2
    <3>. QED
      BY <2>1, <2>2, <3>1, <3>3
  <2>. QED
    BY <2>3, <2>4
<1>3. CASE TimeoutFires(e)
  BY <1>1, <1>3 DEF TimeoutFires
<1>4. CASE KillFires(e)
  BY <1>1, <1>4 DEF KillFires
<1>5. CASE Closes(e)
  <2>1. EndedAs(x, CloseStatus(x)) \in Execution /\ ExecutionInv(EndedAs(x, CloseStatus(x)))
    BY <1>1, <1>5 DEF Closes, EndedAs, CloseStatus
  <2>2. EndedAs(x, CloseStatus(x)).stage = "ended"
    BY <1>1 DEF EndedAs
  <2>. QED
    BY <1>5, <2>1, <2>2 DEF Closes
<1>6. CASE CannotStart(e) \/ ProcessError(e)
  <2>1. EndedAs(x, "failed") \in Execution /\ ExecutionInv(EndedAs(x, "failed"))
    BY <1>1, <1>6 DEF CannotStart, ProcessError, EndedAs
  <2>2. EndedAs(x, "failed").stage = "ended"
    BY <1>1 DEF EndedAs
  <2>. QED
    BY <1>6, <2>1, <2>2 DEF CannotStart, ProcessError
<1>7. CASE KilledByOther(e)
  BY <1>1, <1>7 DEF KilledByOther
<1>8. ASSUME NEW cause \in {"code0", "code1", "signal"}, Exits(e, cause)
      PROVE  \E y \in Execution : /\ Change(e, y) /\ ExecutionInv(y)
                                  /\ y.stage # "none" /\ InProgress(exec[e])
  BY <1>1, <1>8 DEF Exits
<1>. QED
  BY <1>2, <1>3, <1>4, <1>5, <1>6, <1>7, <1>8 DEF ExecNext, ProcessStep

-----------------------------------------------------------------------------
(* Executions and conversations change one at a time.                       *)
LEMMA ChangeStep ==
    ASSUME NEW e \in Exec, NEW y \in Execution, ExecTypeOK, ProcessInv,
           ExecutionInv(y), Change(e, y)
    PROVE  /\ ExecTypeOK' /\ ProcessInv'
           /\ exec'[e] = y /\ \A f \in Exec \ {e} : exec'[f] = exec[f]
<1>1. exec' \in [Exec -> Execution]
  BY DEF ExecTypeOK, Change
<1>2. exec'[e] = y /\ \A f \in Exec \ {e} : exec'[f] = exec[f]
  BY DEF ExecTypeOK, Change
<1>3. \A f \in Exec : ExecutionInv(exec'[f])
  BY <1>2 DEF ProcessInv
<1>4. ExecTypeOK'
  BY <1>1 DEF ExecTypeOK
<1>5. ProcessInv'
  BY <1>3 DEF ProcessInv, ExecutionInv, Signalled, Tracked
<1>. QED
  BY <1>2, <1>4, <1>5

(* A step of one engine changes that engine's conversation only.             *)
LEMMA ChatStepShape ==
    ASSUME NEW e \in Engine, NEW c \in Chat, ChatTypeOK, ChatTo(e, c)
    PROVE  ChatTypeOK' /\ chat'[e] = c /\ \A f \in Engine \ {e} : chat'[f] = chat[f]
BY DEF ChatTypeOK, ChatTo

(* An execution as execute() makes it, and none at all, fit their history. *)
LEMMA FreshExecution ==
    ASSUME NEW timed \in BOOLEAN
    PROVE  /\ Executed(timed) \in Execution /\ ExecutionInv(Executed(timed))
           /\ Executed(timed).stage = "starting"
           /\ NotExecuted \in Execution /\ ExecutionInv(NotExecuted)
           /\ NotExecuted.stage = "none"
BY DEF Execution, Statuses, Causes, ExecutionInv, Signalled, Tracked, Executed, NotExecuted

(* A message that is asked, and its result: the conversation keeps its       *)
(* execution exactly while it processes.                                     *)
LEMMA AskStep ==
    ASSUME NEW e \in Engine, NEW timed \in BOOLEAN, NEW isRetry \in BOOLEAN,
           ExecTypeOK, ChatTypeOK, ProcessInv, ConversationInv, Ask(e, timed, isRetry)
    PROVE  /\ ExecTypeOK' /\ ChatTypeOK' /\ ProcessInv' /\ ConversationInv'
           /\ chat'[e].status = "processing" /\ chat'[e].isRetry = isRetry
           /\ \A f \in Engine \ {e} : chat'[f] = chat[f]
<1>. DEFINE c == [status |-> "processing", timed |-> timed, isRetry |-> isRetry]
<1>1. c \in Chat /\ e \in Exec
  BY PrdChatAssumption DEF Chat
<1>2. ChatTo(e, c) /\ Change(e, Executed(timed))
  BY DEF Ask
<1>3. ChatTypeOK' /\ chat'[e] = c /\ \A f \in Engine \ {e} : chat'[f] = chat[f]
  BY <1>1, <1>2, ChatStepShape
<1>4. /\ ExecTypeOK' /\ ProcessInv'
      /\ exec'[e].stage = "starting" /\ \A f \in Exec \ {e} : exec'[f] = exec[f]
  BY <1>1, <1>2, FreshExecution, ChangeStep
<1>5. ConversationInv'
  BY <1>3, <1>4, PrdChatAssumption DEF ConversationInv, Processing
<1>. QED
  BY <1>3, <1>4, <1>5

(* An agent that is done, or was stopped, ends the processing.               *)
LEMMA ResultStep ==
    ASSUME NEW e \in Engine, NEW status, NEW c \in Chat,
           ExecTypeOK, ChatTypeOK, ProcessInv, ConversationInv,
           Result(e, status), ChatTo(e, c), c.status # "processing"
    PROVE  /\ ExecTypeOK' /\ ChatTypeOK' /\ ProcessInv' /\ ConversationInv'
           /\ Processing(e) /\ chat'[e] = c
           /\ \A f \in Engine \ {e} : chat'[f] = chat[f]
<1>1. e \in Exec /\ Processing(e) /\ Change(e, NotExecuted)
  BY PrdChatAssumption DEF Result, Processing
<1>2. ChatTypeOK' /\ chat'[e] = c /\ \A f \in Engine \ {e} : chat'[f] = chat[f]
  BY ChatStepShape
<1>3. /\ ExecTypeOK' /\ ProcessInv'
      /\ exec'[e].stage = "none" /\ \A f \in Exec \ {e} : exec'[f] = exec[f]
  BY <1>1, FreshExecution, ChangeStep
<1>4. ConversationInv'
  BY <1>2, <1>3, PrdChatAssumption DEF ConversationInv, Processing
<1>. QED
  BY <1>1, <1>2, <1>3, <1>4

-----------------------------------------------------------------------------
(* The invariant holds at first and is kept by every step.                  *)
LEMMA InvariantInit == Init => IInv
<1>. SUFFICES ASSUME Init PROVE IInv
  OBVIOUS
<1>1. NotExecuted \in Execution /\ ExecutionInv(NotExecuted) /\ NotExecuted.stage = "none"
  BY FreshExecution
<1>2. ExecTypeOK /\ ProcessInv /\ \A e \in Exec : exec[e].stage = "none"
  BY <1>1 DEF Init, ExecTypeOK, ProcessInv
<1>3. ChatTypeOK /\ \A e \in Engine : chat[e].status = "idle"
  BY ChatAssumption DEF Init, ChatInit, ChatTypeOK, Chat
<1>4. TypeOK
  <2>1. ui \in Ui
    BY DEF Init, Ui
  <2>2. shown \in 0..2
    BY DEF Init
  <2>3. crossed \in BOOLEAN
    BY Zenon DEF Init
  <2>. QED
    BY <1>2, <1>3, <2>1, <2>2, <2>3 DEF TypeOK
<1>5. ConversationInv
  BY <1>2, <1>3, PrdChatAssumption DEF ConversationInv, Processing
<1>6. ScreenInv
  BY <1>3 DEF Init, ScreenInv, Busy, Stuck, Processing
<1>. QED
  BY <1>2, <1>4, <1>5, <1>6 DEF Init, IInv, NoAgentLeftBehind, Open

(* The steps of the screen and the conversations, while the screen is open.  *)
LEMMA SubmitStep ==
    ASSUME IInv, NEW e \in Engine, Submit(e)
    PROVE  IInv'
<1>1. /\ Open /\ TypeOK /\ ProcessInv /\ ConversationInv
      /\ Ask(e, Timeout, FALSE) /\ CanSend(e) /\ ~ui.isLoading
  BY DEF IInv, Submit, SendMessage, InputEnabled
<1>2. /\ ExecTypeOK' /\ ChatTypeOK' /\ ProcessInv' /\ ConversationInv'
      /\ chat'[e].status = "processing" /\ chat'[e].isRetry = FALSE
      /\ \A f \in Engine \ {e} : chat'[f] = chat[f]
  BY <1>1, AskStep, ChatAssumption DEF TypeOK
<1>3. /\ ui' = [ui EXCEPT !.isLoading = TRUE, !.retryResponseHandled = FALSE]
      /\ crossed' = (crossed \/ ui.showTimeoutDialog \/ ui.showQuitConfirm)
      /\ shown' = shown
  BY DEF Submit
<1>4. TypeOK' /\ Open'
  BY <1>1, <1>2, <1>3 DEF TypeOK, Ui, Open
<1>5. ASSUME ~crossed' PROVE shown' = 1 /\ ScreenInv'
  BY <1>1, <1>2, <1>3, <1>5 DEF IInv, TypeOK, Ui, ScreenInv, Busy, Stuck, Processing
<1>. QED
  BY <1>2, <1>4, <1>5 DEF IInv, NoAgentLeftBehind

(* What an engine does when its agent is done keeps the invariant.           *)
LEMMA ChatStepStep ==
    ASSUME IInv, NEW e \in Engine, ChatStep(e)
    PROVE  IInv'
<1>1. Open /\ TypeOK /\ ExecTypeOK /\ ChatTypeOK /\ ProcessInv /\ ConversationInv /\ ui \in Ui
  BY DEF IInv, ChatStep, Timeouted, Failed, Replied, TypeOK
<1>2. chat[e] \in Chat
  BY <1>1 DEF ChatTypeOK
<1>. DEFINE Kept == /\ ExecTypeOK' /\ ChatTypeOK' /\ ProcessInv' /\ ConversationInv'
                    /\ Processing(e) /\ chat'[e].isRetry = chat[e].isRetry
                    /\ \A f \in Engine \ {e} : chat'[f] = chat[f]
<1>3. CASE Timeouted(e)
  <2>. DEFINE c == [chat[e] EXCEPT !.status = "timeout"]
  <2>1. c \in Chat /\ c.status = "timeout" /\ c.isRetry = chat[e].isRetry
    BY <1>2 DEF Chat
  <2>2. Result(e, "timeout") /\ ChatTo(e, c)
    BY <1>3 DEF Timeouted, HandleTimeout
  <2>3. Kept /\ chat'[e].status = "timeout"
    BY <1>1, <2>1, <2>2, ResultStep
  <2>4. ui' = CallOver(e, OnTimeout(e)) /\ shown' = shown /\ crossed' = crossed
    BY <1>3 DEF Timeouted
  <2>5. /\ ui' \in Ui /\ ui'.over = ui.over /\ ~ui'.isLoading /\ ~ui'.retryInFlight
        /\ ui'.showTimeoutDialog /\ ui'.timeoutEngine = e
        /\ ui'.showQuitConfirm = ui.showQuitConfirm
    BY <1>1, <2>4 DEF CallOver, OnTimeout, RetryNoted, Ui
  <2>6. ASSUME ~crossed' PROVE shown' = 1 /\ ScreenInv'
    BY <1>1, <2>3, <2>4, <2>5, <2>6 DEF IInv, Ui, ScreenInv, Busy, Stuck, Processing
  <2>. QED
    BY <1>1, <2>3, <2>4, <2>5, <2>6 DEF IInv, TypeOK, NoAgentLeftBehind, Open
<1>4. CASE Failed(e)
  <2>. DEFINE c == [chat[e] EXCEPT !.status = "error"]
  <2>1. c \in Chat /\ c.status = "error" /\ c.isRetry = chat[e].isRetry
    BY <1>2 DEF Chat
  <2>2. (\E status \in {"failed", "interrupted"} : Result(e, status)) /\ ChatTo(e, c)
    BY <1>4 DEF Failed, HandleError
  <2>3. Kept /\ chat'[e].status = "error"
    BY <1>1, <2>1, <2>2, ResultStep
  <2>4. ui' = CallOver(e, RetryNoted(ui)) /\ shown' = shown /\ crossed' = crossed
    BY <1>4 DEF Failed
  <2>5. /\ ui' \in Ui /\ ui'.over = ui.over /\ ~ui'.retryInFlight
        /\ ui'.isLoading = (chat[e].isRetry /\ ui.isLoading)
        /\ ui'.showTimeoutDialog = ui.showTimeoutDialog
        /\ ui'.timeoutEngine = ui.timeoutEngine
        /\ ui'.showQuitConfirm = ui.showQuitConfirm
    BY <1>1, <1>2, <2>4 DEF CallOver, RetryNoted, Ui, Chat
  <2>6. ASSUME ~crossed' PROVE shown' = 1 /\ ScreenInv'
    BY <1>1, <2>3, <2>4, <2>5, <2>6 DEF IInv, Ui, ScreenInv, Busy, Stuck, Processing
  <2>. QED
    BY <1>1, <2>3, <2>4, <2>5, <2>6 DEF IInv, TypeOK, NoAgentLeftBehind, Open
<1>5. ASSUME NEW prdFound \in {FALSE} \cup {e = Prd}, Replied(e, prdFound)
      PROVE  IInv'
  <2>. DEFINE c == [chat[e] EXCEPT !.status = IF prdFound THEN "completed" ELSE "idle",
                                   !.timed = Timeout]
  <2>1. c \in Chat /\ c.status \in {"completed", "idle"} /\ c.isRetry = chat[e].isRetry
    BY <1>2, ChatAssumption DEF Chat
  <2>2. Result(e, "completed") /\ ChatTo(e, c)
    BY <1>5 DEF Replied, HandleReply
  <2>3. Kept /\ chat'[e].status \in {"completed", "idle"}
    BY <1>1, <2>1, <2>2, ResultStep
  <2>4. /\ ui' = [CallOver(e, OnReply) EXCEPT !.saving = @ \/ (e = Prd /\ prdFound)]
        /\ shown' = Added(e) /\ crossed' = crossed
    BY <1>5 DEF Replied
  <2>5. /\ ui' \in Ui /\ ui'.over = ui.over /\ ~ui'.retryInFlight
        /\ ui'.isLoading = (chat[e].isRetry /\ ~ui.retryInFlight /\ ui.isLoading)
        /\ ui'.showTimeoutDialog = ui.showTimeoutDialog
        /\ ui'.timeoutEngine = ui.timeoutEngine
        /\ ui'.showQuitConfirm = ui.showQuitConfirm
    BY <1>1, <1>2, <2>4 DEF CallOver, OnReply, Ui, Chat
  <2>6. shown' \in 0..2
    BY <2>4 DEF Added
  <2>7. ASSUME ~crossed' PROVE shown' = 1
    BY <1>1, <2>3, <2>4, <2>7 DEF IInv, Ui, ScreenInv, Added
  <2>8. ASSUME ~crossed' PROVE ScreenInv'
    BY <1>1, <2>3, <2>4, <2>5, <2>8 DEF IInv, Ui, ScreenInv, Busy, Stuck, Processing
  <2>. QED
    BY <1>1, <2>3, <2>4, <2>5, <2>6, <2>7, <2>8 DEF IInv, TypeOK, NoAgentLeftBehind, Open
<1>. QED
  BY <1>3, <1>4, <1>5 DEF ChatStep

(* A conversation that waits is the one the dialog is about.                 *)
LEMMA RetryStep ==
    ASSUME IInv, DialogKey, NEW timed \in BOOLEAN,
           chat[TimeoutEngine].status = "timeout",
           Ask(TimeoutEngine, timed, TRUE), ui' = OnRetryStarted(Closed),
           UNCHANGED <<shown, crossed>>
    PROVE  IInv'
<1>. DEFINE e == TimeoutEngine
<1>1. Open /\ TypeOK /\ ProcessInv /\ ConversationInv /\ ui \in Ui
  BY DEF IInv, DialogKey, TypeOK
<1>2. e \in Engine
  BY <1>1, PrdChatAssumption DEF TimeoutEngine, Ui
<1>. HIDE DEF e
<1>3. /\ ExecTypeOK' /\ ChatTypeOK' /\ ProcessInv' /\ ConversationInv'
      /\ chat'[e].status = "processing" /\ chat'[e].isRetry = TRUE
      /\ \A f \in Engine \ {e} : chat'[f] = chat[f]
  BY <1>1, <1>2, AskStep DEF TypeOK, e
<1>4. /\ ui' \in Ui /\ ui'.over = ui.over /\ ui'.isLoading /\ ui'.retryInFlight
      /\ ~ui'.retryResponseHandled /\ ~ui'.showTimeoutDialog
      /\ ui'.showQuitConfirm = ui.showQuitConfirm /\ ~ui.showQuitConfirm
  BY <1>1, <1>2 DEF OnRetryStarted, Closed, Ui, DialogKey, e
<1>5. ASSUME ~crossed' PROVE shown' = 1 /\ ScreenInv'
  <2>1. chat[e].status = "timeout" /\ ScreenInv /\ shown' = 1
    BY <1>1, <1>5 DEF IInv, e
  <2>. QED
    BY <1>2, <1>3, <1>4, <2>1 DEF ScreenInv, Busy, Stuck, Processing
<1>. QED
  BY <1>1, <1>3, <1>4, <1>5 DEF IInv, TypeOK, NoAgentLeftBehind, Open

(* The keys that only change the screen. *)
LEMMA ScreenStep ==
    ASSUME IInv, Open, ui' \in Ui, ui'.over = ui.over,
           UNCHANGED <<exec, chat, shown, crossed>>,
           crossed \/ (ScreenInv => ScreenInv')
    PROVE  IInv'
<1>1. TypeOK' /\ ProcessInv' /\ ConversationInv' /\ Open'
  BY DEF IInv, TypeOK, ExecTypeOK, ChatTypeOK, ProcessInv, ExecutionInv, Signalled, Tracked,
         ConversationInv, Processing, Open
<1>. QED
  BY <1>1 DEF IInv, NoAgentLeftBehind

(* The three answers of the timeout dialog keep the invariant.               *)
LEMMA DialogStep ==
    ASSUME IInv, DialogRetry \/ DialogContinue \/ DialogCancel
    PROVE  IInv'
<1>1. Open /\ DialogKey /\ TypeOK /\ ui \in Ui /\ ChatTypeOK /\ ExecTypeOK /\ ProcessInv /\ ConversationInv
  BY DEF IInv, DialogRetry, DialogContinue, DialogCancel, DialogKey, TypeOK
<1>2. TimeoutEngine \in Engine /\ chat[TimeoutEngine] \in Chat
  BY <1>1, PrdChatAssumption DEF TimeoutEngine, Ui, ChatTypeOK
<1>3. crossed \/ chat[TimeoutEngine].status = "timeout"
  BY <1>1, PrdChatAssumption DEF IInv, ScreenInv, DialogKey, TimeoutEngine
<1>4. CASE DialogRetry /\ Retry(TimeoutEngine) /\ ui' = OnRetryStarted(Closed)
  BY <1>1, <1>2, <1>4, RetryStep DEF DialogRetry, Retry, Chat
<1>5. CASE DialogContinue /\ ContinueIndefinitely(TimeoutEngine) /\ ui' = OnRetryStarted(Closed)
  BY <1>1, <1>2, <1>5, RetryStep DEF DialogContinue, ContinueIndefinitely
<1>6. CASE /\ ui' = Closed \/ ui' = [Closed EXCEPT !.isLoading = TRUE]
           /\ chat[TimeoutEngine].status # "timeout"
           /\ UNCHANGED <<exec, chat, shown, crossed>>
  BY <1>1, <1>3, <1>6, ScreenStep DEF Closed, Ui
<1>7. CASE DialogCancel
  <2>. DEFINE e == TimeoutEngine
  <2>1. /\ ui' \in Ui /\ ui'.over = ui.over /\ ~ui'.isLoading /\ ~ui'.showTimeoutDialog
        /\ ui'.retryInFlight = ui.retryInFlight
        /\ ui'.showQuitConfirm = ui.showQuitConfirm
    BY <1>1, <1>7 DEF DialogCancel, Closed, Ui
  <2>2. shown' = shown /\ crossed' = crossed /\ exec' = exec /\ Cancel(e)
    BY <1>7 DEF DialogCancel, Cancel, CancelTimeout
  <2>3. CASE CancelTimeout(e)
    <3>. DEFINE c == [chat[e] EXCEPT !.status = "idle", !.timed = Timeout]
    <3>1. c \in Chat /\ c.status = "idle" /\ ChatTo(e, c) /\ chat[e].status = "timeout"
      BY <1>2, <2>3, ChatAssumption DEF Chat, CancelTimeout
    <3>. HIDE DEF c
    <3>2. ChatTypeOK' /\ chat'[e] = c /\ \A f \in Engine \ {e} : chat'[f] = chat[f]
      BY <1>1, <1>2, <3>1, ChatStepShape
    <3>3. ConversationInv'
      BY <1>1, <2>2, <3>1, <3>2 DEF ConversationInv, Processing
    <3>4. ExecTypeOK' /\ ProcessInv'
      BY <1>1, <2>2 DEF ExecTypeOK, ProcessInv, ExecutionInv, Signalled, Tracked
    <3>5. ASSUME ~crossed' PROVE shown' = 1 /\ ScreenInv'
      <4>1. ScreenInv /\ shown' = 1
        BY <1>1, <2>2, <3>5 DEF IInv
      <4>. QED
        BY <1>2, <2>1, <3>1, <3>2, <4>1 DEF ScreenInv, Busy, Stuck, Processing
    <3>. QED
      BY <1>1, <2>1, <2>2, <3>2, <3>3, <3>4, <3>5 DEF IInv, TypeOK, NoAgentLeftBehind, Open
  <2>4. CASE chat[e].status # "timeout" /\ UNCHANGED <<exec, chat>>
    BY <1>1, <1>3, <2>1, <2>2, <2>4, ScreenStep
  <2>. QED
    BY <2>2, <2>3, <2>4 DEF Cancel
<1>. QED
  BY <1>4, <1>5, <1>6, <1>7 DEF DialogRetry, DialogContinue

(* Leaving, which no conversation is at work to see. *)
LEMMA LeaveStep ==
    ASSUME IInv, Open, ui' \in Ui, ui'.over # "no", crossed \/ ~ui.isLoading,
           UNCHANGED <<exec, chat, shown, crossed>>
    PROVE  IInv'
<1>1. TypeOK' /\ ProcessInv' /\ ~Open'
  BY DEF IInv, TypeOK, ExecTypeOK, ChatTypeOK, ProcessInv, ExecutionInv, Signalled, Tracked, Open
<1>2. NoAgentLeftBehind'
  BY <1>1 DEF IInv, NoAgentLeftBehind, ScreenInv, ConversationInv, Processing, InProgress
<1>. QED
  BY <1>1, <1>2 DEF IInv

(* Keys that reach no agent keep the invariant.                              *)
LEMMA KeyStep ==
    ASSUME IInv, \/ \E e \in Engine : SubmitRefused(e)
                 \/ PrdSaved \/ AskQuit \/ Finish
                 \/ \E yes \in BOOLEAN : AnswerQuit(yes)
    PROVE  IInv'
<1>1. Open /\ ui \in Ui /\ ui.over = "no" /\ UNCHANGED <<exec, chat, shown, crossed>>
  BY DEF IInv, TypeOK, SubmitRefused, PrdSaved, AskQuit, Finish, AnswerQuit, KeysProcessed, Open
<1>2. ASSUME NEW e \in Engine, SubmitRefused(e) PROVE IInv'
  <2>1. ~ui.isLoading /\ ui' = [ui EXCEPT !.retryResponseHandled = FALSE]
    BY <1>2 DEF SubmitRefused, InputEnabled
  <2>2. ui' \in Ui /\ ui'.over = ui.over /\ (ScreenInv => ScreenInv')
    BY <1>1, <2>1 DEF Ui, ScreenInv, Busy, Stuck, Processing
  <2>. QED
    BY <1>1, <2>2, ScreenStep
<1>3. CASE PrdSaved
  <2>1. PICK phase \in {ui.phase, "review"} : ui' = [ui EXCEPT !.saving = FALSE, !.phase = phase]
    BY <1>3 DEF PrdSaved
  <2>2. phase \in {"chat", "review"}
    BY <1>1 DEF Ui
  <2>3. ui' \in Ui /\ ui'.over = ui.over
    BY <1>1, <2>1, <2>2 DEF Ui
  <2>4. ScreenInv => ScreenInv'
    BY <1>1, <2>1 DEF Ui, ScreenInv, Busy, Stuck, Processing
  <2>. QED
    BY <1>1, <2>3, <2>4, ScreenStep
<1>4. CASE AskQuit
  <2>1. ui' \in Ui /\ ui'.over = ui.over /\ (ScreenInv => ScreenInv')
    BY <1>1, <1>4 DEF AskQuit, KeysProcessed, Ui, ScreenInv, Busy, Stuck, Processing
  <2>. QED
    BY <1>1, <2>1, ScreenStep
<1>5. CASE Finish
  <2>1. ui' \in Ui /\ ui'.over = "completed" /\ ~ui.isLoading
    BY <1>1, <1>5 DEF Finish, KeysProcessed, InputEnabled, Ui
  <2>. QED
    BY <1>1, <2>1, LeaveStep
<1>6. CASE AnswerQuit(FALSE)
  <2>1. ui' = [ui EXCEPT !.showQuitConfirm = FALSE, !.over = ui.over]
    BY <1>6 DEF AnswerQuit
  <2>2. ui' \in Ui /\ ui'.over = ui.over
    BY <1>1, <2>1 DEF Ui
  <2>3. ScreenInv => ScreenInv'
    BY <1>1, <2>1 DEF Ui, ScreenInv, Busy, Stuck, Processing
  <2>. QED
    BY <1>1, <2>2, <2>3, ScreenStep
<1>7. CASE AnswerQuit(TRUE)
  <2>1. ui' \in Ui /\ ui'.over = "cancelled" /\ (crossed \/ ~ui.isLoading)
    BY <1>1, <1>7 DEF AnswerQuit, Ui, IInv, ScreenInv
  <2>. QED
    BY <1>1, <2>1, LeaveStep
<1>. QED
  BY <1>2, <1>3, <1>4, <1>5, <1>6, <1>7

(* The steps of the processes, and of the run that follows. *)
LEMMA ProcessesStep ==
    ASSUME IInv, Unchanged, NEW e \in Exec, NEW y \in Execution,
           Change(e, y), ExecutionInv(y), y.stage # "none",
           e \in Engine => InProgress(exec[e])
    PROVE  IInv'
<1>1. /\ ExecTypeOK' /\ ProcessInv'
      /\ exec'[e] = y /\ \A f \in Exec \ {e} : exec'[f] = exec[f]
  BY ChangeStep DEF IInv, TypeOK
<1>2. TypeOK' /\ (Open' <=> Open) /\ (ScreenInv' <=> ScreenInv) /\ crossed' = crossed /\ shown' = shown
  BY <1>1 DEF IInv, Unchanged, TypeOK, ChatTypeOK, Open, ScreenInv, Busy, Stuck, Processing
<1>3. ASSUME Open PROVE ConversationInv'
  <2>1. \A f \in Engine : exec'[f].stage # "none" <=> exec[f].stage # "none"
    BY <1>1, PrdChatAssumption DEF InProgress
  <2>. QED
    BY <1>3, <2>1 DEF IInv, ConversationInv, Processing, Unchanged
<1>4. ASSUME ~crossed, ~Open PROVE \A f \in Engine : ~InProgress(exec'[f])
  BY <1>1, <1>4, PrdChatAssumption DEF IInv, NoAgentLeftBehind
<1>. QED
  BY <1>1, <1>2, <1>3, <1>4 DEF IInv, NoAgentLeftBehind, InProgress

(* Executions that are no conversation's keep the invariant.                 *)
LEMMA OtherStep ==
    ASSUME IInv, NEW o \in Other,
           OtherInterrupts(o) \/ \E timed \in BOOLEAN : OtherExecutes(o, timed)
    PROVE  IInv'
<1>. DEFINE x == exec[o]
<1>1. o \in Exec /\ o \notin Engine /\ x \in Execution /\ ExecutionInv(x) /\ Unchanged
  BY PrdChatAssumption DEF IInv, TypeOK, ExecTypeOK, ProcessInv, OtherInterrupts, OtherExecutes
<1>2. CASE OtherInterrupts(o) /\ Tracked(x)
  <2>1. Terminated(x) \in Execution /\ ExecutionInv(Terminated(x)) /\ Terminated(x).stage # "none"
    BY <1>1, <1>2 DEF Terminated, Execution, ExecutionInv, Tracked, Signalled
  <2>. QED
    BY <1>1, <1>2, <2>1, ProcessesStep DEF OtherInterrupts, Interrupt
<1>3. CASE OtherInterrupts(o) /\ ~Tracked(x)
  <2>. DEFINE y == [x EXCEPT !.pendingInterrupt = TRUE]
  <2>1. y \in Execution /\ ExecutionInv(y) /\ y.stage # "none"
    BY <1>1, <1>3 DEF Execution, ExecutionInv, Tracked, Signalled, OtherInterrupts, Interrupt,
       InProgress
  <2>. QED
    BY <1>1, <1>3, <2>1, ProcessesStep DEF OtherInterrupts, Interrupt
<1>4. ASSUME NEW timed \in BOOLEAN, OtherExecutes(o, timed) PROVE IInv'
  BY <1>1, <1>4, FreshExecution, ProcessesStep DEF OtherExecutes
<1>. QED
  BY <1>2, <1>3, <1>4

(* Every step keeps the invariant.                                           *)
LEMMA InvariantNext == IInv /\ [Next]_vars => IInv'
<1>. SUFFICES ASSUME IInv, [Next]_vars PROVE IInv'
  OBVIOUS
<1>1. ASSUME NEW e \in Engine, Submit(e) PROVE IInv'
  BY <1>1, SubmitStep
<1>2. ASSUME NEW e \in Engine, ChatStep(e) PROVE IInv'
  BY <1>2, ChatStepStep
<1>3. CASE \/ \E e \in Engine : SubmitRefused(e)
           \/ PrdSaved \/ AskQuit \/ Finish
           \/ \E yes \in BOOLEAN : AnswerQuit(yes)
  BY <1>3, KeyStep
<1>4. CASE DialogRetry \/ DialogContinue \/ DialogCancel
  BY <1>4, DialogStep
<1>5. ASSUME NEW e \in Exec, ExecNext(e), Unchanged PROVE IInv'
  <2>1. ExecTypeOK /\ ExecutionInv(exec[e])
    BY DEF IInv, TypeOK, ProcessInv
  <2>2. PICK y \in Execution : /\ Change(e, y) /\ ExecutionInv(y)
                               /\ y.stage # "none" /\ InProgress(exec[e])
    BY <1>5, <2>1, ExecutionStep
  <2>. QED
    BY <1>5, <2>2, ProcessesStep
<1>6. ASSUME NEW o \in Other, OtherInterrupts(o) \/ \E timed \in BOOLEAN : OtherExecutes(o, timed)
      PROVE  IInv'
  BY <1>6, OtherStep
<1>7. CASE UNCHANGED vars
  BY <1>7 DEF vars, IInv, TypeOK, ExecTypeOK, ChatTypeOK, ProcessInv, ExecutionInv, Signalled,
              Tracked, ConversationInv, Processing, ScreenInv, Busy, Stuck, Open,
              NoAgentLeftBehind, InProgress
<1>. QED
  BY <1>1, <1>2, <1>3, <1>4, <1>5, <1>6, <1>7 DEF Next

(* The invariant holds in every state of the chat application.               *)
THEOREM Invariant == Spec => []IInv
BY InvariantInit, InvariantNext, PTL DEF Spec

-----------------------------------------------------------------------------
(* Theorems.                                                                *)

(* Type correctness. *)
THEOREM TypeCorrect == Spec => []TypeOK
<1>1. IInv => TypeOK
  BY DEF IInv
<1>. QED
  BY <1>1, Invariant, PTL

(* An interruption is reported, though it came before the process.           *)
THEOREM InterruptionIsReported == Spec => []InterruptIsReported
<1>1. IInv => InterruptIsReported
  BY DEF IInv, ProcessInv, ExecutionInv, InterruptIsReported
<1>. QED
  BY <1>1, Invariant, PTL

(* What is reported as a timeout is not the user's interruption.             *)
THEOREM ReportedTimeoutIsReal == Spec => []TimeoutIsReal
<1>1. IInv => TimeoutIsReal
  BY DEF IInv, ProcessInv, ExecutionInv, TimeoutIsReal
<1>. QED
  BY <1>1, Invariant, PTL

(* Replies come on the screen once. *)
THEOREM RepliesAreShownOnce == Spec => []ReplyShownOnce
<1>1. IInv => ReplyShownOnce
  BY DEF IInv, ReplyShownOnce
<1>. QED
  BY <1>1, Invariant, PTL

(* Every conversation that waits for the user has the dialog. *)
THEOREM WaitingHasItsDialog == Spec => []TimeoutCanBeAnswered
<1>1. IInv => TimeoutCanBeAnswered
  BY DEF IInv, ScreenInv, TimeoutCanBeAnswered
<1>. QED
  BY <1>1, Invariant, PTL

(* The screen is busy exactly while an agent works on a message, save after a *)
(* failed retry, and leaving it leaves no agent of a conversation behind.    *)
THEOREM BusyScreenMeansWork == Spec => []BusyMeansWork
<1>1. IInv => LoadingIsWork
  BY DEF IInv, ScreenInv, LoadingIsWork, Stuck
<1>2. IInv => NoAgentLeftBehind
  BY DEF IInv
<1>3. IInv => BusyMeansWork
  BY <1>1, <1>2 DEF BusyMeansWork
<1>. QED
  BY <1>3, Invariant, PTL
=============================================================================
