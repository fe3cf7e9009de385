----------------------------- MODULE PrdChatApp -----------------------------
(***************************************************************************)
(* The creation of a PRD (src/tui/components/PrdChatApp.tsx): one            *)
(* conversation that writes the PRD and a second one that makes tasks of it, *)
(* a screen, and the keys of the user, over one agent plugin.  The screen    *)
(* follows the events of both conversations (handleEngineEvent) and the      *)
(* calls it awaits.                                                          *)
(*                                                                         *)
(* A handler, the events it emits and what resumes in the same turn of the   *)
(* event loop are one step, and the screen is rendered before the next key.  *)
(* Images, the clipboard and the texts are left out.  After the PRD is done  *)
(* the command goes on with a run, whose engine executes the agent as well    *)
(* (Other), and may interrupt it at any time.                                *)
(***************************************************************************)
EXTENDS ChatEngine

CONSTANTS
    Prd, Tasks,  \* the two conversations
    Other,       \* executions that are not of a conversation
    NoEngine

ASSUME PrdChatAssumption ==
    /\ Engine = {Prd, Tasks} /\ Prd # Tasks /\ NoEngine \notin Engine
    /\ Exec = Engine \cup Other /\ Engine \cap Other = {}

VARIABLES
    ui,        \* what the component keeps
    shown,     \* how often the last reply of an agent came on the screen
    crossed    \* a message was sent under a dialog, that the review phase does not show

vars == <<exec, chat, ui, shown, crossed>>

Ui == [phase : {"chat", "review"}, over : {"no", "completed", "cancelled"},
       isLoading : BOOLEAN, showTimeoutDialog : BOOLEAN, showQuitConfirm : BOOLEAN,
       timeoutEngine : Engine \cup {NoEngine},
       retryInFlight : BOOLEAN, retryResponseHandled : BOOLEAN,
       saving : BOOLEAN]  \* handlePrdDetected is under way

TypeOK ==
    /\ ExecTypeOK /\ ChatTypeOK
    /\ ui \in Ui
    /\ shown \in 0..2 /\ crossed \in BOOLEAN

Init ==
    /\ exec = [e \in Exec |-> NotExecuted]
    /\ ChatInit
    /\ ui = [phase |-> "chat", over |-> "no",
             isLoading |-> FALSE, showTimeoutDialog |-> FALSE, showQuitConfirm |-> FALSE,
             timeoutEngine |-> NoEngine,
             retryInFlight |-> FALSE, retryResponseHandled |-> FALSE, saving |-> FALSE]
    /\ shown = 1 /\ crossed = FALSE

Open == ui.over = "no"

-----------------------------------------------------------------------------
(* Messages of the user.                                                    *)

(* The view of the review phase looks at isLoading only. *)
InputEnabled ==
    IF ui.phase = "review" THEN ~ui.isLoading
    ELSE ~ui.isLoading /\ ~ui.showQuitConfirm /\ ~ui.showTimeoutDialog

(* A message to the PRD's conversation, or in the review phase the choice of  *)
(* a tracker, which asks the other one.                                      *)
Submit(e) ==
    /\ Open /\ InputEnabled
    /\ e = Tasks => ui.phase = "review"
    /\ SendMessage(e)
    /\ ui' = [ui EXCEPT !.isLoading = TRUE, !.retryResponseHandled = FALSE]
    /\ crossed' = (crossed \/ ui.showTimeoutDialog \/ ui.showQuitConfirm)
    /\ UNCHANGED shown

(* Refused by the conversation: the screen is as before. *)
SubmitRefused(e) ==
    /\ Open /\ InputEnabled
    /\ e = Tasks => ui.phase = "review"
    /\ ~CanSend(e)
    /\ ui' = [ui EXCEPT !.retryResponseHandled = FALSE]
    /\ UNCHANGED <<exec, chat, shown, crossed>>

-----------------------------------------------------------------------------
(* The agent's answers: the events, then what awaits the call resumes.      *)

(* finally of sendMessage and handleTrackerSelect. *)
CallOver(e, u) ==
    IF chat[e].isRetry THEN u
    ELSE [u EXCEPT !.isLoading = FALSE, !.retryResponseHandled = FALSE]

RetryNoted(u) == [u EXCEPT !.retryInFlight = FALSE, !.retryResponseHandled = FALSE]

(* As a bug: the dialog is not shown for the tasks' conversation. *)
OnTimeoutOfPrd(e) ==
    [RetryNoted(ui) EXCEPT !.timeoutEngine = e, !.isLoading = FALSE,
                           !.showTimeoutDialog = e = Prd]

OnTimeout(e) ==
    [RetryNoted(ui) EXCEPT !.timeoutEngine = e, !.isLoading = FALSE,
                           !.showTimeoutDialog = TRUE]

Timeouted(e) ==
    /\ Open /\ HandleTimeout(e)
    /\ ui' = CallOver(e, OnTimeout(e))
    /\ UNCHANGED <<shown, crossed>>

(* error:occurred: after a retry isLoading stays. *)
Failed(e) ==
    /\ Open /\ HandleError(e)
    /\ ui' = CallOver(e, RetryNoted(ui))
    /\ UNCHANGED <<shown, crossed>>

(* As a bug: the caller adds the reply whether the event added it or not. *)
AddedTwice(e) == (IF ui.retryInFlight THEN 1 ELSE 0) + 1

(* message:received adds the reply of a retry, the caller that of another. *)
Added(e) ==
    LET handled == ui.retryInFlight \/ ui.retryResponseHandled IN
      (IF ui.retryInFlight THEN 1 ELSE 0) + (IF ~chat[e].isRetry /\ ~handled THEN 1 ELSE 0)

(* As a bug: the screen stays busy, as it does after an error. *)
OnReplyStillLoading ==
    IF ui.retryInFlight
      THEN [ui EXCEPT !.retryInFlight = FALSE, !.retryResponseHandled = TRUE]
      ELSE ui

OnReply ==
    IF ui.retryInFlight
      THEN [ui EXCEPT !.retryInFlight = FALSE, !.retryResponseHandled = TRUE, !.isLoading = FALSE]
      ELSE ui

(* A PRD is looked for in what the first conversation answers. *)
Replied(e, prdFound) ==
    /\ Open /\ HandleReply(e, prdFound)
    /\ shown' = Added(e)
    /\ ui' = [CallOver(e, OnReply) EXCEPT !.saving = @ \/ (e = Prd /\ prdFound)]
    /\ UNCHANGED crossed

(* handlePrdDetected, after its awaits; the file may not be writable. *)
PrdSaved ==
    /\ Open /\ ui.saving
    /\ \E phase \in {ui.phase, "review"} : ui' = [ui EXCEPT !.saving = FALSE, !.phase = phase]
    /\ UNCHANGED <<exec, chat, shown, crossed>>

-----------------------------------------------------------------------------
(* The dialog of a timeout, that the review phase does not show but whose     *)
(* keys it has.                                                              *)

DialogKey == Open /\ ui.showTimeoutDialog /\ ~ui.showQuitConfirm

(* timeoutEngineRef.current ?? engineRef.current *)
TimeoutEngine == IF ui.timeoutEngine = NoEngine THEN Prd ELSE ui.timeoutEngine

(* retry:started. *)
OnRetryStarted(u) ==
    [u EXCEPT !.timeoutEngine = TimeoutEngine, !.retryInFlight = TRUE,
              !.retryResponseHandled = FALSE, !.isLoading = TRUE]

Closed == [ui EXCEPT !.showTimeoutDialog = FALSE]

DialogRetry ==
    /\ DialogKey
    /\ \/ Retry(TimeoutEngine) /\ ui' = OnRetryStarted(Closed)
       \/ /\ chat[TimeoutEngine].status # "timeout"
          /\ ui' = Closed /\ UNCHANGED <<exec, chat>>
    /\ UNCHANGED <<shown, crossed>>

DialogContinue ==
    /\ DialogKey
    /\ \/ ContinueIndefinitely(TimeoutEngine) /\ ui' = OnRetryStarted(Closed)
       \/ /\ chat[TimeoutEngine].status # "timeout"
          /\ ui' = [Closed EXCEPT !.isLoading = TRUE] /\ UNCHANGED <<exec, chat>>
    /\ UNCHANGED <<shown, crossed>>

Cancel(e) ==
    \/ CancelTimeout(e)
    \/ chat[e].status # "timeout" /\ UNCHANGED <<exec, chat>>

DialogCancel ==
    /\ DialogKey
    /\ Cancel(TimeoutEngine)
    /\ ui' = [Closed EXCEPT !.isLoading = FALSE, !.timeoutEngine = NoEngine]
    /\ UNCHANGED <<shown, crossed>>

-----------------------------------------------------------------------------
(* Leaving.                                                                 *)

KeysProcessed == Open /\ ~ui.showQuitConfirm /\ ~ui.showTimeoutDialog /\ ~ui.isLoading

AskQuit ==
    /\ KeysProcessed /\ ui.phase = "chat"
    /\ ui' = [ui EXCEPT !.showQuitConfirm = TRUE]
    /\ UNCHANGED <<exec, chat, shown, crossed>>

AnswerQuit(yes) ==
    /\ Open /\ ui.showQuitConfirm
    /\ ui' = [ui EXCEPT !.showQuitConfirm = FALSE, !.over = IF yes THEN "cancelled" ELSE @]
    /\ UNCHANGED <<exec, chat, shown, crossed>>

(* Escape, or "3" as a message. *)
Finish ==
    /\ Open /\ ui.phase = "review" /\ (KeysProcessed \/ InputEnabled)
    /\ ui' = [ui EXCEPT !.over = "completed"]
    /\ UNCHANGED <<exec, chat, shown, crossed>>

-----------------------------------------------------------------------------
(* The agent processes.                                                     *)

Unchanged == UNCHANGED <<chat, ui, shown, crossed>>

(* The run that follows in the same process. *)
OtherExecutes(o, timed) ==
    /\ ui.over = "completed"
    /\ exec[o].stage = "none"
    /\ Change(o, Executed(timed))
    /\ Unchanged

OtherInterrupts(o) == Interrupt(o) /\ Unchanged

ChatStep(e) == Timeouted(e) \/ Failed(e) \/ \E prdFound \in {FALSE} \cup {e = Prd} : Replied(e, prdFound)

Next ==
    \/ \E e \in Engine : Submit(e) \/ SubmitRefused(e) \/ ChatStep(e)
    \/ PrdSaved
    \/ DialogRetry \/ DialogContinue \/ DialogCancel
    \/ AskQuit \/ Finish \/ \E yes \in BOOLEAN : AnswerQuit(yes)
    \/ \E e \in Exec : ExecNext(e) /\ Unchanged
    \/ \E o \in Other : OtherInterrupts(o) \/ \E timed \in BOOLEAN : OtherExecutes(o, timed)

Spec == Init /\ [][Next]_vars

(* Timers fire, the kernel kills, pipes are closed in the end, and what is    *)
(* resolved is taken up.  That an agent ends by itself is not assumed.       *)
FairSpec ==
    /\ Spec
    /\ \A e \in Exec : WF_vars(ProcessStep(e) /\ Unchanged)
    /\ \A e \in Engine : WF_vars(ChatStep(e))

-----------------------------------------------------------------------------
(* Properties.                                                              *)

Processing(e) == chat[e].status = "processing"

(* A reply comes on the screen once, by the event or by the call that awaits  *)
(* it, in whichever order timeouts, retries and the replies of the two        *)
(* conversations come; unless a message is sent under a dialog, which the      *)
(* review phase allows.                                                      *)
ReplyShownOnce == crossed \/ shown = 1

(* A conversation that waits for the user's answer to a timeout has the       *)
(* dialog that gives it.                                                     *)
TimeoutCanBeAnswered ==
    crossed \/ ~Open \/ \A e \in Engine :
        chat[e].status = "timeout" => ui.showTimeoutDialog /\ ui.timeoutEngine = e

(* The screen is busy exactly while an agent works on a message, save after a *)
(* retry that failed, when it stays busy for good.                           *)
LoadingIsWork ==
    crossed \/ ~Open \/ (ui.isLoading <=>
        \E e \in Engine : Processing(e) \/ (chat[e].status = "error" /\ chat[e].isRetry))

(* Leaving leaves no agent of a conversation behind that nobody waits for. *)
NoAgentLeftBehind ==
    crossed \/ Open \/ \A e \in Engine : ~InProgress(exec[e])

(* Every message that has a timeout is answered, fails, or becomes a question *)
(* to the user, whatever the agent does.                                     *)
MessagesEnd ==
    \A e \in Engine : (Open /\ Processing(e) /\ chat[e].timed) ~> (~Open \/ ~Processing(e))

(* The screen knows whether an agent works for it, while it is open and when  *)
(* it is left.                                                               *)
BusyMeansWork == LoadingIsWork /\ NoAgentLeftBehind

(* Nothing that was told to stop, and no message with a timeout, goes on for  *)
(* ever.                                                                     *)
WorkEnds == StoppedOnesEnd /\ MessagesEnd
=============================================================================
