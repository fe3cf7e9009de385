----------------------------- MODULE ChatEngine -----------------------------
(***************************************************************************)
(* A conversation with an agent (src/chat/engine.ts): every message is an    *)
(* execution of the agent, one at a time; after a timeout the conversation   *)
(* waits for the user, who has it retried, continued without a timeout, or   *)
(* given up.                                                                 *)
(*                                                                         *)
(* The pending message and its options are there while the status is         *)
(* "timeout" and retryPending says the same, so neither is kept; "retrying"  *)
(* is left before anybody sees it.  retryCount, currentTimeout and the       *)
(* history only make the texts, save for a timeout of 0, which is none.      *)
(* Nobody calls reset() or interrupt().                                      *)
(***************************************************************************)
EXTENDS AgentProcess

CONSTANTS
    Engine,     \* conversations
    Timeout     \* config.timeout is not 0

ASSUME ChatAssumption == Engine \subseteq Exec /\ Timeout \in BOOLEAN

VARIABLE chat

Chat == [status : {"idle", "processing", "error", "completed", "timeout"},
         timed : BOOLEAN,      \* currentTimeout is not 0
         isRetry : BOOLEAN]    \* nobody awaits the call: retry or continue

ChatTypeOK == chat \in [Engine -> Chat]

ChatInit == chat = [e \in Engine |-> [status |-> "idle", timed |-> Timeout, isRetry |-> FALSE]]

ChatTo(e, c) == chat' = [chat EXCEPT ![e] = c]

(* _sendMessageInternal up to the await of the agent. *)
Ask(e, timed, isRetry) ==
    /\ ChatTo(e, [status |-> "processing", timed |-> timed, isRetry |-> isRetry])
    /\ Change(e, Executed(timed))

(* sendMessage refuses while a message is processed or a timeout unanswered. *)
CanSend(e) == chat[e].status \notin {"processing", "timeout"}

SendMessage(e) == CanSend(e) /\ Ask(e, Timeout, FALSE)

(* These three do nothing unless the status is "timeout". *)
Retry(e) == chat[e].status = "timeout" /\ Ask(e, chat[e].timed, TRUE)

ContinueIndefinitely(e) == chat[e].status = "timeout" /\ Ask(e, FALSE, TRUE)

CancelTimeout(e) ==
    /\ chat[e].status = "timeout"
    /\ ChatTo(e, [chat[e] EXCEPT !.status = "idle", !.timed = Timeout])
    /\ UNCHANGED exec

(* The agent has ended; its execution is over by the time this is seen, so    *)
(* that handleTimeout finds nothing to interrupt.                            *)
Result(e, status) ==
    /\ chat[e].status = "processing"
    /\ exec[e].stage = "ended" /\ exec[e].status = status
    /\ Change(e, NotExecuted)

HandleTimeout(e) ==
    /\ Result(e, "timeout")
    /\ ChatTo(e, [chat[e] EXCEPT !.status = "timeout"])

HandleError(e) ==
    /\ \E status \in {"failed", "interrupted"} : Result(e, status)
    /\ ChatTo(e, [chat[e] EXCEPT !.status = "error"])

(* The reply, in which a PRD may be found. *)
HandleReply(e, prdFound) ==
    /\ Result(e, "completed")
    /\ ChatTo(e, [chat[e] EXCEPT !.status = IF prdFound THEN "completed" ELSE "idle",
                                 !.timed = Timeout])
=============================================================================
