---------------------------- MODULE AgentProcess ----------------------------
(***************************************************************************)
(* An execution of an agent's command line (src/plugins/agents/base.ts,     *)
(* execute, completeExecution and interrupt): the command is looked up, the  *)
(* process started, and its end reported once its pipes are closed.  A       *)
(* timeout and an interruption send SIGTERM, and SIGKILL five seconds later. *)
(* What the process does on SIGTERM is its own affair; somebody else may     *)
(* kill it.  The output is left out.                                         *)
(***************************************************************************)
EXTENDS Naturals

CONSTANT Exec      \* who executes an agent, one execution at a time each

VARIABLE exec

(* stage: "exited" is a process that ended while a descendant may still hold  *)
(* its pipes; "ended" an execution whose promise is resolved.  cause: how the *)
(* process ended.  kill: a SIGKILL timer is armed.  term: SIGTERM was sent.   *)
Causes == {"none", "code0", "code1", "signal"}
Statuses == {"none", "completed", "failed", "interrupted", "timeout"}
Execution ==
    [stage : {"none", "starting", "running", "exited", "ended"},
     timed : BOOLEAN, timer : {"off", "armed", "fired"}, kill : BOOLEAN,
     term : BOOLEAN, cause : Causes, foreign : BOOLEAN,
     pendingInterrupt : BOOLEAN, interrupted : BOOLEAN, status : Statuses]

NotExecuted ==
    [stage |-> "none", timed |-> FALSE, timer |-> "off", kill |-> FALSE,
     term |-> FALSE, cause |-> "none", foreign |-> FALSE,
     pendingInterrupt |-> FALSE, interrupted |-> FALSE, status |-> "none"]

ExecTypeOK == exec \in [Exec -> Execution]

(* execute(): the handle is returned before the process exists. *)
Executed(timed) == [NotExecuted EXCEPT !.stage = "starting", !.timed = timed]

(* this.executions.has(executionId), and handle.isRunning(). *)
Tracked(x) == x.stage \in {"running", "exited"}
InProgress(x) == x.stage \in {"starting", "running", "exited"}

Change(e, x) == exec' = [exec EXCEPT ![e] = x]

(* As a bug: SIGTERM and nothing after it. *)
TerminatedOnce(x) == [x EXCEPT !.interrupted = TRUE, !.term = TRUE]

(* interrupt(executionId). *)
Terminated(x) == [x EXCEPT !.interrupted = TRUE, !.term = TRUE, !.kill = TRUE]

(* As a bug: an interruption that came before the process is forgotten. *)
StartedAnyway(x) ==
    [x EXCEPT !.stage = "running", !.timer = IF x.timed THEN "armed" ELSE "off"]

(* startProcess, with the interruption that was asked for meanwhile. *)
Started(x) ==
    IF x.pendingInterrupt THEN Terminated(StartedAnyway(x)) ELSE StartedAnyway(x)

StartProcess(e) ==
    /\ exec[e].stage = "starting"
    /\ Change(e, Started(exec[e]))

(* completeExecution: the timers find nothing to kill from now on. *)
EndedAs(x, status) == [x EXCEPT !.stage = "ended", !.status = status, !.kill = FALSE,
                                !.timer = IF @ = "armed" THEN "off" ELSE @]

(* The command is not found, the sandbox fails, or spawn throws. *)
CannotStart(e) ==
    /\ exec[e].stage = "starting"
    /\ Change(e, EndedAs(exec[e], "failed"))

(* The process reports an error and is completed without its close. *)
ProcessError(e) ==
    /\ exec[e].stage = "running"
    /\ Change(e, EndedAs(exec[e], "failed"))

(* The process ends by itself, or on SIGTERM as it pleases, *)
Exits(e, cause) ==
    /\ exec[e].stage = "running"
    /\ cause = "signal" => exec[e].term
    /\ Change(e, [exec[e] EXCEPT !.stage = "exited", !.cause = cause])

(* or is killed by somebody else, the kernel out of memory for one. *)
KilledByOther(e) ==
    /\ exec[e].stage = "running"
    /\ Change(e, [exec[e] EXCEPT !.stage = "exited", !.cause = "signal", !.foreign = TRUE])

TimeoutFires(e) ==
    /\ Tracked(exec[e]) /\ exec[e].timer = "armed"
    /\ Change(e, [exec[e] EXCEPT !.timer = "fired", !.term = TRUE, !.kill = TRUE])

(* Five seconds later: nothing survives SIGKILL. *)
KillFires(e) ==
    /\ exec[e].stage = "running" /\ exec[e].kill
    /\ Change(e, [exec[e] EXCEPT !.stage = "exited", !.cause = "signal", !.kill = FALSE])

(* As a bug: a timed execution that fails has timed out. *)
CloseStatusByCode(x) ==
    CASE x.interrupted -> "interrupted"
      [] ~x.interrupted /\ x.cause = "code0" -> "completed"
      [] OTHER -> IF x.timed THEN "timeout" ELSE "failed"

(* The 'close' event.  execution.timeoutId is set from the start of a timed   *)
(* execution, whether its timeout has fired or not.                          *)
CloseStatus(x) ==
    CASE x.interrupted -> "interrupted"
      [] ~x.interrupted /\ x.cause = "signal" -> IF x.timed THEN "timeout" ELSE "interrupted"
      [] ~x.interrupted /\ x.cause = "code0" -> "completed"
      [] OTHER -> "failed"

Closes(e) ==
    /\ exec[e].stage = "exited"
    /\ Change(e, EndedAs(exec[e], CloseStatus(exec[e])))

(* handle.interrupt(). *)
Interrupt(e) ==
    /\ InProgress(exec[e])
    /\ Change(e, IF Tracked(exec[e]) THEN Terminated(exec[e])
                                     ELSE [exec[e] EXCEPT !.pendingInterrupt = TRUE])

(* What the runtime and the kernel do in the end. *)
ProcessStep(e) == StartProcess(e) \/ TimeoutFires(e) \/ KillFires(e) \/ Closes(e)

ExecNext(e) ==
    \/ ProcessStep(e) \/ CannotStart(e) \/ ProcessError(e) \/ KilledByOther(e)
    \/ \E cause \in {"code0", "code1", "signal"} : Exits(e, cause)

-----------------------------------------------------------------------------
(* Properties.                                                              *)

(* An interruption is never lost, though it comes before the process exists:  *)
(* the execution ends as interrupted, or it has failed to run.               *)
InterruptIsReported ==
    \A e \in Exec : exec[e].stage = "ended" /\ (exec[e].pendingInterrupt \/ exec[e].interrupted)
                        => exec[e].status \in {"interrupted", "failed"}

(* A timeout that is reported was one, or somebody else killed the process;   *)
(* what the user asked for is not reported as one.                           *)
TimeoutIsReal ==
    \A e \in Exec : exec[e].status = "timeout"
                        => /\ exec[e].timer = "fired" \/ exec[e].foreign
                           /\ ~exec[e].interrupted /\ exec[e].timed

(* An execution that is interrupted or has timed out ends, whatever the       *)
(* process makes of SIGTERM.                                                 *)
ToldToStop(x) == InProgress(x) /\ (x.pendingInterrupt \/ x.interrupted \/ x.timer = "fired")

StoppedOnesEnd == \A e \in Exec : ToldToStop(exec[e]) ~> ~InProgress(exec[e])
=============================================================================
