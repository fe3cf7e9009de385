----------------------- MODULE ExecutionEngine_proofs -----------------------
(***************************************************************************)
(* What ExecutionEngine guarantees for any tasks, agents, fallbacks, limits, *)
(* strategy and user calls.                                                  *)
(*                                                                         *)
(* The inductive invariant says, beside the types, where the loop may be     *)
(* when something else holds: no finally block is outstanding at the head of *)
(* the loop, an agent runs at one await only, the task in hand has not been  *)
(* given up, and a worker that gave its task up knows it.                    *)
(***************************************************************************)
EXTENDS ExecutionEngine, FiniteSetTheorems, WellFoundedInduction, TLAPS

(* Where no iteration is in progress.                                       *)
BetweenIterations ==
    {"idle", "head", "paused", "recovering", "limits", "select", "record"}

(* The agent runs at the await of its result, and nowhere else.             *)
AgentOnlyAtItsAwait == running # NoAgent => pc = "agent"

(* The loop goes on only when every superseded finally block has run.       *)
CleanedUp == pc \in BetweenIterations \cup {"retryDelay"} => cleanups = 0

PausedAtPoll == status = "paused" => pc = "paused"

(* The task in hand is a task, and it has not been given up.                *)
TaskInHand == pc \notin BetweenIterations => task \in Task \ skipped

(* A worker that skipped its task has marked it as processed.               *)
SkipIsProcessed == Worker /\ skipped # {} => processed

(* The recovery test is run on an agent.                                    *)
RecoveringPrimary == pc = "recovering" => candidate \in Agent

Control ==
    /\ AgentOnlyAtItsAwait /\ CleanedUp /\ PausedAtPoll
    /\ TaskInHand /\ SkipIsProcessed /\ RecoveringPrimary

IInv == TypeOK /\ Control

-----------------------------------------------------------------------------
(* getNextFallbackAgent returns an agent that is not excluded, or nothing.  *)
LEMMA NextFallbackType ==
    ASSUME TypeOK, NEW excluded
    PROVE  /\ NextFallback(excluded) \in Agent \cup {NoAgent}
           /\ NextFallback(excluded) # NoAgent => NextFallback(excluded) \notin excluded
<1>. DEFINE left == {i \in DOMAIN Fallbacks[primary] : Fallbacks[primary][i] \notin excluded}
            first == CHOOSE i \in left : \A j \in left : i <= j
<1>1. Fallbacks[primary] \in Seq(Agent)
  BY EngineAssumption DEF TypeOK, AgentTypeOK
<1>2. CASE left = {}
  BY <1>2 DEF NextFallback
<1>3. CASE left # {}
  <2>1. left \subseteq Nat
    BY <1>1
  <2>2. PICK n \in left : \A m \in left : n <= m
    <3>1. PICK n \in left : \A m \in left : <<m, n>> \notin OpToRel(<, Nat)
      BY <1>3, <2>1, WFMin, NatLessThanWellFounded
    <3>2. \A m \in left : ~(m < n)
      BY <2>1, <3>1 DEF OpToRel
    <3>. QED
      BY <2>1, <3>2
  <2>3. first \in left
    BY <2>2
  <2>4. NextFallback(excluded) = Fallbacks[primary][first]
    BY <1>3, Zenon DEF NextFallback
  <2>5. first \in DOMAIN Fallbacks[primary] /\ Fallbacks[primary][first] \notin excluded
    BY <2>3
  <2>6. \A q \in Seq(Agent) : \A i \in DOMAIN q : q[i] \in Agent
    OBVIOUS
  <2>7. Fallbacks[primary][first] \in Agent
    <3>. HIDE DEF first
    <3>. QED
      BY <1>1, <2>5, <2>6
  <2>. QED
    BY <2>4, <2>5, <2>7
<1>. QED
  BY <1>2, <1>3

(* Counting one retry more below the limit, and counting from nought again. *)
LEMMA CountOneMore ==
    ASSUME NEW S, NEW n \in Nat, NEW f \in [S -> 0..n], NEW t \in S, f[t] < n
    PROVE  [f EXCEPT ![t] = @ + 1] \in [S -> 0..n]
OBVIOUS

(* A counter set back to zero is within its bound.                           *)
LEMMA CountAgain ==
    ASSUME NEW S, NEW n \in Nat, NEW f \in [S -> 0..n], NEW t \in S
    PROVE  [f EXCEPT ![t] = 0] \in [S -> 0..n]
OBVIOUS

-----------------------------------------------------------------------------
(* The invariant holds at the start.                                        *)
LEMMA InitInv == Init => IInv
<1>. SUFFICES ASSUME Init PROVE IInv
  OBVIOUS
<1>. USE EngineAssumption DEF Init
<1>1. CtlTypeOK
  BY DEF CtlTypeOK
<1>2. FlagTypeOK
  BY Zenon DEF FlagTypeOK
<1>3. LoopTypeOK
  BY DEF LoopTypeOK, NoResult, Result
<1>4. RunTypeOK
  BY DEF RunTypeOK
<1>5. AgentTypeOK
  BY DEF AgentTypeOK
<1>6. TaskTypeOK
  BY DEF TaskTypeOK
<1>7. CountTypeOK
  BY DEF CountTypeOK
<1>8. Control
  BY DEF Worker, Control, AgentOnlyAtItsAwait, CleanedUp, PausedAtPoll,
     TaskInHand, SkipIsProcessed, RecoveringPrimary, BetweenIterations
<1>. QED
  BY <1>1, <1>2, <1>3, <1>4, <1>5, <1>6, <1>7, <1>8 DEF IInv, TypeOK

(* Every step preserves it: one step of the proof per action, with a step    *)
(* for each conjunct the action disturbs and one for those it leaves alone.  *)
LEMMA NextInv == IInv /\ [Next]_vars => IInv'
<1>. SUFFICES ASSUME IInv, [Next]_vars PROVE IInv'
  OBVIOUS
<1>. USE DEF IInv, TypeOK, loopVars, runVars, agentVars, taskVars, countVars,
   ctlVars, iterVars, configVars, resetVars, Goto, Worker
<1>1. CASE Start
  <2>1. CtlTypeOK'
    BY <1>1 DEF CtlTypeOK, Start
  <2>2. FlagTypeOK'
    BY <1>1, Zenon DEF FlagTypeOK, Start
  <2>3. LoopTypeOK'
    BY <1>1 DEF LoopTypeOK, Start
  <2>4. Control'
    BY <1>1 DEF Control, AgentOnlyAtItsAwait, CleanedUp, PausedAtPoll,
       TaskInHand, SkipIsProcessed, RecoveringPrimary, BetweenIterations,
       Start
  <2>5. RunTypeOK' /\ AgentTypeOK' /\ TaskTypeOK' /\ CountTypeOK'
    BY <1>1 DEF RunTypeOK, AgentTypeOK, TaskTypeOK, CountTypeOK, Start
  <2>. QED
    BY <2>1, <2>2, <2>3, <2>4, <2>5
<1>2. CASE LoopHead
  <2>1. CtlTypeOK'
    BY <1>2 DEF CtlTypeOK, LoopHead, EndLoop, ContinueIteration
  <2>2. LoopTypeOK'
    BY <1>2 DEF LoopTypeOK, LoopHead, EndLoop, ContinueIteration
  <2>3. AgentTypeOK'
    BY <1>2 DEF AgentTypeOK, LoopHead, EndLoop, ContinueIteration
  <2>4. Control'
    BY <1>2 DEF Control, AgentOnlyAtItsAwait, CleanedUp, PausedAtPoll,
       TaskInHand, SkipIsProcessed, RecoveringPrimary, BetweenIterations,
       AgentTypeOK, LoopHead, EndLoop, ContinueIteration
  <2>5. FlagTypeOK' /\ RunTypeOK' /\ TaskTypeOK' /\ CountTypeOK'
    BY <1>2 DEF FlagTypeOK, RunTypeOK, TaskTypeOK, CountTypeOK, LoopHead,
       EndLoop, ContinueIteration
  <2>. QED
    BY <2>1, <2>2, <2>3, <2>4, <2>5
<1>3. CASE WakeFromPause
  <2>1. CtlTypeOK'
    BY <1>3 DEF CtlTypeOK, WakeFromPause, EndLoop, ContinueIteration
  <2>2. LoopTypeOK'
    BY <1>3 DEF LoopTypeOK, WakeFromPause, EndLoop, ContinueIteration
  <2>3. AgentTypeOK'
    BY <1>3 DEF AgentTypeOK, WakeFromPause, EndLoop, ContinueIteration
  <2>4. Control'
    BY <1>3 DEF Control, AgentOnlyAtItsAwait, CleanedUp, PausedAtPoll,
       TaskInHand, SkipIsProcessed, RecoveringPrimary, BetweenIterations,
       AgentTypeOK, WakeFromPause, EndLoop, ContinueIteration
  <2>5. FlagTypeOK' /\ RunTypeOK' /\ TaskTypeOK' /\ CountTypeOK'
    BY <1>3 DEF FlagTypeOK, RunTypeOK, TaskTypeOK, CountTypeOK, WakeFromPause,
       EndLoop, ContinueIteration
  <2>. QED
    BY <2>1, <2>2, <2>3, <2>4, <2>5
<1>4. CASE AttemptPrimaryAgentRecovery
  <2>1. LoopTypeOK'
    BY <1>4 DEF LoopTypeOK, AttemptPrimaryAgentRecovery, SwitchAgent
  <2>2. AgentTypeOK'
    BY <1>4 DEF AgentTypeOK, Control, RecoveringPrimary,
       AttemptPrimaryAgentRecovery, SwitchAgent
  <2>3. Control'
    BY <1>4 DEF Control, AgentOnlyAtItsAwait, CleanedUp, PausedAtPoll,
       TaskInHand, SkipIsProcessed, RecoveringPrimary, BetweenIterations,
       AttemptPrimaryAgentRecovery, SwitchAgent
  <2>4. CtlTypeOK' /\ FlagTypeOK' /\ RunTypeOK' /\ TaskTypeOK' /\ CountTypeOK'
    BY <1>4 DEF CtlTypeOK, FlagTypeOK, RunTypeOK, TaskTypeOK, CountTypeOK,
       AttemptPrimaryAgentRecovery, SwitchAgent
  <2>. QED
    BY <2>1, <2>2, <2>3, <2>4
<1>5. CASE CheckMaxIterations
  <2>1. CtlTypeOK'
    BY <1>5 DEF CtlTypeOK, CheckMaxIterations, EndLoop
  <2>2. LoopTypeOK'
    BY <1>5 DEF LoopTypeOK, CheckMaxIterations, EndLoop
  <2>3. Control'
    BY <1>5 DEF Control, AgentOnlyAtItsAwait, CleanedUp, PausedAtPoll,
       TaskInHand, SkipIsProcessed, RecoveringPrimary, BetweenIterations,
       CheckMaxIterations, EndLoop
  <2>4. FlagTypeOK' /\ RunTypeOK' /\ AgentTypeOK' /\ TaskTypeOK' /\ CountTypeOK'
    BY <1>5 DEF FlagTypeOK, RunTypeOK, AgentTypeOK, TaskTypeOK, CountTypeOK,
       CheckMaxIterations, EndLoop
  <2>. QED
    BY <2>1, <2>2, <2>3, <2>4
<1>6. CASE SelectTask
  <2>1. CtlTypeOK'
    BY <1>6 DEF CtlTypeOK, SelectTask, EndLoop, BeginIteration, Available
  <2>2. LoopTypeOK'
    BY <1>6, EngineAssumption DEF LoopTypeOK, TaskTypeOK, SelectTask, EndLoop,
       BeginIteration, Available
  <2>3. RunTypeOK'
    BY <1>6, EngineAssumption DEF RunTypeOK, TaskTypeOK, SelectTask, EndLoop,
       BeginIteration, Available
  <2>4. CountTypeOK'
    BY <1>6 DEF CountTypeOK, SelectTask, EndLoop, BeginIteration, Available
  <2>5. Control'
    BY <1>6, EngineAssumption DEF Control, AgentOnlyAtItsAwait, CleanedUp,
       PausedAtPoll, TaskInHand, SkipIsProcessed, RecoveringPrimary,
       BetweenIterations, TaskTypeOK, SelectTask, EndLoop, BeginIteration,
       Available
  <2>6. FlagTypeOK' /\ AgentTypeOK' /\ TaskTypeOK'
    BY <1>6 DEF FlagTypeOK, AgentTypeOK, TaskTypeOK, SelectTask, EndLoop,
       BeginIteration, Available
  <2>. QED
    BY <2>1, <2>2, <2>3, <2>4, <2>5, <2>6
<1>7. CASE ActivateTask
  <2>1. CtlTypeOK'
    BY <1>7 DEF CtlTypeOK, ActivateTask, EndLoop, Reject
  <2>2. LoopTypeOK'
    BY <1>7 DEF LoopTypeOK, ActivateTask, EndLoop, Reject
  <2>3. TaskTypeOK'
    BY <1>7 DEF TaskTypeOK, ActivateTask, EndLoop, Reject
  <2>4. Control'
    BY <1>7 DEF Control, AgentOnlyAtItsAwait, CleanedUp, PausedAtPoll,
       TaskInHand, SkipIsProcessed, RecoveringPrimary, BetweenIterations,
       ActivateTask, EndLoop, Reject
  <2>5. FlagTypeOK' /\ RunTypeOK' /\ AgentTypeOK' /\ CountTypeOK'
    BY <1>7 DEF FlagTypeOK, RunTypeOK, AgentTypeOK, CountTypeOK, ActivateTask,
       EndLoop, Reject
  <2>. QED
    BY <2>1, <2>2, <2>3, <2>4, <2>5
<1>8. CASE ExecuteAgent
  <2>1. FlagTypeOK'
    BY <1>8, Zenon DEF FlagTypeOK, ExecuteAgent, Reject, EndLoop
  <2>2. LoopTypeOK'
    BY <1>8 DEF LoopTypeOK, ExecuteAgent, Reject, EndLoop
  <2>3. RunTypeOK'
    BY <1>8 DEF RunTypeOK, AgentTypeOK, ExecuteAgent, Reject, EndLoop
  <2>4. Control'
    BY <1>8 DEF Control, AgentOnlyAtItsAwait, CleanedUp, PausedAtPoll,
       TaskInHand, SkipIsProcessed, RecoveringPrimary, BetweenIterations,
       ExecuteAgent, Reject, EndLoop
  <2>5. CtlTypeOK' /\ AgentTypeOK' /\ TaskTypeOK' /\ CountTypeOK'
    BY <1>8 DEF CtlTypeOK, AgentTypeOK, TaskTypeOK, CountTypeOK, ExecuteAgent, Reject, EndLoop
  <2>. QED
    BY <2>1, <2>2, <2>3, <2>4, <2>5
<1>9. CASE AgentFinishes
  <2>1. FlagTypeOK'
    BY <1>9, Zenon DEF FlagTypeOK, AgentFinishes, AgentResult, LimitReports,
       Result
  <2>2. LoopTypeOK'
    <3>1. PICK o \in Outcomes, l \in LimitReports :
             AgentResult([status |-> o.status, complete |-> o.complete, limited |-> l])
      BY <1>9 DEF AgentFinishes
    <3>2. /\ o.status \in {"completed", "failed", "interrupted"}
          /\ o.complete \in BOOLEAN /\ l \in BOOLEAN
      BY EngineAssumption DEF LimitReports
    <3>. QED
      BY <3>1, <3>2 DEF LoopTypeOK, AgentResult, Result
  <2>3. RunTypeOK'
    BY <1>9 DEF RunTypeOK, AgentFinishes, AgentResult, LimitReports, Result
  <2>4. Control'
    BY <1>9 DEF Control, AgentOnlyAtItsAwait, CleanedUp, PausedAtPoll,
       TaskInHand, SkipIsProcessed, RecoveringPrimary, BetweenIterations,
       AgentFinishes, AgentResult, LimitReports, Result
  <2>5. CtlTypeOK' /\ AgentTypeOK' /\ TaskTypeOK' /\ CountTypeOK'
    BY <1>9 DEF CtlTypeOK, AgentTypeOK, TaskTypeOK, CountTypeOK,
       AgentFinishes, AgentResult, LimitReports, Result
  <2>. QED
    BY <2>1, <2>2, <2>3, <2>4, <2>5
<1>10. CASE AgentInterrupted
  <2>1. FlagTypeOK'
    BY <1>10, Zenon DEF FlagTypeOK, AgentInterrupted, AgentResult,
       LimitReports, Result
  <2>2. LoopTypeOK'
    <3>1. PICK o \in Outcomes, l \in LimitReports :
             AgentResult([status |-> "interrupted", complete |-> o.complete,
                          limited |-> l])
      BY <1>10 DEF AgentInterrupted
    <3>2. o.complete \in BOOLEAN /\ l \in BOOLEAN
      BY EngineAssumption DEF LimitReports
    <3>. QED
      BY <3>1, <3>2 DEF LoopTypeOK, AgentResult, Result
  <2>3. RunTypeOK'
    BY <1>10 DEF RunTypeOK, AgentInterrupted, AgentResult, LimitReports,
       Result
  <2>4. Control'
    BY <1>10 DEF Control, AgentOnlyAtItsAwait, CleanedUp, PausedAtPoll,
       TaskInHand, SkipIsProcessed, RecoveringPrimary, BetweenIterations,
       AgentInterrupted, AgentResult, LimitReports, Result
  <2>5. CtlTypeOK' /\ AgentTypeOK' /\ TaskTypeOK' /\ CountTypeOK'
    BY <1>10 DEF CtlTypeOK, AgentTypeOK, TaskTypeOK, CountTypeOK,
       AgentInterrupted, AgentResult, LimitReports, Result
  <2>. QED
    BY <2>1, <2>2, <2>3, <2>4, <2>5
<1>11. CASE EvaluateResult
  <2>1. LoopTypeOK'
    BY <1>11 DEF LoopTypeOK, EvaluateResult, Result, GiveUpAgent,
       RateLimitRetriesLeft, CountRateLimitRetry
  <2>2. AgentTypeOK'
    BY <1>11, NextFallbackType DEF AgentTypeOK, EvaluateResult, Result,
       GiveUpAgent, RateLimitRetriesLeft, CountRateLimitRetry
  <2>3. CountTypeOK'
    <3>1. task \in Task
      BY <1>11 DEF EvaluateResult, Control, TaskInHand, BetweenIterations
    <3>2. CASE CountRateLimitRetry /\ RateLimitRetriesLeft
      BY <3>1, <3>2, <1>11, EngineAssumption, CountOneMore
         DEF CountTypeOK, EvaluateResult, CountRateLimitRetry, RateLimitRetriesLeft
    <3>3. CASE rlRetries' = [rlRetries EXCEPT ![task] = 0]
      BY <3>1, <3>3, <1>11, EngineAssumption, CountAgain DEF CountTypeOK, EvaluateResult
    <3>. QED
      BY <1>11, <3>2, <3>3 DEF EvaluateResult
  <2>4. Control'
    BY <1>11 DEF Control, AgentOnlyAtItsAwait, CleanedUp, PausedAtPoll,
       TaskInHand, SkipIsProcessed, RecoveringPrimary, BetweenIterations,
       EvaluateResult, Result, GiveUpAgent, RateLimitRetriesLeft,
       CountRateLimitRetry
  <2>5. CtlTypeOK' /\ FlagTypeOK' /\ RunTypeOK' /\ TaskTypeOK'
    BY <1>11 DEF CtlTypeOK, FlagTypeOK, RunTypeOK, TaskTypeOK, EvaluateResult,
       Result, GiveUpAgent, RateLimitRetriesLeft, CountRateLimitRetry
  <2>. QED
    BY <2>1, <2>2, <2>3, <2>4, <2>5
<1>12. CASE BackoffElapses
  <2>1. LoopTypeOK'
    BY <1>12 DEF LoopTypeOK, BackoffElapses, GiveUpAgent, RestartIteration,
       BeginIteration
  <2>2. RunTypeOK'
    BY <1>12 DEF RunTypeOK, Control, TaskInHand, BetweenIterations,
       LoopTypeOK, BackoffElapses, GiveUpAgent, RestartIteration,
       BeginIteration
  <2>3. AgentTypeOK'
    BY <1>12, NextFallbackType DEF AgentTypeOK, BackoffElapses, GiveUpAgent,
       RestartIteration, BeginIteration
  <2>4. Control'
    BY <1>12 DEF Control, AgentOnlyAtItsAwait, CleanedUp, PausedAtPoll,
       TaskInHand, SkipIsProcessed, RecoveringPrimary, BetweenIterations,
       RunTypeOK, BackoffElapses, GiveUpAgent, RestartIteration,
       BeginIteration
  <2>5. CtlTypeOK' /\ FlagTypeOK' /\ TaskTypeOK' /\ CountTypeOK'
    BY <1>12 DEF CtlTypeOK, FlagTypeOK, TaskTypeOK, CountTypeOK,
       BackoffElapses, GiveUpAgent, RestartIteration, BeginIteration
  <2>. QED
    BY <2>1, <2>2, <2>3, <2>4, <2>5
<1>13. CASE TryFallbackAgent
  <2>1. CtlTypeOK'
    BY <1>13 DEF CtlTypeOK, TryFallbackAgent, AllAgentsLimited,
       FallbackAvailable, FallbackUnavailable, GiveUpAgent, RestartIteration,
       BeginIteration, SwitchAgent, Pausing, Result, NoResult
  <2>2. LoopTypeOK'
    BY <1>13 DEF LoopTypeOK, TryFallbackAgent, AllAgentsLimited,
       FallbackAvailable, FallbackUnavailable, GiveUpAgent, RestartIteration,
       BeginIteration, SwitchAgent, Pausing, Result, NoResult
  <2>3. RunTypeOK'
    BY <1>13 DEF RunTypeOK, Control, TaskInHand, BetweenIterations,
       LoopTypeOK, TryFallbackAgent, AllAgentsLimited, FallbackAvailable,
       FallbackUnavailable, GiveUpAgent, RestartIteration, BeginIteration,
       SwitchAgent, Pausing, Result, NoResult
  <2>4. AgentTypeOK'
    <3>1. CASE AllAgentsLimited
      BY <3>1 DEF AgentTypeOK, AllAgentsLimited
    <3>2. CASE FallbackAvailable
      BY <3>2 DEF AgentTypeOK, FallbackAvailable, SwitchAgent
    <3>3. CASE FallbackUnavailable
      BY <3>3, EngineAssumption, NextFallbackType
         DEF AgentTypeOK, FallbackUnavailable, GiveUpAgent
    <3>. QED
      BY <1>13, <3>1, <3>2, <3>3 DEF TryFallbackAgent
  <2>5. CountTypeOK'
    <3>1. task \in Task
      BY <1>13 DEF TryFallbackAgent, Control, TaskInHand, BetweenIterations
    <3>2. \/ rlRetries' = [rlRetries EXCEPT ![task] = 0]
          \/ rlRetries' = rlRetries
      BY <1>13 DEF TryFallbackAgent, AllAgentsLimited, FallbackAvailable, FallbackUnavailable
    <3>3. iter' = iter /\ maxIter' = maxIter /\ retries' = retries
      BY <1>13 DEF TryFallbackAgent
    <3>4. rlRetries \in [Task -> 0..RateLimitRetries] /\ RateLimitRetries \in Nat
      BY EngineAssumption DEF CountTypeOK
    <3>5. rlRetries' \in [Task -> 0..RateLimitRetries]
      <4>1. [rlRetries EXCEPT ![task] = 0] \in [Task -> 0..RateLimitRetries]
        BY <3>1, <3>4, CountAgain
      <4>. QED
        BY <3>2, <3>4, <4>1
    <3>. QED
      BY <3>3, <3>5 DEF CountTypeOK
  <2>6. Control'
    BY <1>13 DEF Control, AgentOnlyAtItsAwait, CleanedUp, PausedAtPoll,
       TaskInHand, SkipIsProcessed, RecoveringPrimary, BetweenIterations,
       RunTypeOK, TryFallbackAgent, AllAgentsLimited, FallbackAvailable,
       FallbackUnavailable, GiveUpAgent, RestartIteration, BeginIteration,
       SwitchAgent, Pausing, Result, NoResult
  <2>7. FlagTypeOK' /\ TaskTypeOK'
    BY <1>13 DEF FlagTypeOK, TaskTypeOK, TryFallbackAgent, AllAgentsLimited,
       FallbackAvailable, FallbackUnavailable, GiveUpAgent, RestartIteration,
       BeginIteration, SwitchAgent, Pausing, Result, NoResult
  <2>. QED
    BY <2>1, <2>2, <2>3, <2>4, <2>5, <2>6, <2>7
<1>14. CASE CompleteTask
  <2>1. LoopTypeOK'
    BY <1>14 DEF LoopTypeOK, CompleteTask, TrackerAfterCompletion
  <2>2. AgentTypeOK'
    BY <1>14 DEF AgentTypeOK, CompleteTask, TrackerAfterCompletion
  <2>3. TaskTypeOK'
    BY <1>14 DEF TaskTypeOK, CompleteTask, TrackerAfterCompletion
  <2>4. Control'
    BY <1>14 DEF Control, AgentOnlyAtItsAwait, CleanedUp, PausedAtPoll,
       TaskInHand, SkipIsProcessed, RecoveringPrimary, BetweenIterations,
       CompleteTask, TrackerAfterCompletion
  <2>5. CtlTypeOK' /\ FlagTypeOK' /\ RunTypeOK' /\ CountTypeOK'
    BY <1>14 DEF CtlTypeOK, FlagTypeOK, RunTypeOK, CountTypeOK, CompleteTask,
       TrackerAfterCompletion
  <2>. QED
    BY <2>1, <2>2, <2>3, <2>4, <2>5
<1>15. CASE SaveIterationLog
  <2>1. LoopTypeOK'
    BY <1>15 DEF LoopTypeOK, SaveIterationLog
  <2>2. Control'
    BY <1>15 DEF Control, AgentOnlyAtItsAwait, CleanedUp, PausedAtPoll,
       TaskInHand, SkipIsProcessed, RecoveringPrimary, BetweenIterations,
       SaveIterationLog
  <2>3. CtlTypeOK' /\ FlagTypeOK' /\ RunTypeOK' /\ AgentTypeOK' /\ TaskTypeOK' /\ CountTypeOK'
    BY <1>15 DEF CtlTypeOK, FlagTypeOK, RunTypeOK, AgentTypeOK, TaskTypeOK,
       CountTypeOK, SaveIterationLog
  <2>. QED
    BY <2>1, <2>2, <2>3
<1>16. CASE IterationThrows
  <2>1. LoopTypeOK'
    BY <1>16 DEF LoopTypeOK, IterationThrows, Result, NoResult
  <2>2. Control'
    BY <1>16 DEF Control, AgentOnlyAtItsAwait, CleanedUp, PausedAtPoll,
       TaskInHand, SkipIsProcessed, RecoveringPrimary, BetweenIterations,
       IterationThrows, Result, NoResult
  <2>3. CtlTypeOK' /\ FlagTypeOK' /\ RunTypeOK' /\ AgentTypeOK' /\ TaskTypeOK' /\ CountTypeOK'
    BY <1>16 DEF CtlTypeOK, FlagTypeOK, RunTypeOK, AgentTypeOK, TaskTypeOK,
       CountTypeOK, IterationThrows, Result, NoResult
  <2>. QED
    BY <2>1, <2>2, <2>3
<1>17. CASE FinishIteration
  <2>1. FlagTypeOK'
    BY <1>17, Zenon DEF FlagTypeOK, FinishIteration, Finally, ApplySwap
  <2>2. LoopTypeOK'
    BY <1>17 DEF LoopTypeOK, FinishIteration, Finally, ApplySwap
  <2>3. RunTypeOK'
    BY <1>17 DEF RunTypeOK, FinishIteration, Finally, ApplySwap
  <2>4. AgentTypeOK'
    BY <1>17 DEF AgentTypeOK, FinishIteration, Finally, ApplySwap
  <2>5. Control'
    BY <1>17 DEF Control, AgentOnlyAtItsAwait, CleanedUp, PausedAtPoll,
       TaskInHand, SkipIsProcessed, RecoveringPrimary, BetweenIterations,
       FinishIteration, Finally, ApplySwap
  <2>6. CtlTypeOK' /\ TaskTypeOK' /\ CountTypeOK'
    BY <1>17 DEF CtlTypeOK, TaskTypeOK, CountTypeOK, FinishIteration, Finally,
       ApplySwap
  <2>. QED
    BY <2>1, <2>2, <2>3, <2>4, <2>5, <2>6
<1>18. CASE SupersededCleanup
  <2>1. FlagTypeOK'
    BY <1>18, Zenon DEF FlagTypeOK, SupersededCleanup, Finally, ApplySwap
  <2>2. RunTypeOK'
    BY <1>18 DEF RunTypeOK, SupersededCleanup, Finally, ApplySwap
  <2>3. AgentTypeOK'
    BY <1>18 DEF AgentTypeOK, SupersededCleanup, Finally, ApplySwap
  <2>4. Control'
    BY <1>18 DEF Control, AgentOnlyAtItsAwait, CleanedUp, PausedAtPoll,
       TaskInHand, SkipIsProcessed, RecoveringPrimary, BetweenIterations,
       RunTypeOK, SupersededCleanup, Finally, ApplySwap
  <2>5. CtlTypeOK' /\ LoopTypeOK' /\ TaskTypeOK' /\ CountTypeOK'
    BY <1>18 DEF CtlTypeOK, LoopTypeOK, TaskTypeOK, CountTypeOK,
       SupersededCleanup, Finally, ApplySwap
  <2>. QED
    BY <2>1, <2>2, <2>3, <2>4, <2>5
<1>19. CASE HandleResult
  <2>1. CtlTypeOK'
    BY <1>19 DEF CtlTypeOK, HandleResult, EndLoop, HandleFailure, Skip, Result
  <2>2. FlagTypeOK'
    BY <1>19, Zenon DEF FlagTypeOK, HandleResult, EndLoop, HandleFailure,
       Skip, Result
  <2>3. LoopTypeOK'
    BY <1>19 DEF LoopTypeOK, HandleResult, EndLoop, HandleFailure, Skip,
       Result
  <2>4. TaskTypeOK'
    BY <1>19 DEF TaskTypeOK, Control, TaskInHand, BetweenIterations,
       HandleResult, EndLoop, HandleFailure, Skip, Result
  <2>5. CountTypeOK'
    <3>1. task \in Task
      BY <1>19 DEF HandleResult, Control, TaskInHand, BetweenIterations
    <3>2. iter' = iter /\ maxIter' = maxIter /\ rlRetries' = rlRetries
      BY <1>19 DEF HandleResult, EndLoop
    <3>3. \/ retries' = retries
          \/ retries' = [retries EXCEPT ![task] = 0]
          \/ retries[task] < MaxRetries /\ retries' = [retries EXCEPT ![task] = @ + 1]
      BY <1>19 DEF HandleResult, HandleFailure
    <3>. QED
      BY <3>1, <3>2, <3>3, EngineAssumption, CountOneMore, CountAgain DEF CountTypeOK
  <2>6. Control'
    BY <1>19 DEF Control, AgentOnlyAtItsAwait, CleanedUp, PausedAtPoll,
       TaskInHand, SkipIsProcessed, RecoveringPrimary, BetweenIterations,
       LoopTypeOK, HandleResult, EndLoop, HandleFailure, Skip, Result
  <2>7. RunTypeOK' /\ AgentTypeOK'
    BY <1>19 DEF RunTypeOK, AgentTypeOK, HandleResult, EndLoop, HandleFailure,
       Skip, Result
  <2>. QED
    BY <2>1, <2>2, <2>3, <2>4, <2>5, <2>6, <2>7
<1>20. CASE RetryDelayElapses
  <2>1. LoopTypeOK'
    BY <1>20 DEF LoopTypeOK, RetryDelayElapses, BeginIteration
  <2>2. RunTypeOK'
    BY <1>20 DEF RunTypeOK, Control, TaskInHand, BetweenIterations,
       LoopTypeOK, RetryDelayElapses, BeginIteration
  <2>3. CountTypeOK'
    BY <1>20 DEF CountTypeOK, RetryDelayElapses, BeginIteration
  <2>4. Control'
    BY <1>20 DEF Control, AgentOnlyAtItsAwait, CleanedUp, PausedAtPoll,
       TaskInHand, SkipIsProcessed, RecoveringPrimary, BetweenIterations,
       RetryDelayElapses, BeginIteration
  <2>5. CtlTypeOK' /\ FlagTypeOK' /\ AgentTypeOK' /\ TaskTypeOK'
    BY <1>20 DEF CtlTypeOK, FlagTypeOK, AgentTypeOK, TaskTypeOK,
       RetryDelayElapses, BeginIteration
  <2>. QED
    BY <2>1, <2>2, <2>3, <2>4, <2>5
<1>21. CASE RecordIteration
  <2>1. LoopTypeOK'
    BY <1>21 DEF LoopTypeOK, RecordIteration, Reject, EndLoop
  <2>2. Control'
    BY <1>21 DEF Control, AgentOnlyAtItsAwait, CleanedUp, PausedAtPoll,
       TaskInHand, SkipIsProcessed, RecoveringPrimary, BetweenIterations,
       RecordIteration, Reject, EndLoop
  <2>3. CtlTypeOK' /\ FlagTypeOK' /\ RunTypeOK' /\ AgentTypeOK' /\ TaskTypeOK' /\ CountTypeOK'
    BY <1>21 DEF CtlTypeOK, FlagTypeOK, RunTypeOK, AgentTypeOK, TaskTypeOK,
       CountTypeOK, RecordIteration, Reject, EndLoop
  <2>. QED
    BY <2>1, <2>2, <2>3
<1>22. CASE Stop
  <2>1. CtlTypeOK'
    BY <1>22 DEF CtlTypeOK, Stop, StopEngine, unchangedByCalls
  <2>2. FlagTypeOK'
    BY <1>22, Zenon DEF FlagTypeOK, Stop, StopEngine, unchangedByCalls
  <2>3. Control'
    BY <1>22 DEF Control, AgentOnlyAtItsAwait, CleanedUp, PausedAtPoll,
       TaskInHand, SkipIsProcessed, RecoveringPrimary, BetweenIterations,
       Stop, StopEngine, unchangedByCalls
  <2>4. LoopTypeOK' /\ RunTypeOK' /\ AgentTypeOK' /\ TaskTypeOK' /\ CountTypeOK'
    BY <1>22 DEF LoopTypeOK, RunTypeOK, AgentTypeOK, TaskTypeOK, CountTypeOK,
       Stop, StopEngine, unchangedByCalls
  <2>. QED
    BY <2>1, <2>2, <2>3, <2>4
<1>23. CASE Interrupt
  <2>1. CtlTypeOK'
    BY <1>23 DEF CtlTypeOK, Interrupt, StopEngine, unchangedByCalls
  <2>2. FlagTypeOK'
    BY <1>23, Zenon DEF FlagTypeOK, Interrupt, StopEngine, unchangedByCalls
  <2>3. TaskTypeOK'
    BY <1>23 DEF TaskTypeOK, RunTypeOK, Interrupt, StopEngine,
       unchangedByCalls
  <2>4. Control'
    BY <1>23 DEF Control, AgentOnlyAtItsAwait, CleanedUp, PausedAtPoll,
       TaskInHand, SkipIsProcessed, RecoveringPrimary, BetweenIterations,
       Interrupt, StopEngine, unchangedByCalls
  <2>5. LoopTypeOK' /\ RunTypeOK' /\ AgentTypeOK' /\ CountTypeOK'
    BY <1>23 DEF LoopTypeOK, RunTypeOK, AgentTypeOK, CountTypeOK, Interrupt,
       StopEngine, unchangedByCalls
  <2>. QED
    BY <2>1, <2>2, <2>3, <2>4, <2>5
<1>24. CASE ResetTaskToOpen
  <2>1. TaskTypeOK'
    BY <1>24 DEF TaskTypeOK, ResetTaskToOpen
  <2>2. Control'
    BY <1>24 DEF Control, AgentOnlyAtItsAwait, CleanedUp, PausedAtPoll,
       TaskInHand, SkipIsProcessed, RecoveringPrimary, BetweenIterations,
       ResetTaskToOpen
  <2>3. CtlTypeOK' /\ FlagTypeOK' /\ LoopTypeOK' /\ RunTypeOK' /\ AgentTypeOK' /\ CountTypeOK'
    BY <1>24 DEF CtlTypeOK, FlagTypeOK, LoopTypeOK, RunTypeOK, AgentTypeOK,
       CountTypeOK, ResetTaskToOpen
  <2>. QED
    BY <2>1, <2>2, <2>3
<1>25. CASE Pause
  <2>1. CtlTypeOK'
    BY <1>25 DEF CtlTypeOK, Pause, SetStatus, unchangedByCalls
  <2>2. Control'
    BY <1>25 DEF Control, AgentOnlyAtItsAwait, CleanedUp, PausedAtPoll,
       TaskInHand, SkipIsProcessed, RecoveringPrimary, BetweenIterations,
       Pause, SetStatus, unchangedByCalls
  <2>3. FlagTypeOK' /\ LoopTypeOK' /\ RunTypeOK' /\ AgentTypeOK' /\ TaskTypeOK' /\ CountTypeOK'
    BY <1>25 DEF FlagTypeOK, LoopTypeOK, RunTypeOK, AgentTypeOK, TaskTypeOK,
       CountTypeOK, Pause, SetStatus, unchangedByCalls
  <2>. QED
    BY <2>1, <2>2, <2>3
<1>26. CASE Resume
  <2>1. CtlTypeOK'
    BY <1>26 DEF CtlTypeOK, Resume, SetStatus, unchangedByCalls
  <2>2. Control'
    BY <1>26 DEF Control, AgentOnlyAtItsAwait, CleanedUp, PausedAtPoll,
       TaskInHand, SkipIsProcessed, RecoveringPrimary, BetweenIterations,
       Resume, SetStatus, unchangedByCalls
  <2>3. FlagTypeOK' /\ LoopTypeOK' /\ RunTypeOK' /\ AgentTypeOK' /\ TaskTypeOK' /\ CountTypeOK'
    BY <1>26 DEF FlagTypeOK, LoopTypeOK, RunTypeOK, AgentTypeOK, TaskTypeOK,
       CountTypeOK, Resume, SetStatus, unchangedByCalls
  <2>. QED
    BY <2>1, <2>2, <2>3
<1>27. CASE AddIterations
  <2>1. CountTypeOK'
    BY <1>27 DEF CountTypeOK, AddIterations, SetMaxIterations,
       unchangedByCalls
  <2>2. CtlTypeOK' /\ FlagTypeOK' /\ LoopTypeOK' /\ RunTypeOK' /\ AgentTypeOK' /\ TaskTypeOK' /\ Control'
    BY <1>27 DEF CtlTypeOK, FlagTypeOK, LoopTypeOK, RunTypeOK, AgentTypeOK,
       TaskTypeOK, Control, AgentOnlyAtItsAwait, CleanedUp, PausedAtPoll,
       TaskInHand, SkipIsProcessed, RecoveringPrimary, BetweenIterations,
       AddIterations, SetMaxIterations, unchangedByCalls
  <2>. QED
    BY <2>1, <2>2
<1>28. CASE RemoveIterations
  <2>1. CountTypeOK'
    BY <1>28 DEF CountTypeOK, RemoveIterations, SetMaxIterations,
       unchangedByCalls
  <2>2. CtlTypeOK' /\ FlagTypeOK' /\ LoopTypeOK' /\ RunTypeOK' /\ AgentTypeOK' /\ TaskTypeOK' /\ Control'
    BY <1>28 DEF CtlTypeOK, FlagTypeOK, LoopTypeOK, RunTypeOK, AgentTypeOK,
       TaskTypeOK, Control, AgentOnlyAtItsAwait, CleanedUp, PausedAtPoll,
       TaskInHand, SkipIsProcessed, RecoveringPrimary, BetweenIterations,
       RemoveIterations, SetMaxIterations, unchangedByCalls
  <2>. QED
    BY <2>1, <2>2
<1>29. CASE SwitchToUserAgent
  <2>1. AgentTypeOK'
    BY <1>29, EngineAssumption DEF AgentTypeOK, SwitchToUserAgent, ApplySwap,
       unchangedByCalls
  <2>2. Control'
    BY <1>29 DEF Control, AgentOnlyAtItsAwait, CleanedUp, PausedAtPoll,
       TaskInHand, SkipIsProcessed, RecoveringPrimary, BetweenIterations,
       SwitchToUserAgent, ApplySwap, unchangedByCalls
  <2>3. CtlTypeOK' /\ FlagTypeOK' /\ LoopTypeOK' /\ RunTypeOK' /\ TaskTypeOK' /\ CountTypeOK'
    BY <1>29 DEF CtlTypeOK, FlagTypeOK, LoopTypeOK, RunTypeOK, TaskTypeOK,
       CountTypeOK, SwitchToUserAgent, ApplySwap, unchangedByCalls
  <2>. QED
    BY <2>1, <2>2, <2>3
<1>30. CASE UNCHANGED vars
  BY <1>30 DEF vars, CtlTypeOK, FlagTypeOK, LoopTypeOK, RunTypeOK,
     AgentTypeOK, TaskTypeOK, CountTypeOK, Control, AgentOnlyAtItsAwait,
     CleanedUp, PausedAtPoll, TaskInHand, SkipIsProcessed, RecoveringPrimary,
     BetweenIterations
<1>. QED
  BY <1>1, <1>2, <1>3, <1>4, <1>5, <1>6, <1>7, <1>8, <1>9, <1>10, <1>11,
     <1>12, <1>13, <1>14, <1>15, <1>16, <1>17, <1>18, <1>19, <1>20, <1>21,
     <1>22, <1>23, <1>24, <1>25, <1>26, <1>27, <1>28, <1>29, <1>30
     DEF Next, LoopStep, UserCall

-----------------------------------------------------------------------------
(* Why a limited agent is not run: where the loop stands, the agent it is    *)
(* about to run is outside the set.  Only tryFallbackAgent sees this.agent    *)
(* in it, and there the candidate is what was chosen outside.                *)
NextAgentIsFree == /\ pc # "fallback" => agent \notin limited
                   /\ pc = "fallback" => candidate \notin limited

LimitInv == NextAgentIsFree /\ LimitedAgentNotRun

(* Giving an agent up leaves a candidate that is not limited.               *)
LEMMA GivingUpKeepsLimits ==
    ASSUME TypeOK, NEW plugin, GiveUpAgent(plugin), running' = NoAgent, limited' \subseteq Agent
    PROVE  LimitInv'
<1>1. candidate' \notin limited'
  <2>1. candidate' = NextFallback(limited')
    BY DEF GiveUpAgent
  <2>2. CASE candidate' = NoAgent
    BY <2>2, EngineAssumption
  <2>3. CASE candidate' # NoAgent
    BY <2>1, <2>3, NextFallbackType
  <2>. QED
    BY <2>2, <2>3
<1>2. pc' = "fallback"
  BY DEF GiveUpAgent, Goto
<1>. QED
  BY <1>1, <1>2, EngineAssumption DEF LimitInv, NextAgentIsFree, LimitedAgentNotRun

(* Every step keeps what is known of the limited agents.                     *)
LEMMA NextLimits == IInv /\ IInv' /\ LimitInv /\ [Next]_vars => LimitInv'
<1>. SUFFICES ASSUME IInv, IInv', LimitInv, [Next]_vars PROVE LimitInv'
  OBVIOUS
<1>. USE DEF LimitInv, NextAgentIsFree, LimitedAgentNotRun
<1>1. /\ TypeOK /\ (running # NoAgent => pc = "agent")
      /\ limited' \subseteq Agent /\ NoAgent \notin Agent
  BY EngineAssumption DEF IInv, TypeOK, AgentTypeOK, Control, AgentOnlyAtItsAwait
<1>2. CASE Start \/ LoopHead \/ WakeFromPause \/ CheckMaxIterations
  BY <1>2 DEF Start, LoopHead, WakeFromPause, CheckMaxIterations, EndLoop, ContinueIteration,
              Goto, agentVars, runVars
<1>3. CASE AttemptPrimaryAgentRecovery
  BY <1>3 DEF AttemptPrimaryAgentRecovery, Goto, agentVars, runVars
<1>4. CASE SelectTask \/ ActivateTask \/ RetryDelayElapses \/ RecordIteration
  BY <1>4 DEF SelectTask, ActivateTask, RetryDelayElapses, RecordIteration, BeginIteration,
              EndLoop, Goto, agentVars, runVars, Reject
<1>5. CASE ExecuteAgent
  BY <1>1, <1>5 DEF ExecuteAgent, Reject, EndLoop, Goto, agentVars, runVars
<1>6. CASE AgentFinishes \/ AgentInterrupted
  BY <1>1, <1>6 DEF AgentFinishes, AgentInterrupted, AgentResult, agentVars
<1>7. CASE EvaluateResult
  <2>1. running' = NoAgent
    BY <1>1, <1>7 DEF EvaluateResult, runVars
  <2>2. CASE GiveUpAgent(active.plugin)
    BY <1>1, <2>1, <2>2, GivingUpKeepsLimits
  <2>3. CASE ~GiveUpAgent(active.plugin)
    BY <1>7, <2>3 DEF EvaluateResult, Goto, agentVars, runVars
  <2>. QED
    BY <2>2, <2>3
<1>8. CASE BackoffElapses
  <2>1. CASE shouldStop
    BY <1>1, <1>8, <2>1, GivingUpKeepsLimits DEF BackoffElapses, runVars
  <2>2. CASE ~shouldStop
    BY <1>8, <2>2 DEF BackoffElapses, RestartIteration, BeginIteration, agentVars
  <2>. QED
    BY <2>1, <2>2
<1>9. CASE TryFallbackAgent
  <2>1. CASE AllAgentsLimited
    BY <1>1, <2>1 DEF AllAgentsLimited, runVars
  <2>2. CASE FallbackAvailable
    BY <1>9, <2>2 DEF TryFallbackAgent, FallbackAvailable, RestartIteration, BeginIteration
  <2>3. CASE FallbackUnavailable
    BY <1>1, <1>9, <2>3, GivingUpKeepsLimits DEF TryFallbackAgent, FallbackUnavailable, runVars
  <2>. QED
    BY <1>9, <2>1, <2>2, <2>3 DEF TryFallbackAgent
<1>10. CASE CompleteTask \/ SaveIterationLog \/ IterationThrows \/ HandleResult
  BY <1>10 DEF CompleteTask, SaveIterationLog, IterationThrows, HandleResult, HandleFailure,
               EndLoop, Goto, agentVars, runVars
<1>11. CASE FinishIteration \/ SupersededCleanup
  BY <1>1, <1>11 DEF FinishIteration, SupersededCleanup, Finally, ApplySwap, Goto, loopVars
<1>12. CASE ResetTaskToOpen \/ UNCHANGED vars
  BY <1>12 DEF ResetTaskToOpen, vars, loopVars, runVars, agentVars
<1>13. CASE Stop \/ Interrupt \/ Pause \/ Resume \/ AddIterations \/ RemoveIterations
  BY <1>13 DEF Stop, Interrupt, StopEngine, Pause, Resume, SetStatus, AddIterations,
               RemoveIterations, SetMaxIterations, unchangedByCalls, loopVars, agentVars
<1>14. CASE SwitchToUserAgent
  BY <1>14 DEF SwitchToUserAgent, ApplySwap, unchangedByCalls, loopVars
<1>. QED
  BY <1>2, <1>3, <1>4, <1>5, <1>6, <1>7, <1>8, <1>9, <1>10, <1>11, <1>12, <1>13, <1>14
     DEF Next, LoopStep, UserCall

-----------------------------------------------------------------------------
(* The theorems.                                                            *)
THEOREM Invariance == Spec => []IInv
<1>1. Init => IInv
  BY InitInv
<1>2. IInv /\ [Next]_vars => IInv'
  BY NextInv
<1>. QED
  BY <1>1, <1>2, PTL DEF Spec

(* The engine's state keeps its types, for every configuration.             *)
THEOREM EngineTypeOK == Spec => []TypeOK
<1>1. IInv => TypeOK
  BY DEF IInv
<1>. QED
  BY <1>1, Invariance, PTL

(* A paused engine is waiting in its poll, with no agent running and no      *)
(* finally block outstanding, whenever the pause was asked for.              *)
THEOREM PauseIsQuiet == Spec => []PausedIsQuiet
<1>1. IInv => PausedIsQuiet
  BY DEF IInv, Control, PausedAtPoll, AgentOnlyAtItsAwait, CleanedUp, PausedIsQuiet,
         BetweenIterations
<1>. QED
  BY <1>1, Invariance, PTL

(* A task given up on is never started again: neither by the selection, nor  *)
(* by a retry, a backoff or a fallback, in sequential and in worker mode.    *)
THEOREM SkippedStaysSkipped == Spec => SkippedNeverStarted
<1>. DEFINE Given == pc' = "activate" /\ pc # "activate" => task' \notin skipped
<1>1. IInv /\ [Next]_vars => [Given]_vars
  <2>. SUFFICES ASSUME IInv, Next, pc' = "activate", pc # "activate"
                PROVE  task' \notin skipped
    BY DEF vars
  <2>. USE DEF IInv, Goto
  <2>1. CASE SelectTask
    BY <2>1 DEF SelectTask, BeginIteration, Available, Worker, EndLoop, Control,
                SkipIsProcessed
  <2>2. CASE BackoffElapses
    BY <2>2 DEF BackoffElapses, GiveUpAgent, RestartIteration, BeginIteration, Control,
                TaskInHand, BetweenIterations
  <2>3. CASE TryFallbackAgent
    BY <2>3 DEF TryFallbackAgent, AllAgentsLimited, FallbackAvailable,
                FallbackUnavailable, GiveUpAgent, RestartIteration, BeginIteration,
                Control, TaskInHand, BetweenIterations
  <2>4. CASE RetryDelayElapses
    BY <2>4 DEF RetryDelayElapses, BeginIteration, Control, TaskInHand, BetweenIterations
  <2>5. CASE Start \/ LoopHead \/ WakeFromPause \/ AttemptPrimaryAgentRecovery
               \/ CheckMaxIterations \/ ActivateTask \/ ExecuteAgent
    BY <2>5 DEF Start, LoopHead, WakeFromPause, AttemptPrimaryAgentRecovery, EndLoop,
                ContinueIteration, CheckMaxIterations, ActivateTask, ExecuteAgent, Reject
  <2>6. CASE AgentFinishes \/ AgentInterrupted \/ EvaluateResult \/ CompleteTask
               \/ SaveIterationLog \/ IterationThrows
    BY <2>6 DEF AgentFinishes, AgentInterrupted, AgentResult, EvaluateResult,
                GiveUpAgent, CompleteTask, SaveIterationLog, IterationThrows
  <2>7. CASE FinishIteration \/ SupersededCleanup \/ HandleResult \/ RecordIteration
               \/ ResetTaskToOpen
    BY <2>7 DEF FinishIteration, SupersededCleanup, HandleResult, HandleFailure, EndLoop,
                RecordIteration, ResetTaskToOpen, loopVars, Reject
  <2>8. CASE UserCall
    BY <2>8 DEF UserCall, Stop, Interrupt, StopEngine, Pause, Resume, SetStatus,
                AddIterations, RemoveIterations, SetMaxIterations, SwitchToUserAgent,
                unchangedByCalls, loopVars
  <2>. QED
    BY <2>1, <2>2, <2>3, <2>4, <2>5, <2>6, <2>7, <2>8 DEF Next, LoopStep
<1>. QED
  BY <1>1, Invariance, PTL DEF Spec, SkippedNeverStarted

(* An agent found limited is not run again until the set is cleared, through *)
(* any mix of backoffs, fallbacks that turn out to be unavailable, primary   *)
(* recoveries and user swaps.                                                *)
THEOREM LimitedAgentIsNotRun == Spec => []LimitedAgentNotRun
<1>1. Init => LimitInv
  BY DEF Init, LimitInv, NextAgentIsFree, LimitedAgentNotRun
<1>2. IInv /\ IInv' /\ LimitInv /\ [Next]_vars => LimitInv'
  BY NextLimits
<1>3. LimitInv => LimitedAgentNotRun
  BY DEF LimitInv
<1>. QED
  BY <1>1, <1>2, <1>3, Invariance, PTL DEF Spec

(* In worker mode no path of the engine writes "completed" to the tracker:   *)
(* that is left to the executor, once the work is merged.                    *)
THEOREM CompletionLeftToExecutor == Spec => []WorkerNeverCompletes
<1>1. Init => WorkerNeverCompletes
  BY DEF Init, WorkerNeverCompletes
<1>2. IInv /\ WorkerNeverCompletes /\ [Next]_vars => WorkerNeverCompletes'
  <2>. SUFFICES ASSUME IInv, WorkerNeverCompletes, [Next]_vars PROVE WorkerNeverCompletes'
    OBVIOUS
  <2>. USE DEF WorkerNeverCompletes, Worker, configVars
  <2>1. tracker \in [Task -> {"open", "in_progress", "completed"}]
    BY DEF IInv, TypeOK, TaskTypeOK
  <2>2. CASE ActivateTask
    BY <2>1, <2>2 DEF ActivateTask, Reject, EndLoop
  <2>3. CASE CompleteTask
    BY <2>3 DEF CompleteTask, TrackerAfterCompletion
  <2>4. CASE ResetTaskToOpen
    BY <2>1, <2>4 DEF ResetTaskToOpen
  <2>5. CASE Start \/ LoopHead \/ WakeFromPause \/ AttemptPrimaryAgentRecovery
               \/ CheckMaxIterations \/ SelectTask \/ ExecuteAgent \/ AgentFinishes
               \/ AgentInterrupted
    BY <2>5 DEF Start, LoopHead, WakeFromPause, AttemptPrimaryAgentRecovery,
                CheckMaxIterations, SelectTask, ExecuteAgent, AgentFinishes,
                AgentInterrupted, AgentResult, taskVars, Reject, EndLoop, configVars
  <2>6. CASE EvaluateResult \/ BackoffElapses \/ TryFallbackAgent \/ SaveIterationLog
               \/ IterationThrows \/ FinishIteration \/ SupersededCleanup
               \/ RetryDelayElapses \/ RecordIteration
    BY <2>6 DEF EvaluateResult, BackoffElapses, TryFallbackAgent, SaveIterationLog,
                IterationThrows, FinishIteration, SupersededCleanup, Finally,
                RetryDelayElapses, RecordIteration, taskVars, Reject, EndLoop, configVars
  <2>7. CASE HandleResult
    BY <2>7 DEF HandleResult, HandleFailure, Skip
  <2>8. CASE UserCall \/ UNCHANGED vars
    BY <2>8 DEF UserCall, Stop, Interrupt, StopEngine, Pause, Resume, SetStatus,
                AddIterations, RemoveIterations, SetMaxIterations, SwitchToUserAgent,
                unchangedByCalls, taskVars, vars, configVars
  <2>. QED
    BY <2>2, <2>3, <2>4, <2>5, <2>6, <2>7, <2>8 DEF Next, LoopStep
<1>. QED
  BY <1>1, <1>2, Invariance, PTL DEF Spec

-----------------------------------------------------------------------------
(* Why no completion is counted that the tracker did not get: the task in     *)
(* hand is not counted yet, so that a retry may reopen it, and by the time    *)
(* its iteration is settled the tracker has it, or refused it, or an          *)
(* interrupt's reset took it back, and "unkept" says so.                     *)
Completed == {t \in Task : tracker[t] = "completed"}
InHand == IF pc \in BetweenIterations THEN {} ELSE {task}
Kept == Cardinality(Completed \ InHand) + unkept

CountedAreKept == tasksCompleted <= Kept
ToBeCounted == pc \in {"log", "finally", "settle"} /\ result.complete
                 => task \in Completed \/ tasksCompleted < Kept

CountInv == ~Worker => CountedAreKept /\ ToBeCounted

(* A set that loses nothing has no fewer elements; one more if it gained one. *)
LEMMA NoFewer ==
    ASSUME NEW S, IsFiniteSet(S), NEW T \in SUBSET S
    PROVE  Cardinality(T) <= Cardinality(S) /\ Cardinality(T) \in Nat /\ Cardinality(S) \in Nat
BY FS_Subset, FS_CardinalityType

(* What is completed and not in hand has a size, before a step and after it. *)
LEMMA KeptType ==
    ASSUME IsFiniteSet(Task), TypeOK, TypeOK'
    PROVE  /\ Cardinality(Completed \ InHand) \in Nat /\ Kept \in Nat
           /\ Cardinality(Completed' \ InHand') \in Nat /\ Kept' \in Nat
           /\ IsFiniteSet(Completed \ InHand) /\ IsFiniteSet(Completed' \ InHand')
<1>1. Completed \ InHand \subseteq Task /\ Completed' \ InHand' \subseteq Task
  BY DEF Completed
<1>2. IsFiniteSet(Completed \ InHand) /\ IsFiniteSet(Completed' \ InHand')
  BY <1>1, FS_Subset
<1>3. Cardinality(Completed \ InHand) \in Nat /\ Cardinality(Completed' \ InHand') \in Nat
  BY <1>2, FS_CardinalityType, Zenon
<1>. QED
  BY <1>2, <1>3 DEF Kept, TypeOK, TaskTypeOK

(* Completions that only grow, in tracker and hand, stay counted.            *)
LEMMA KeepsCount ==
    ASSUME TypeOK, TypeOK', IsFiniteSet(Task), unkept' = unkept,
           Completed \ InHand \subseteq Completed' \ InHand'
    PROVE  Kept <= Kept'
<1>1. Cardinality(Completed \ InHand) <= Cardinality(Completed' \ InHand')
  BY KeptType, NoFewer, Zenon
<1>. QED
  BY <1>1, KeptType DEF Kept, TypeOK, TaskTypeOK

(* Every step keeps the count of completions and the tracker together.       *)
LEMMA NextCount == IsFiniteSet(Task) /\ IInv /\ IInv' /\ CountInv /\ [Next]_vars => CountInv'
<1>. SUFFICES ASSUME IsFiniteSet(Task), IInv, IInv', CountInv, [Next]_vars, ~Worker'
              PROVE  CountedAreKept' /\ ToBeCounted'
  BY DEF CountInv
<1>1. forcedTask' = forcedTask
  BY DEF Next, LoopStep, UserCall, vars, taskVars, Start, LoopHead, WakeFromPause,
     AttemptPrimaryAgentRecovery, CheckMaxIterations, SelectTask, ActivateTask, ExecuteAgent,
     AgentFinishes, AgentInterrupted, AgentResult, EvaluateResult, BackoffElapses,
     TryFallbackAgent, CompleteTask, SaveIterationLog, IterationThrows, FinishIteration,
     SupersededCleanup, Finally, HandleResult, HandleFailure, Skip, RetryDelayElapses,
     RecordIteration, ResetTaskToOpen, Stop, Interrupt, StopEngine, Pause, Resume, SetStatus,
     AddIterations, RemoveIterations, SetMaxIterations, SwitchToUserAgent, unchangedByCalls,
     Reject, EndLoop, configVars, resetVars
<1>2. ~Worker /\ CountedAreKept /\ ToBeCounted
  BY <1>1 DEF Worker, CountInv
<1>3. TypeOK /\ TypeOK' /\ IsFiniteSet(Task)
  BY DEF IInv
<1>. USE DEF BetweenIterations
<1>4. CASE Start \/ LoopHead \/ WakeFromPause \/ AttemptPrimaryAgentRecovery
             \/ CheckMaxIterations \/ RecordIteration
  <2>1. /\ pc \in BetweenIterations /\ pc' \in BetweenIterations
        /\ tracker' = tracker /\ tasksCompleted' = tasksCompleted /\ unkept' = unkept
    BY <1>4 DEF Start, LoopHead, WakeFromPause, AttemptPrimaryAgentRecovery,
       CheckMaxIterations, RecordIteration, EndLoop, ContinueIteration, Goto, taskVars, Reject,
       configVars, resetVars
  <2>2. Completed \ InHand \subseteq Completed' \ InHand'
    BY <2>1 DEF Completed, InHand
  <2>. QED
    BY <1>2, <1>3, <2>1, <2>2, KeepsCount, KeptType
       DEF CountedAreKept, ToBeCounted, TypeOK, TaskTypeOK
<1>5. CASE SelectTask
  <2>1. /\ tracker' = tracker /\ tasksCompleted' = tasksCompleted /\ unkept' = unkept
        /\ pc = "select" /\ pc' \in {"idle", "activate"}
    BY <1>5 DEF SelectTask, EndLoop, BeginIteration, Goto, taskVars, configVars, resetVars
  <2>2. pc' = "activate" => task' \notin Completed
    BY <1>2, <1>5 DEF SelectTask, EndLoop, BeginIteration, Goto, Available, Completed, resetVars
  <2>3. Completed \ InHand \subseteq Completed' \ InHand'
    BY <2>1, <2>2 DEF Completed, InHand
  <2>. QED
    BY <1>2, <1>3, <2>1, <2>3, KeepsCount, KeptType
       DEF CountedAreKept, ToBeCounted, TypeOK, TaskTypeOK
<1>6. CASE ActivateTask
  <2>1. /\ tasksCompleted' = tasksCompleted /\ unkept' = unkept /\ task' = task
        /\ pc = "activate" /\ pc' \in {"idle", "prompt"}
        /\ \A t \in Task \ {task} : tracker'[t] = tracker[t]
    BY <1>3, <1>6 DEF ActivateTask, EndLoop, Goto, taskVars, TypeOK, TaskTypeOK, Reject,
       configVars, resetVars
  <2>2. Completed \ InHand \subseteq Completed' \ InHand'
    BY <2>1 DEF Completed, InHand
  <2>. QED
    BY <1>2, <1>3, <2>1, <2>2, KeepsCount, KeptType
       DEF CountedAreKept, ToBeCounted, TypeOK, TaskTypeOK
<1>7. CASE \/ ExecuteAgent \/ AgentFinishes \/ AgentInterrupted \/ EvaluateResult
           \/ BackoffElapses \/ TryFallbackAgent \/ SaveIterationLog \/ IterationThrows
           \/ FinishIteration
  <2>1. /\ pc \notin BetweenIterations /\ (pc' \notin BetweenIterations \/ pc' = "idle")
        /\ task' = task
        /\ tracker' = tracker /\ tasksCompleted' = tasksCompleted /\ unkept' = unkept
    BY <1>7 DEF ExecuteAgent, AgentFinishes, AgentInterrupted, AgentResult, EvaluateResult,
       BackoffElapses, TryFallbackAgent, AllAgentsLimited, FallbackAvailable,
       FallbackUnavailable, GiveUpAgent, RestartIteration, BeginIteration, SaveIterationLog,
       IterationThrows, FinishIteration, Finally, Goto, taskVars, Reject, EndLoop, configVars,
       resetVars
  <2>2. Completed \ InHand \subseteq Completed' \ InHand'
    BY <2>1 DEF Completed, InHand
  <2>3. CountedAreKept'
    BY <1>2, <1>3, <2>1, <2>2, KeepsCount, KeptType
       DEF CountedAreKept, TypeOK, TaskTypeOK
  <2>4. pc' \in {"log", "finally", "settle"} /\ result'.complete
        => pc \in {"log", "finally", "settle"} /\ result'.complete = result.complete
    BY <1>7 DEF ExecuteAgent, AgentFinishes, AgentInterrupted, AgentResult, EvaluateResult,
       BackoffElapses, TryFallbackAgent, AllAgentsLimited, FallbackAvailable,
       FallbackUnavailable, GiveUpAgent, RestartIteration, BeginIteration, SaveIterationLog,
       IterationThrows, FinishIteration, Finally, Goto, NoResult, Reject, EndLoop, resetVars
  <2>. QED
    BY <1>2, <1>3, <2>1, <2>2, <2>3, <2>4, KeepsCount, KeptType
       DEF ToBeCounted, Completed, TypeOK, TaskTypeOK
<1>8. CASE CompleteTask
  <2>1. /\ task' = task /\ tasksCompleted' = tasksCompleted
        /\ pc = "completing" /\ pc' = "log"
    BY <1>8 DEF CompleteTask, Goto, resetVars
  <2>2. task \in Task
    BY <2>1 DEF IInv, Control, TaskInHand
  <2>3. CASE tracker' = TrackerAfterCompletion /\ UNCHANGED unkept
    <3>1. \A t \in Task : tracker'[t] = IF t = task THEN "completed" ELSE tracker[t]
      BY <1>2, <1>3, <2>2, <2>3 DEF TrackerAfterCompletion, TypeOK, TaskTypeOK
    <3>2. task \in Completed' /\ Completed \ InHand \subseteq Completed' \ InHand'
      BY <2>1, <2>2, <3>1 DEF Completed, InHand
    <3>. QED
      BY <1>2, <1>3, <2>1, <2>3, <3>2, KeepsCount, KeptType
         DEF CountedAreKept, ToBeCounted, TypeOK, TaskTypeOK
  <2>4. CASE unkept' = unkept + 1 /\ UNCHANGED tracker
    <3>1. Completed' \ InHand' = Completed \ InHand
      BY <2>1, <2>4 DEF Completed, InHand
    <3>2. Kept' = Kept + 1
      <4>1. unkept \in Nat /\ Cardinality(Completed \ InHand) \in Nat
        BY <1>3, KeptType DEF TypeOK, TaskTypeOK
      <4>2. Cardinality(Completed' \ InHand') = Cardinality(Completed \ InHand)
        BY <3>1
      <4>. QED
        BY <2>4, <4>1, <4>2 DEF Kept
    <3>. QED
      BY <1>2, <1>3, <2>1, <3>2, KeptType DEF CountedAreKept, ToBeCounted, TypeOK, TaskTypeOK
  <2>. QED
    BY <1>8, <2>3, <2>4 DEF CompleteTask, resetVars
<1>9. CASE SupersededCleanup \/ UserCall \/ UNCHANGED vars
  <2>1. /\ tracker' = tracker /\ tasksCompleted' = tasksCompleted /\ unkept' = unkept
        /\ UNCHANGED <<pc, task, result>>
    BY <1>9 DEF SupersededCleanup, Finally, UserCall, Stop, Interrupt, StopEngine, Pause,
       Resume, SetStatus, AddIterations, RemoveIterations, SetMaxIterations, SwitchToUserAgent,
       unchangedByCalls, taskVars, vars, loopVars, configVars, resetVars
  <2>2. Completed \ InHand \subseteq Completed' \ InHand'
    BY <2>1 DEF Completed, InHand
  <2>. QED
    BY <1>2, <1>3, <2>1, <2>2, KeepsCount, KeptType
       DEF CountedAreKept, ToBeCounted, Completed, TypeOK, TaskTypeOK
<1>10. CASE HandleResult
  <2>1. /\ tracker' = tracker /\ unkept' = unkept /\ task' = task /\ pc = "settle"
        /\ pc' \in {"record", "retryDelay", "idle"}
    BY <1>10 DEF HandleResult, HandleFailure, EndLoop, Goto, resetVars
  <2>2. Completed' = Completed /\ Completed \subseteq Task
    BY <2>1 DEF Completed
  <2>3. CASE tasksCompleted' = tasksCompleted
    <3>1. Completed \ InHand \subseteq Completed' \ InHand'
      BY <2>1, <2>2 DEF InHand
    <3>. QED
      BY <1>2, <1>3, <2>1, <2>3, <3>1, KeepsCount, KeptType
       DEF CountedAreKept, ToBeCounted, TypeOK, TaskTypeOK
  <2>4. CASE tasksCompleted' # tasksCompleted
    <3>1. /\ tasksCompleted' = tasksCompleted + 1 /\ result.complete /\ pc' = "record"
      BY <1>3, <1>10, <2>4 DEF HandleResult, HandleFailure, Skip, EndLoop, Goto, TypeOK,
         TaskTypeOK, resetVars
    <3>2. task \in Completed \/ tasksCompleted < Kept
      BY <1>2, <2>1, <3>1 DEF ToBeCounted
    <3>3. InHand = {task} /\ InHand' = {} /\ Completed' \ InHand' = Completed
      BY <2>1, <2>2, <3>1 DEF InHand
    <3>4. IsFiniteSet(Completed) /\ Cardinality(Completed) \in Nat
      BY <1>3, <2>2, FS_Subset, FS_CardinalityType
    <3>5. CASE task \in Completed
      <4>1. Cardinality(Completed \ {task}) = Cardinality(Completed) - 1
        BY <3>4, <3>5, FS_RemoveElement
      <4>2. Kept = Cardinality(Completed) - 1 + unkept /\ Kept' = Cardinality(Completed) + unkept
        BY <2>1, <3>3, <4>1 DEF Kept
      <4>. QED
        BY <1>2, <1>3, <3>1, <3>4, <4>2 DEF CountedAreKept, ToBeCounted, TypeOK, TaskTypeOK
    <3>6. CASE tasksCompleted < Kept
      <4>1. Kept <= Kept'
        BY <1>3, <2>1, <3>3, KeepsCount
      <4>. QED
        BY <1>3, <3>1, <3>6, <4>1, KeptType DEF CountedAreKept, ToBeCounted, TypeOK, TaskTypeOK
    <3>. QED
      BY <3>2, <3>5, <3>6
  <2>. QED
    BY <2>3, <2>4
<1>11. CASE RetryDelayElapses
  <2>1. /\ tracker' = tracker /\ tasksCompleted' = tasksCompleted /\ unkept' = unkept
        /\ task' = task /\ pc = "retryDelay" /\ pc' \in {"record", "activate"}
    BY <1>11 DEF RetryDelayElapses, BeginIteration, Goto, taskVars, configVars, resetVars
  <2>2. Completed \ InHand \subseteq Completed' \ InHand'
    BY <2>1 DEF Completed, InHand
  <2>. QED
    BY <1>2, <1>3, <2>1, <2>2, KeepsCount, KeptType
       DEF CountedAreKept, ToBeCounted, TypeOK, TaskTypeOK
<1>12. CASE ResetTaskToOpen
  <2>1. tasksCompleted' = tasksCompleted /\ UNCHANGED <<pc, task, result>>
    BY <1>12 DEF ResetTaskToOpen, loopVars, resetVars
  <2>2. InHand' = InHand
    BY <2>1 DEF InHand
  <2>3. CASE UNCHANGED <<tracker, unkept>>
    <3>1. Completed \ InHand \subseteq Completed' \ InHand'
      BY <2>2, <2>3 DEF Completed
    <3>. QED
      BY <1>2, <1>3, <2>1, <2>3, <3>1, KeepsCount, KeptType
         DEF CountedAreKept, ToBeCounted, Completed, TypeOK, TaskTypeOK
  <2>4. CASE tracker' = [tracker EXCEPT ![resetting] = "open"]
    <3>1. unkept' = unkept + (IF tracker[resetting] = "completed" THEN 1 ELSE 0)
          \/ UNCHANGED <<tracker, unkept>>
      BY <1>12 DEF ResetTaskToOpen, resetVars
    <3>2. resetting \in Task
      BY <1>3, <1>12 DEF ResetTaskToOpen, TypeOK, TaskTypeOK, resetVars
    <3>3. Completed' = Completed \ {resetting}
      BY <1>3, <2>4, <3>2 DEF Completed, TypeOK, TaskTypeOK
    <3>4. CASE resetting \notin Completed
      BY <1>2, <1>3, <2>1, <2>2, <2>3, <3>1, <3>2, <3>3, <3>4, KeepsCount, KeptType
         DEF CountedAreKept, ToBeCounted, Completed, TypeOK, TaskTypeOK
    <3>5. CASE resetting \in Completed /\ unkept' = unkept + 1
      <4>1. Completed' \ InHand' = (Completed \ InHand) \ {resetting}
        BY <2>2, <3>3
      <4>2. Cardinality(Completed' \ InHand') \in
              {Cardinality(Completed \ InHand), Cardinality(Completed \ InHand) - 1}
        <5>1. IsFiniteSet(Completed \ InHand)
          BY <1>3, KeptType
        <5>2. CASE resetting \in Completed \ InHand
          BY <4>1, <5>1, <5>2, FS_RemoveElement
        <5>3. CASE resetting \notin Completed \ InHand
          BY <4>1, <5>3, (Completed \ InHand) \ {resetting} = Completed \ InHand
        <5>. QED
          BY <5>2, <5>3
      <4>3. Kept <= Kept' /\ (resetting \notin Completed \ InHand => Kept' = Kept + 1)
        <5>1. Kept <= Kept'
          BY <1>3, <3>5, <4>2, KeptType DEF Kept, TypeOK, TaskTypeOK
        <5>2. ASSUME resetting \notin Completed \ InHand PROVE Kept' = Kept + 1
          <6>1. Completed' \ InHand' = Completed \ InHand
            BY <4>1, <5>2
          <6>. QED
            BY <1>3, <3>5, <6>1, KeptType DEF Kept, TypeOK, TaskTypeOK
        <5>. QED
          BY <5>1, <5>2
      <4>4. CountedAreKept'
        BY <1>2, <1>3, <2>1, <4>3, KeptType DEF CountedAreKept, TypeOK, TaskTypeOK
      <4>5. ASSUME pc \in {"log", "finally", "settle"}, result.complete
            PROVE  task \in Completed' \/ tasksCompleted < Kept'
        <5>1. CASE task \in Completed /\ task # resetting
          BY <3>3, <5>1
        <5>2. CASE task = resetting
          <6>1. resetting \notin Completed \ InHand
            BY <4>5, <5>2 DEF InHand, BetweenIterations
          <6>. QED
            BY <1>2, <1>3, <4>3, <6>1, KeptType DEF CountedAreKept, TypeOK, TaskTypeOK
        <5>3. CASE tasksCompleted < Kept
          BY <1>3, <4>3, <5>3, KeptType DEF TypeOK, TaskTypeOK
        <5>. QED
          BY <1>2, <4>5, <5>1, <5>2, <5>3 DEF ToBeCounted
      <4>. QED
        BY <2>1, <4>4, <4>5 DEF ToBeCounted
    <3>. QED
      BY <2>3, <3>1, <3>4, <3>5 DEF Completed
  <2>. QED
    BY <1>12, <2>3, <2>4 DEF ResetTaskToOpen, resetVars
<1>. QED
  BY <1>4, <1>5, <1>6, <1>7, <1>8, <1>9, <1>10, <1>11, <1>12 DEF Next, LoopStep

(* Sequential: no completion is counted twice, and none of an iteration that *)
(* failed, over retries, refusals, resets, restarts and stops.  Worker: none  *)
(* is written before the merge (completeTask, tasksCompleted).               *)
THEOREM CountsMatchTracker ==
    ASSUME IsFiniteSet(Task) PROVE Spec => []CompletionsMatchTracker
<1>1. Init => CountInv
  <2>. SUFFICES ASSUME Init PROVE CountedAreKept /\ ToBeCounted
    BY DEF CountInv
  <2>1. Cardinality(Completed \ InHand) \in Nat
    BY FS_Subset, FS_CardinalityType, Completed \ InHand \subseteq Task DEF Completed
  <2>. QED
    BY <2>1 DEF Init, CountedAreKept, ToBeCounted, Kept
<1>2. IInv /\ IInv' /\ CountInv /\ [Next]_vars => CountInv'
  BY NextCount
<1>3. IInv /\ CountInv => CompletionsAreInTracker
  <2>. SUFFICES ASSUME IInv, CountInv, ~Worker
                PROVE  tasksCompleted <= Cardinality(Completed) + unkept
    BY DEF CompletionsAreInTracker, Completed
  <2>1. IsFiniteSet(Completed) /\ Completed \ InHand \subseteq Completed
    BY FS_Subset, Completed \subseteq Task DEF Completed
  <2>2. /\ Cardinality(Completed \ InHand) <= Cardinality(Completed)
        /\ Cardinality(Completed \ InHand) \in Nat /\ Cardinality(Completed) \in Nat
    BY <2>1, NoFewer, Zenon
  <2>. QED
    BY <2>2 DEF CountInv, CountedAreKept, Kept, IInv, TypeOK, TaskTypeOK
<1>4. CompletionsAreInTracker /\ WorkerNeverCompletes => CompletionsMatchTracker
  BY DEF CompletionsMatchTracker
<1>. QED
  BY <1>1, <1>2, <1>3, <1>4, Invariance, CompletionLeftToExecutor, PTL DEF Spec

-----------------------------------------------------------------------------
(* Why a completed task is left alone: the one in hand is not completed       *)
(* before completeTask, unless it was and its iteration failed afterwards,    *)
(* and then its retries are being counted.                                   *)
BeforeCompletion ==
    {"activate", "prompt", "agent", "evaluate", "backoff", "fallback", "completing",
     "retryDelay"}

TaskIsOpen == pc \in BeforeCompletion => task \notin Completed \/ retries[task] > 0

(* Every step keeps completions but for the two ways back, and keeps it so.  *)
LEMMA NextFinal ==
    IInv /\ WorkerNeverCompletes /\ TaskIsOpen /\ [Next]_vars
      => /\ TaskIsOpen'
         /\ \A t \in Task : (tracker[t] = "completed" /\ tracker'[t] # "completed")
              => resetting = t \/ (pc = "activate" /\ task = t /\ retries[t] > 0)
<1>. SUFFICES ASSUME IInv, WorkerNeverCompletes, TaskIsOpen, [Next]_vars
              PROVE  /\ TaskIsOpen'
                     /\ \A t \in Task : (tracker[t] = "completed" /\ tracker'[t] # "completed")
                          => resetting = t \/ (pc = "activate" /\ task = t /\ retries[t] > 0)
  OBVIOUS
<1>. USE DEF TaskIsOpen, BeforeCompletion, Completed
<1>0. /\ tracker \in [Task -> {"open", "in_progress", "completed"}]
      /\ retries \in [Task -> 0..MaxRetries]
      /\ pc \in BeforeCompletion => task \in Task
  BY DEF IInv, TypeOK, TaskTypeOK, CountTypeOK, Control, TaskInHand, BetweenIterations
<1>1. CASE Start \/ LoopHead \/ WakeFromPause \/ AttemptPrimaryAgentRecovery
             \/ CheckMaxIterations \/ RecordIteration
  BY <1>1 DEF Start, LoopHead, WakeFromPause, AttemptPrimaryAgentRecovery,
     CheckMaxIterations, RecordIteration, Reject, EndLoop, ContinueIteration, Goto, taskVars,
     configVars, resetVars
<1>2. CASE SelectTask
  <2>1. pc' \in {"idle", "activate"} /\ (pc' = "activate" => task' \notin Completed)
    BY <1>2 DEF SelectTask, EndLoop, BeginIteration, Goto, Available, Worker,
                WorkerNeverCompletes, resetVars
  <2>. QED
    BY <1>2, <2>1 DEF SelectTask, EndLoop, BeginIteration, Goto, taskVars, configVars, resetVars
<1>3. CASE ActivateTask
  <2>1. /\ pc = "activate" /\ pc' \in {"idle", "prompt"} /\ UNCHANGED <<task, retries>>
        /\ tracker' = tracker \/ tracker' = [tracker EXCEPT ![task] = "in_progress"]
    BY <1>3 DEF ActivateTask, Reject, EndLoop, Goto, countVars, resetVars
  <2>2. \A t \in Task : t # task => tracker'[t] = tracker[t]
    BY <1>0, <2>1
  <2>3. tracker'[task] = "completed" => tracker[task] = "completed"
    BY <1>0, <2>1
  <2>4. task \in Task /\ (tracker[task] # "completed" \/ retries[task] > 0)
    BY <1>0, <2>1
  <2>. QED
    BY <2>1, <2>2, <2>3, <2>4
<1>4. CASE ExecuteAgent \/ BackoffElapses \/ SaveIterationLog \/ FinishIteration
             \/ AgentFinishes \/ AgentInterrupted \/ EvaluateResult \/ IterationThrows
  BY <1>4 DEF ExecuteAgent, Reject, EndLoop, BackoffElapses, GiveUpAgent, RestartIteration,
     BeginIteration, SaveIterationLog, FinishIteration, Finally, AgentFinishes,
     AgentInterrupted,
     AgentResult, EvaluateResult, IterationThrows, Goto, taskVars, countVars, configVars,
     resetVars
<1>5. CASE TryFallbackAgent
  BY <1>5 DEF TryFallbackAgent, AllAgentsLimited, FallbackAvailable, FallbackUnavailable,
              GiveUpAgent, RestartIteration, BeginIteration, Goto, taskVars, configVars
<1>6. CASE CompleteTask
  <2>1. pc = "completing" /\ pc' = "log"
    BY <1>6 DEF CompleteTask, Goto, resetVars
  <2>2. \A t \in Task : tracker[t] = "completed" => tracker'[t] = "completed"
    BY <1>0, <1>6 DEF CompleteTask, TrackerAfterCompletion, resetVars
  <2>. QED
    BY <2>1, <2>2
<1>7. CASE HandleResult
  <2>1. /\ pc = "settle" /\ pc' \in {"record", "retryDelay", "idle"}
        /\ UNCHANGED <<task, tracker>>
        /\ pc' = "retryDelay" => retries' = [retries EXCEPT ![task] = @ + 1]
    BY <1>7 DEF HandleResult, HandleFailure, EndLoop, Goto, resetVars
  <2>2. task \in Task
    BY <2>1 DEF IInv, Control, TaskInHand, BetweenIterations
  <2>3. pc' = "retryDelay" => retries'[task] > 0
    BY <1>0, <2>1, <2>2
  <2>. QED
    BY <2>1, <2>3
<1>8. CASE RetryDelayElapses
  BY <1>8 DEF RetryDelayElapses, BeginIteration, Goto, taskVars, countVars, configVars
<1>9. CASE SupersededCleanup \/ UserCall \/ UNCHANGED vars
  BY <1>9 DEF SupersededCleanup, Finally, UserCall, Stop, Interrupt, StopEngine, Pause,
     Resume, SetStatus, AddIterations, RemoveIterations, SetMaxIterations, SwitchToUserAgent,
     unchangedByCalls, taskVars, countVars, vars, loopVars, configVars, resetVars
<1>10. CASE ResetTaskToOpen
  <2>1. /\ UNCHANGED <<pc, task, retries>> /\ resetting \in Task
        /\ tracker' = tracker \/ tracker' = [tracker EXCEPT ![resetting] = "open"]
    BY <1>10 DEF ResetTaskToOpen, loopVars, countVars, IInv, TypeOK, TaskTypeOK, resetVars
  <2>2. \A t \in Task : t # resetting => tracker'[t] = tracker[t]
    BY <1>0, <2>1
  <2>3. tracker'[resetting] = "completed" => tracker[resetting] = "completed"
    BY <1>0, <2>1
  <2>. QED
    BY <1>0, <2>1, <2>2, <2>3
<1>. QED
  BY <1>1, <1>2, <1>3, <1>4, <1>5, <1>6, <1>7, <1>8, <1>9, <1>10 DEF Next, LoopStep

(* What the tracker has as completed is reopened by a retry after a late       *)
(* failure or by a remote interrupt's reset, and by nothing else, over         *)
(* fallbacks, skips, switches, worker mode, refusals and restarts of the loop  *)
(* (completeTask, getNextTask, resetTasksToOpen).                            *)
THEOREM CompletedIsFinal == Spec => CompletedStaysCompleted
<1>1. Init => TaskIsOpen
  BY DEF Init, TaskIsOpen, BeforeCompletion
<1>2. IInv /\ WorkerNeverCompletes /\ TaskIsOpen /\ [Next]_vars => TaskIsOpen'
  BY NextFinal
<1>3. IInv /\ WorkerNeverCompletes /\ TaskIsOpen /\ [Next]_vars
        => [\A t \in Task :
              (tracker[t] = "completed" /\ tracker'[t] # "completed")
              => \/ resetting = t
                 \/ pc = "activate" /\ task = t /\ retries[t] > 0]_vars
  BY NextFinal
<1>. QED
  BY <1>1, <1>2, <1>3, Invariance, CompletionLeftToExecutor, PTL
     DEF Spec, CompletedStaysCompleted

=============================================================================
