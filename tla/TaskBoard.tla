------------------------------ MODULE TaskBoard ------------------------------
(* What a parallel execution (src/parallel/index.ts) does with the tasks it  *)
(* was given, whatever its workers, merges and user do: a task is taken when *)
(* those it depends on are over, comes back for a bounded number of retries, *)
(* and once completed or dropped is left alone.  ParallelExecutor            *)
(* implements it.                                                            *)
EXTENDS Naturals

CONSTANTS Task, MaxRetries

VARIABLES
    graph,      \* pairs of a task and one it depends on
    status,     \* where each task is
    retries     \* how often each has come back

Init ==
    /\ status = [t \in Task |-> "waiting"]
    /\ retries = [t \in Task |-> 0]

Over(t) == status[t] \in {"completed", "dropped"}

Take(t) ==
    /\ status[t] = "waiting" /\ \A d \in Task : <<t, d>> \in graph => Over(d)
    /\ status' = [status EXCEPT ![t] = "taken"]
    /\ UNCHANGED <<graph, retries>>

Return(t) ==
    /\ status[t] = "taken" /\ retries[t] < MaxRetries
    /\ status' = [status EXCEPT ![t] = "waiting"]
    /\ retries' = [retries EXCEPT ![t] = @ + 1]
    /\ UNCHANGED graph

Complete(t) ==
    /\ status[t] = "taken"
    /\ status' = [status EXCEPT ![t] = "completed"]
    /\ retries' = [retries EXCEPT ![t] = 0]
    /\ UNCHANGED graph

GiveUp(t) ==
    /\ status[t] = "taken"
    /\ status' = [status EXCEPT ![t] = "dropped"]
    /\ UNCHANGED <<graph, retries>>

\* The tasks that will not be taken any more, after a stop or an exception.
Withdraw(tasks) ==
    /\ \A t \in tasks : status[t] = "waiting"
    /\ status' = [t \in Task |-> IF t \in tasks THEN "dropped" ELSE status[t]]
    /\ UNCHANGED <<graph, retries>>

Next ==
    \/ \E t \in Task : Take(t) \/ Return(t) \/ Complete(t) \/ GiveUp(t)
    \/ \E tasks \in SUBSET Task : Withdraw(tasks)

vars == <<graph, status, retries>>

Spec == Init /\ [][Next]_vars
=============================================================================
