------------------------- MODULE MCParallelExecutor -------------------------
(* Values for TLC that a .cfg cannot write down.                            *)
EXTENDS ParallelExecutor

CONSTANTS t1, t2, t3

\* Independent tasks, a task behind two others, and a task that waits for
\* itself.  All pass the test of the caller: some group has two tasks.
MCGraphs == {{}, {<<t1, t2>>, <<t1, t3>>}, {<<t3, t3>>}}

\* Conflicts are resolved where a task waits for others.
MCAiResolution == [graph_ \in MCGraphs |-> {graph_ # {}}]

\* t1 comes last where it depends on others.
MCPriority == [t \in Task |-> IF t = t1 THEN 0 ELSE IF t = t2 THEN 1 ELSE 2]

MCOutcomes ==
    {[status |-> "done", commits |-> TRUE, counted |-> TRUE],
     [status |-> "done", commits |-> FALSE, counted |-> FALSE],
     [status |-> "notDone", commits |-> TRUE, counted |-> FALSE]}

ASSUME \A graph_ \in MCGraphs : MaxParallelism(graph_) >= 2
=============================================================================
