----------------------------- MODULE TaskGraph -----------------------------
(***************************************************************************)
(* The analysis of src/parallel/task-graph.ts: Kahn's algorithm by levels    *)
(* groups the tasks that may run side by side; what it never reaches is in   *)
(* a cycle or behind one.  A graph is the set of its edges: <<t, d>> says    *)
(* that t depends on d, by t.dependsOn or by d.blocks.                       *)
(***************************************************************************)
EXTENDS Naturals, Sequences, FiniteSets

CONSTANTS
    Task,     \* the tasks the tracker returns
    Priority  \* [Task -> Nat], lower first; it orders a group

ASSUME TaskGraphAssumption == IsFiniteSet(Task) /\ Priority \in [Task -> Nat]

(* buildGraph: edges to tasks outside the set were left out.                *)
Dependencies(graph, t) == {d \in Task : <<t, d>> \in graph}

InDegree(graph) == [t \in Task |-> Cardinality(Dependencies(graph, t))]

(* currentLevel and inDegree when the level loop has run n times: a task is   *)
(* pushed to the next level when its last dependency has been processed.     *)
FirstLevel(graph) ==
    [degree |-> InDegree(graph), level |-> {t \in Task : InDegree(graph)[t] = 0}]

NextLevel(graph, last) ==
    LET degree == [t \in Task |->
                     last.degree[t] - Cardinality(Dependencies(graph, t) \cap last.level)]
    IN  [degree |-> degree, level |-> {t \in Task : degree[t] = 0 /\ last.degree[t] # 0}]

Kahn(graph) ==
    LET step[n \in Nat] == IF n = 0 THEN FirstLevel(graph) ELSE NextLevel(graph, step[n-1])
    IN  step

Levels(graph) == [n \in 0..Cardinality(Task) |-> Kahn(graph)[n].level]

(* tasks.length - cyclicIds.size *)
Actionable(graph) == UNION {Levels(graph)[n] : n \in DOMAIN Levels(graph)}

(* Levels are consecutive: the loop ends at the first empty one. *)
GroupCount(graph) == Cardinality({n \in DOMAIN Levels(graph) : Levels(graph)[n] # {}})

(* tasks.sort((a, b) => a.priority - b.priority) *)
ByPriority(tasks) ==
    CHOOSE s \in [1..Cardinality(tasks) -> tasks] :
      \A i, j \in DOMAIN s : i < j => s[i] # s[j] /\ Priority[s[i]] <= Priority[s[j]]

Group(graph, g) == ByPriority(Levels(graph)[g-1])

MaxParallelism(graph) ==
    CHOOSE m \in 0..Cardinality(Task) :
      /\ \E n \in DOMAIN Levels(graph) : Cardinality(Levels(graph)[n]) = m
      /\ \A n \in DOMAIN Levels(graph) : Cardinality(Levels(graph)[n]) <= m

(* At least 3 actionable tasks, at most half of all tasks cyclic, and a      *)
(* group of at least 2.                                                      *)
ShouldRunParallel(graph) ==
    /\ Cardinality(Actionable(graph)) >= 3
    /\ 2 * Cardinality(Task \ Actionable(graph)) <= Cardinality(Task)
    /\ MaxParallelism(graph) >= 2
=============================================================================
