----------------------- MODULE ParallelExecutor_proofs -----------------------
(***************************************************************************)
(* What is proved of task-graph.ts and of an execution that follows it, for   *)
(* any tasks, graphs, workers, outcomes and calls of the user: first that     *)
(* the groups respect the dependencies, then the inductive invariant of the  *)
(* execution and the properties of ParallelExecutor that follow from it.     *)
(***************************************************************************)
EXTENDS ParallelExecutor, FiniteSetTheorems, FunctionTheorems, WellFoundedInduction, TLAPS

(* Induction over a set of numbers, from its least element.                  *)
LEMMA Least ==
    ASSUME NEW S \in SUBSET Nat, S # {}
    PROVE  \E n \in S : \A m \in S : n <= m
<1>. DEFINE R == OpToRel(<, Nat)
<1>1. \A x, y \in Nat : x < y => <<x, y>> \in R
  BY DEF OpToRel
<1>2. IsWellFoundedOn(R, Nat)
  BY NatLessThanWellFounded
<1>. HIDE DEF R
<1>3. PICK n \in S : \A m \in S : <<m, n>> \notin R
  BY <1>2, WFMin
<1>4. ASSUME NEW m \in S PROVE n <= m
  <2>1. m \in Nat /\ n \in Nat
    OBVIOUS
  <2>2. ~(m < n)
    BY <1>1, <1>3, <2>1, Zenon
  <2>. QED
    BY <2>1, <2>2
<1>. QED
  BY <1>4

(* A set of numbers with 0 and every successor is all of them. *)
LEMMA NatSetInduction ==
    ASSUME NEW S \in SUBSET Nat, 0 \in S, \A n \in S : n + 1 \in S
    PROVE  S = Nat
<1>. SUFFICES ASSUME Nat \ S # {} PROVE FALSE
  OBVIOUS
<1>1. PICK n \in Nat \ S : \A m \in Nat \ S : n <= m
  BY Least
<1>2. n # 0 /\ n - 1 \in Nat
  BY <1>1
<1>3. n - 1 \in S
  BY <1>1, <1>2
<1>. QED
  BY <1>1, <1>2, <1>3

-----------------------------------------------------------------------------
(* Kahn's algorithm.                                                         *)

Table == [degree : [Task -> Int], level : SUBSET Task]

(* Dependencies are tasks, and finitely many. *)
LEMMA DependenciesFinite ==
    ASSUME NEW dag, NEW t \in Task
    PROVE  /\ IsFiniteSet(Dependencies(dag, t)) /\ Dependencies(dag, t) \subseteq Task
           /\ Cardinality(Dependencies(dag, t)) \in Nat
           /\ \A S : /\ IsFiniteSet(Dependencies(dag, t) \cap S)
                    /\ Cardinality(Dependencies(dag, t) \cap S) \in Nat
<1>1. Dependencies(dag, t) \subseteq Task
  BY DEF Dependencies
<1>2. IsFiniteSet(Dependencies(dag, t))
  BY <1>1, TaskGraphAssumption, FS_Subset
<1>3. \A S : IsFiniteSet(Dependencies(dag, t) \cap S)
  BY <1>2, FS_Intersection
<1>. QED
  BY <1>1, <1>2, <1>3, FS_CardinalityType

(* One turn of the level loop keeps its tables typed. *)
LEMMA TablesTyped ==
    ASSUME NEW dag
    PROVE  /\ FirstLevel(dag) \in Table
           /\ \A table \in Table : NextLevel(dag, table) \in Table
<1>1. FirstLevel(dag) \in Table
  <2>1. InDegree(dag) \in [Task -> Int]
    BY DependenciesFinite DEF InDegree
  <2>. QED
    BY <2>1 DEF FirstLevel, Table
<1>2. ASSUME NEW table \in Table PROVE NextLevel(dag, table) \in Table
  <2>. DEFINE degree == [t \in Task |->
                           table.degree[t] - Cardinality(Dependencies(dag, t) \cap table.level)]
  <2>1. \A t \in Task : /\ table.degree[t] \in Int
                        /\ Cardinality(Dependencies(dag, t) \cap table.level) \in Int
    BY DependenciesFinite DEF Table
  <2>2. degree \in [Task -> Int]
    BY <2>1
  <2>3. [degree |-> degree, level |-> {t \in Task : degree[t] = 0 /\ table.degree[t] # 0}] \in Table
    BY <2>2 DEF Table
  <2>. QED
    BY <2>3 DEF NextLevel
<1>. QED
  BY <1>1, <1>2

(* The first k + 1 tables. *)
Run(dag, k, f) ==
    /\ f \in [0..k -> Table] /\ f[0] = FirstLevel(dag)
    /\ \A i \in 1..k : f[i] = NextLevel(dag, f[i-1])

(* There is a run of the level loop of every length. *)
LEMMA RunsExist ==
    ASSUME NEW dag
    PROVE  \A k \in Nat : \E f : Run(dag, k, f)
<1>. DEFINE S == {k \in Nat : \E f : Run(dag, k, f)}
<1>1. 0 \in S
  <2>. DEFINE f == [i \in 0..0 |-> FirstLevel(dag)]
  <2>1. Run(dag, 0, f)
    BY TablesTyped DEF Run
  <2>. QED
    BY <2>1
<1>2. ASSUME NEW k \in S PROVE k + 1 \in S
  <2>1. PICK f : Run(dag, k, f)
    OBVIOUS
  <2>2. k \in Nat /\ k + 1 \in Nat /\ k \in 0..k
    OBVIOUS
  <2>. DEFINE g == [i \in 0..(k+1) |-> IF i \in 0..k THEN f[i] ELSE NextLevel(dag, f[k])]
  <2>3. \A i \in 0..k : g[i] = f[i] /\ f[i] \in Table
    BY <2>1, <2>2 DEF Run
  <2>4. g[k+1] = NextLevel(dag, f[k]) /\ NextLevel(dag, f[k]) \in Table
    <3>1. f[k] \in Table
      BY <2>2, <2>3
    <3>2. k + 1 \in 0..(k+1) /\ k + 1 \notin 0..k
      BY <2>2
    <3>3. NextLevel(dag, f[k]) \in Table
      BY <3>1, TablesTyped
    <3>. QED
      BY <3>2, <3>3
  <2>5. \A i \in 0..(k+1) : i \in 0..k \/ i = k + 1
    BY <2>2
  <2>6. g \in [0..(k+1) -> Table]
    BY <2>3, <2>4, <2>5
  <2>7. g[0] = FirstLevel(dag)
    BY <2>1, <2>2, <2>3 DEF Run
  <2>. HIDE DEF g
  <2>8. \A i \in 1..(k+1) : g[i] = NextLevel(dag, g[i-1])
    <3>. SUFFICES ASSUME NEW i \in 1..(k+1) PROVE g[i] = NextLevel(dag, g[i-1])
      OBVIOUS
    <3>1. CASE i \in 1..k
      <4>1. i \in 0..k /\ i - 1 \in 0..k
        BY <2>2, <3>1
      <4>2. g[i] = f[i] /\ g[i-1] = f[i-1]
        BY <2>3, <4>1
      <4>. QED
        BY <2>1, <3>1, <4>2 DEF Run
    <3>2. CASE i = k + 1
      <4>1. i - 1 = k
        BY <2>2, <3>2
      <4>. QED
        BY <2>2, <2>3, <2>4, <3>2, <4>1
    <3>. QED
      BY <2>2, <3>1, <3>2
  <2>. QED
    BY <2>2, <2>6, <2>7, <2>8 DEF Run
<1>3. S \subseteq Nat
  OBVIOUS
<1>. HIDE DEF S
<1>4. S = Nat
  BY <1>1, <1>2, <1>3, NatSetInduction
<1>. QED
  BY <1>4 DEF S

(* Two runs of the level loop agree where both are defined. *)
LEMMA RunsAgree ==
    ASSUME NEW dag, NEW k \in Nat, NEW l \in Nat, NEW f, NEW g,
           Run(dag, k, f), Run(dag, l, g)
    PROVE  \A i \in Nat : i <= k /\ i <= l => f[i] = g[i]
<1>. DEFINE S == {i \in Nat : i <= k /\ i <= l => f[i] = g[i]}
<1>1. 0 \in S
  BY DEF Run
<1>2. ASSUME NEW i \in S PROVE i + 1 \in S
  <2>. SUFFICES ASSUME i + 1 <= k, i + 1 <= l PROVE f[i+1] = g[i+1]
    OBVIOUS
  <2>1. i \in Nat /\ i + 1 \in 1..k /\ i + 1 \in 1..l /\ (i + 1) - 1 = i /\ i <= k /\ i <= l
    OBVIOUS
  <2>2. f[i] = g[i]
    BY <2>1
  <2>3. f[i+1] = NextLevel(dag, f[i]) /\ g[i+1] = NextLevel(dag, g[i])
    BY <2>1 DEF Run
  <2>. QED
    BY <2>2, <2>3
<1>3. S \subseteq Nat
  OBVIOUS
<1>. HIDE DEF S
<1>4. S = Nat
  BY <1>1, <1>2, <1>3, NatSetInduction
<1>. QED
  BY <1>4 DEF S

KahnOf(dag, f) ==
    f = [n \in Nat |-> IF n = 0 THEN FirstLevel(dag) ELSE NextLevel(dag, f[n-1])]

(* The recursion of Kahn has its intended meaning. *)
LEMMA KahnSteps ==
    ASSUME NEW dag
    PROVE  /\ Kahn(dag) \in [Nat -> Table]
           /\ Kahn(dag)[0] = FirstLevel(dag)
           /\ \A n \in Nat : Kahn(dag)[n+1] = NextLevel(dag, Kahn(dag)[n])
<1>. DEFINE R(n) == CHOOSE f : Run(dag, n, f)
            F == [n \in Nat |-> R(n)[n]]
<1>1. \A n \in Nat : Run(dag, n, R(n))
  BY RunsExist
<1>. HIDE DEF R
<1>2. F[0] = FirstLevel(dag)
  BY <1>1 DEF Run
<1>3. ASSUME NEW n \in Nat, n # 0 PROVE F[n] = NextLevel(dag, F[n-1])
  <2>1. n - 1 \in Nat /\ n \in 1..n /\ n - 1 <= n /\ n - 1 <= n - 1
    BY <1>3
  <2>2. Run(dag, n, R(n)) /\ Run(dag, n-1, R(n-1))
    BY <1>1, <2>1
  <2>3. R(n)[n] = NextLevel(dag, R(n)[n-1])
    BY <2>1, <2>2 DEF Run
  <2>4. R(n)[n-1] = R(n-1)[n-1]
    BY <2>1, <2>2, RunsAgree
  <2>. QED
    BY <2>1, <2>3, <2>4
<1>. HIDE DEF F
<1>4. KahnOf(dag, F)
  <2>1. F = [n \in Nat |-> F[n]]
    BY DEF F
  <2>. QED
    BY <1>2, <1>3, <2>1 DEF KahnOf
<1>5. KahnOf(dag, Kahn(dag))
  <2>1. Kahn(dag) = CHOOSE f : KahnOf(dag, f)
    BY DEF Kahn, KahnOf
  <2>. QED
    BY <1>4, <2>1
<1>. DEFINE K == Kahn(dag)
<1>6. /\ K[0] = FirstLevel(dag) /\ K = [n \in Nat |-> K[n]]
      /\ \A n \in Nat : n # 0 => K[n] = NextLevel(dag, K[n-1])
  BY <1>5 DEF KahnOf
<1>7. \A n \in Nat : K[n+1] = NextLevel(dag, K[n])
  <2>1. \A n \in Nat : n + 1 \in Nat /\ n + 1 # 0 /\ (n + 1) - 1 = n
    OBVIOUS
  <2>. HIDE DEF K
  <2>. QED
    BY <1>6, <2>1
<1>. HIDE DEF K
<1>8. K \in [Nat -> Table]
  <2>. DEFINE S == {n \in Nat : K[n] \in Table}
  <2>1. 0 \in S
    BY <1>6, TablesTyped
  <2>2. \A n \in S : n + 1 \in S
    BY <1>7, TablesTyped
  <2>3. S \subseteq Nat
    OBVIOUS
  <2>. HIDE DEF S
  <2>4. S = Nat
    BY <2>1, <2>2, <2>3, NatSetInduction
  <2>. QED
    BY <1>6, <2>4 DEF S
<1>. QED
  BY <1>6, <1>7, <1>8 DEF K

(* The tasks of the levels before n. *)
Before(dag, n) == {t \in Task : \E i \in Nat : i < n /\ t \in Kahn(dag)[i].level}

(* A degree counts the dependencies that are not in an earlier level.        *)
LevelInv(dag, n) ==
    /\ \A t \in Task : Kahn(dag)[n].degree[t]
                         = Cardinality(Dependencies(dag, t) \ Before(dag, n))
    /\ \A t \in Task : t \in Kahn(dag)[n].level
                         <=> /\ Dependencies(dag, t) \subseteq Before(dag, n)
                             /\ t \notin Before(dag, n)
    /\ \A t \in Before(dag, n) : Dependencies(dag, t) \subseteq Before(dag, n)

(* One more level. *)
LEMMA BeforeNext ==
    ASSUME NEW dag, NEW n \in Nat
    PROVE  Before(dag, n + 1) = Before(dag, n) \cup Kahn(dag)[n].level
<1>1. Kahn(dag)[n].level \subseteq Task
  BY KahnSteps DEF Table
<1>2. \A i \in Nat : i < n + 1 <=> i < n \/ i = n
  OBVIOUS
<1>. QED
  BY <1>1, <1>2 DEF Before

(* A task has no dependency left when their number is zero. *)
LEMMA EmptyDifference ==
    ASSUME NEW dag, NEW t \in Task, NEW S
    PROVE  /\ IsFiniteSet(Dependencies(dag, t) \ S)
           /\ Cardinality(Dependencies(dag, t) \ S) \in Nat
           /\ Cardinality(Dependencies(dag, t) \ S) = 0 <=> Dependencies(dag, t) \subseteq S
<1>1. IsFiniteSet(Dependencies(dag, t) \ S)
  BY DependenciesFinite, FS_Difference
<1>. QED
  BY <1>1, FS_CardinalityType, FS_EmptySet

(* The in-degree of a task counts the dependencies that are in no earlier level. *)
LEMMA LevelsOfKahn ==
    ASSUME NEW dag
    PROVE  \A n \in Nat : LevelInv(dag, n)
<1>. DEFINE K == Kahn(dag)
            D(t) == Dependencies(dag, t)
            B(n) == Before(dag, n)
            S == {n \in Nat : LevelInv(dag, n)}
<1>1. 0 \in S
  <2>1. B(0) = {}
    BY DEF Before
  <2>2. K[0] = FirstLevel(dag)
    BY KahnSteps
  <2>3. \A t \in Task : K[0].degree[t] = Cardinality(D(t)) /\ D(t) \ B(0) = D(t)
    BY <2>1, <2>2 DEF FirstLevel, InDegree
  <2>4. \A t \in Task : t \in K[0].level <=> Cardinality(D(t)) = 0
    BY <2>2 DEF FirstLevel, InDegree
  <2>5. \A t \in Task : Cardinality(D(t)) = 0 <=> D(t) \subseteq B(0)
    BY <2>3, EmptyDifference
  <2>. QED
    BY <2>1, <2>3, <2>4, <2>5 DEF LevelInv
<1>2. ASSUME NEW n \in S PROVE n + 1 \in S
  <2>1. n \in Nat /\ n + 1 \in Nat /\ LevelInv(dag, n)
    OBVIOUS
  <2>2. B(n+1) = B(n) \cup K[n].level /\ K[n].level \subseteq Task
    BY <2>1, BeforeNext, KahnSteps DEF Table
  <2>3. K[n+1] = NextLevel(dag, K[n])
    BY <2>1, KahnSteps
  <2>4. \A t \in Task : t \in B(n+1) <=> D(t) \subseteq B(n)
    BY <2>1, <2>2 DEF LevelInv
  <2>5. \A t \in Task : K[n+1].degree[t] = K[n].degree[t] - Cardinality(D(t) \cap K[n].level)
    BY <2>3 DEF NextLevel
  <2>6. \A t \in Task : t \in K[n+1].level <=> K[n+1].degree[t] = 0 /\ K[n].degree[t] # 0
    BY <2>3 DEF NextLevel
  <2>7. ASSUME NEW t \in Task
        PROVE  K[n+1].degree[t] = Cardinality(D(t) \ B(n+1))
    <3>. DEFINE R == D(t) \ B(n)
                L == K[n].level
    <3>1. IsFiniteSet(R)
      BY EmptyDifference
    <3>2. Cardinality(R \ L) = Cardinality(R) - Cardinality(R \cap L)
      BY <3>1, FS_Difference
    <3>3. L \cap B(n) = {}
      BY <2>1, <2>2 DEF LevelInv
    <3>4. R \cap L = D(t) \cap L /\ R \ L = D(t) \ B(n+1)
      BY <2>2, <3>3
    <3>5. K[n].degree[t] = Cardinality(R)
      BY <2>1 DEF LevelInv
    <3>. QED
      BY <2>5, <3>2, <3>4, <3>5
  <2>8. ASSUME NEW t \in Task
        PROVE  t \in K[n+1].level <=> D(t) \subseteq B(n+1) /\ t \notin B(n+1)
    <3>1. K[n+1].degree[t] = 0 <=> D(t) \subseteq B(n+1)
      BY <2>7, EmptyDifference
    <3>2. K[n].degree[t] # 0 <=> ~(D(t) \subseteq B(n))
      BY <2>1, EmptyDifference DEF LevelInv
    <3>. QED
      BY <2>4, <2>6, <3>1, <3>2
  <2>9. \A t \in B(n+1) : D(t) \subseteq B(n+1)
    BY <2>2, <2>4 DEF Before
  <2>. QED
    BY <2>1, <2>7, <2>8, <2>9 DEF LevelInv
<1>3. S \subseteq Nat
  OBVIOUS
<1>. HIDE DEF S
<1>4. S = Nat
  BY <1>1, <1>2, <1>3, NatSetInduction
<1>. QED
  BY <1>4 DEF S

(* Sets of levels that are not empty: the first GroupCount. *)
LEMMA InitialSegment ==
    ASSUME NEW N \in Nat, NEW I \in SUBSET (0..N), \A n \in Nat : n + 1 \in I => n \in I
    PROVE  /\ Cardinality(I) \in Nat
           /\ \A n \in Nat : n < Cardinality(I) => n \in I
           /\ \A n \in I : n < Cardinality(I)
<1>1. N + 1 \in Nat \ I
  OBVIOUS
<1>2. PICK m \in Nat \ I : \A n \in Nat \ I : m <= n
  BY <1>1, Least
<1>3. \A n \in Nat : n < m => n \in I
  BY <1>2
<1>4. \A n \in I : n < m
  <2>. DEFINE S == {k \in Nat : m + k \notin I}
  <2>1. 0 \in S
    BY <1>2
  <2>2. ASSUME NEW k \in S PROVE k + 1 \in S
    <3>1. k \in Nat /\ m + k \in Nat /\ m + (k + 1) = (m + k) + 1 /\ m + k \notin I
      OBVIOUS
    <3>. QED
      BY <3>1
  <2>3. S \subseteq Nat
    OBVIOUS
  <2>. HIDE DEF S
  <2>4. S = Nat
    BY <2>1, <2>2, <2>3, NatSetInduction
  <2>. SUFFICES ASSUME NEW n \in I, ~(n < m) PROVE FALSE
    OBVIOUS
  <2>5. n - m \in Nat /\ m + (n - m) = n
    OBVIOUS
  <2>. QED
    BY <2>4, <2>5 DEF S
<1>5. I = 0..(m-1)
  <2>1. \A n \in I : n \in 0..(m-1)
    BY <1>4
  <2>2. \A n \in 0..(m-1) : n \in I
    BY <1>3
  <2>. QED
    BY <2>1, <2>2
<1>6. Cardinality(0..(m-1)) = m
  <2>1. 0 \in Int /\ m - 1 \in Int
    OBVIOUS
  <2>2. Cardinality(0..(m-1)) = IF 0 > m - 1 THEN 0 ELSE (m - 1) - 0 + 1
    BY <2>1, FS_Interval
  <2>. QED
    BY <2>2
<1>. QED
  BY <1>3, <1>4, <1>5, <1>6

(* The first GroupCount levels are the ones that are not empty. *)
LEMMA GroupLevels ==
    ASSUME NEW dag
    PROVE  /\ GroupCount(dag) \in Nat
           /\ \A g \in 1..GroupCount(dag) :
                 Levels(dag)[g-1] = Kahn(dag)[g-1].level
           /\ \A n \in Nat : n < GroupCount(dag) =>
                 n \in 0..Cardinality(Task) /\ Kahn(dag)[n].level # {}
           /\ GroupCount(dag) \in 0..Cardinality(Task) => Kahn(dag)[GroupCount(dag)].level = {}
<1>. DEFINE N == Cardinality(Task)
            I == {n \in DOMAIN Levels(dag) : Levels(dag)[n] # {}}
<1>1. N \in Nat
  BY TaskGraphAssumption, FS_CardinalityType
<1>2. DOMAIN Levels(dag) = 0..N /\ \A n \in 0..N : Levels(dag)[n] = Kahn(dag)[n].level
  BY DEF Levels
<1>3. ASSUME NEW n \in Nat, n + 1 \in I PROVE n \in I
  <2>1. n \in 0..N /\ n + 1 \in 0..N
    BY <1>1, <1>2, <1>3
  <2>2. PICK t : t \in Kahn(dag)[n+1].level
    BY <1>2, <1>3, <2>1
  <2>3. t \in Task
    BY <2>2, KahnSteps DEF Table
  <2>4. /\ Dependencies(dag, t) \subseteq Before(dag, n + 1) /\ t \notin Before(dag, n + 1)
    BY <2>2, <2>3, LevelsOfKahn DEF LevelInv
  <2>5. SUFFICES ASSUME Kahn(dag)[n].level = {} PROVE FALSE
    BY <1>2, <2>1
  <2>6. Before(dag, n + 1) = Before(dag, n)
    BY <2>5, BeforeNext
  <2>7. t \in Kahn(dag)[n].level
    BY <2>3, <2>4, <2>6, LevelsOfKahn DEF LevelInv
  <2>. QED
    BY <2>5, <2>7
<1>4. I \in SUBSET (0..N)
  BY <1>2
<1>5. /\ Cardinality(I) \in Nat /\ \A n \in Nat : n < Cardinality(I) => n \in I
      /\ \A n \in I : n < Cardinality(I)
  BY <1>1, <1>3, <1>4, InitialSegment
<1>6. GroupCount(dag) = Cardinality(I)
  BY DEF GroupCount
<1>7. \A n \in 0..N : n \in I <=> Kahn(dag)[n].level # {}
  BY <1>2
<1>. HIDE DEF I
<1>8. \A g \in 1..GroupCount(dag) : g - 1 \in Nat /\ g - 1 < GroupCount(dag)
  BY <1>5, <1>6
<1>9. GroupCount(dag) \notin I
  BY <1>5, <1>6
<1>. QED
  BY <1>2, <1>4, <1>5, <1>6, <1>7, <1>8, <1>9

(* Orders of the elements of a set by priority. *)
Orders(tasks) ==
    {s \in [1..Cardinality(tasks) -> tasks] :
        \A i, j \in DOMAIN s : i < j => s[i] # s[j] /\ Priority[s[i]] <= Priority[s[j]]}

(* A set of tasks has one that no other precedes by priority. *)
LEMMA FirstByPriority ==
    ASSUME NEW tasks \in SUBSET Task, tasks # {}
    PROVE  \E t \in tasks : \A u \in tasks : Priority[t] <= Priority[u]
<1>. DEFINE P == {Priority[t] : t \in tasks}
<1>1. P \in SUBSET Nat /\ P # {}
  BY TaskGraphAssumption
<1>2. PICK p \in P : \A q \in P : p <= q
  BY <1>1, Least
<1>. QED
  BY <1>2

(* Every set of tasks can be ordered by priority. *)
LEMMA OrdersExist ==
    ASSUME NEW tasks \in SUBSET Task
    PROVE  Orders(tasks) # {}
<1>. DEFINE S == {n \in Nat : \A ts \in SUBSET Task : Cardinality(ts) = n => Orders(ts) # {}}
<1>1. 0 \in S
  <2>. SUFFICES ASSUME NEW ts \in SUBSET Task, Cardinality(ts) = 0 PROVE Orders(ts) # {}
    OBVIOUS
  <2>. DEFINE s == [i \in 1..0 |-> 0]
  <2>1. s \in [1..0 -> ts] /\ DOMAIN s = {}
    OBVIOUS
  <2>2. s \in Orders(ts)
    BY <2>1 DEF Orders
  <2>. QED
    BY <2>2
<1>2. ASSUME NEW n \in S PROVE n + 1 \in S
  <2>. SUFFICES ASSUME NEW ts \in SUBSET Task, Cardinality(ts) = n + 1 PROVE Orders(ts) # {}
    OBVIOUS
  <2>1. n \in Nat /\ IsFiniteSet(ts) /\ ts # {}
    BY TaskGraphAssumption, FS_Subset, FS_EmptySet
  <2>2. PICK t \in ts : \A u \in ts : Priority[t] <= Priority[u]
    BY <2>1, FirstByPriority
  <2>3. Cardinality(ts \ {t}) = n
    BY <2>1, FS_RemoveElement
  <2>4. PICK s : s \in Orders(ts \ {t})
    BY <2>3
  <2>5. /\ s \in [1..n -> ts \ {t}]
        /\ \A i, j \in 1..n : i < j => s[i] # s[j] /\ Priority[s[i]] <= Priority[s[j]]
    BY <2>3, <2>4 DEF Orders
  <2>. DEFINE r == [i \in 1..(n+1) |-> IF i = 1 THEN t ELSE s[i-1]]
  <2>6. \A i \in 1..(n+1) : i = 1 \/ i - 1 \in 1..n
    BY <2>1
  <2>7. \A i \in 1..(n+1) : IF i = 1 THEN r[i] = t ELSE r[i] = s[i-1] /\ r[i] \in ts \ {t}
    BY <2>5, <2>6
  <2>8. r \in [1..(n+1) -> ts]
    BY <2>5, <2>6
  <2>. HIDE DEF r
  <2>9. ASSUME NEW i \in 1..(n+1), NEW j \in 1..(n+1), i < j
        PROVE  r[i] # r[j] /\ Priority[r[i]] <= Priority[r[j]]
    <3>1. j # 1 /\ r[j] = s[j-1] /\ r[j] \in ts \ {t} /\ j - 1 \in 1..n
      BY <2>6, <2>7, <2>9
    <3>2. CASE i = 1
      BY <2>2, <2>7, <3>1, <3>2
    <3>3. CASE i # 1
      <4>1. r[i] = s[i-1] /\ i - 1 \in 1..n /\ i - 1 < j - 1
        BY <2>6, <2>7, <2>9, <3>3
      <4>. QED
        BY <2>5, <3>1, <4>1
    <3>. QED
      BY <3>2, <3>3
  <2>10. r \in Orders(ts)
    BY <2>8, <2>9 DEF Orders
  <2>. QED
    BY <2>10
<1>3. S \subseteq Nat
  OBVIOUS
<1>. HIDE DEF S
<1>4. S = Nat
  BY <1>1, <1>2, <1>3, NatSetInduction
<1>5. Cardinality(tasks) \in Nat
  BY TaskGraphAssumption, FS_Subset, FS_CardinalityType
<1>. QED
  BY <1>4, <1>5 DEF S

Distinct(s) == \A i, j \in DOMAIN s : s[i] = s[j] => i = j

(* Sorting a level loses no task and repeats none. *)
LEMMA Sorted ==
    ASSUME NEW tasks \in SUBSET Task
    PROVE  /\ ByPriority(tasks) \in Seq(Task)
           /\ Distinct(ByPriority(tasks))
           /\ Members(ByPriority(tasks)) = tasks
<1>. DEFINE s == ByPriority(tasks)
            n == Cardinality(tasks)
<1>1. IsFiniteSet(tasks) /\ n \in Nat
  BY TaskGraphAssumption, FS_Subset, FS_CardinalityType
<1>2. s \in Orders(tasks)
  BY OrdersExist DEF ByPriority, Orders
<1>. HIDE DEF s
<1>3. /\ s \in [1..n -> tasks] /\ \A i, j \in 1..n : i < j => s[i] # s[j]
  BY <1>2 DEF Orders
<1>4. \A i, j \in 1..n : s[i] = s[j] => i = j
  <2>. SUFFICES ASSUME NEW i \in 1..n, NEW j \in 1..n, s[i] = s[j], i # j PROVE FALSE
    OBVIOUS
  <2>1. i < j \/ j < i
    BY <1>1
  <2>. QED
    BY <1>3, <2>1
<1>5. s \in Injection(1..n, tasks)
  BY <1>3, <1>4, Fun_IsInj
<1>6. Cardinality(1..n) = n
  <2>1. Cardinality(1..n) = IF 1 > n THEN 0 ELSE n - 1 + 1
    BY <1>1, FS_Interval
  <2>. QED
    BY <1>1, <2>1
<1>7. s \in Surjection(1..n, tasks)
  BY <1>1, <1>5, <1>6, FS_Injection
<1>8. Members(s) = tasks
  BY <1>3, <1>7 DEF Members, Surjection
<1>9. s \in Seq(Task)
  <2>1. s \in [1..n -> Task]
    BY <1>3
  <2>. QED
    BY <1>1, <2>1
<1>. QED
  BY <1>3, <1>4, <1>8, <1>9 DEF Distinct, s

(* The groups that analyzeTaskGraph returns. *)
GroupsOf(dag) == [g \in 1..GroupCount(dag) |-> Group(dag, g)]

(* The groups are the levels: every task is in at most one group, once, and    *)
(* what it depends on is in an earlier one (topologicalSort).                *)
THEOREM GroupsInOrder ==
    ASSUME NEW dag, NEW gs, gs = GroupsOf(dag)
    PROVE  /\ gs \in Seq(Seq(Task))
           /\ \A g \in DOMAIN gs : Distinct(gs[g])
           /\ \A g, h \in DOMAIN gs : g # h => Members(gs[g]) \cap Members(gs[h]) = {}
           /\ \A g \in DOMAIN gs : \A t \in Members(gs[g]) : \A d \in Dependencies(dag, t) :
                 \E h \in DOMAIN gs : h < g /\ d \in Members(gs[h])
<1>. DEFINE L(n) == Kahn(dag)[n].level
            B(n) == Before(dag, n)
<1>1. GroupCount(dag) \in Nat
  BY GroupLevels
<1>2. \A n \in Nat : L(n) \subseteq Task
  BY KahnSteps DEF Table
<1>3. DOMAIN gs = 1..GroupCount(dag)
      /\ \A g \in DOMAIN gs : g - 1 \in Nat /\ gs[g] = ByPriority(L(g-1))
  <2>1. \A g \in 1..GroupCount(dag) : g - 1 \in Nat
    BY <1>1
  <2>. QED
    BY <2>1, GroupLevels DEF Group, GroupsOf
<1>4. \A g \in DOMAIN gs : /\ gs[g] \in Seq(Task) /\ Distinct(gs[g]) /\ Members(gs[g]) = L(g-1)
  BY <1>2, <1>3, Sorted
<1>5. gs \in Seq(Seq(Task))
  <2>1. gs \in [1..GroupCount(dag) -> Seq(Task)]
    BY <1>3, <1>4 DEF GroupsOf
  <2>. QED
    BY <1>1, <2>1
<1>6. \A n \in Nat : \A t \in L(n) :
         t \in Task /\ t \notin B(n) /\ Dependencies(dag, t) \subseteq B(n)
  BY <1>2, LevelsOfKahn DEF LevelInv
<1>7. ASSUME NEW g \in DOMAIN gs, NEW h \in DOMAIN gs, g < h
      PROVE  Members(gs[g]) \cap Members(gs[h]) = {}
  <2>1. g - 1 \in Nat /\ h - 1 \in Nat /\ g - 1 < h - 1
    BY <1>1, <1>3, <1>7
  <2>2. \A t \in L(g-1) : t \in B(h-1)
    BY <1>2, <2>1 DEF Before
  <2>. QED
    BY <1>4, <1>6, <2>1, <2>2
<1>8. ASSUME NEW g \in DOMAIN gs, NEW h \in DOMAIN gs, g # h
      PROVE  Members(gs[g]) \cap Members(gs[h]) = {}
  <2>1. g < h \/ h < g
    BY <1>1, <1>3, <1>8
  <2>. QED
    BY <1>7, <2>1
<1>9. ASSUME NEW g \in DOMAIN gs, NEW t \in Members(gs[g]), NEW d \in Dependencies(dag, t)
      PROVE  \E h \in DOMAIN gs : h < g /\ d \in Members(gs[h])
  <2>1. g - 1 \in Nat /\ g \in 1..GroupCount(dag)
    BY <1>3
  <2>2. t \in L(g-1)
    BY <1>4
  <2>3. d \in B(g-1)
    BY <1>6, <2>1, <2>2
  <2>4. PICK n \in Nat : n < g - 1 /\ d \in L(n)
    BY <2>3 DEF Before
  <2>5. n + 1 \in DOMAIN gs /\ n + 1 < g /\ (n + 1) - 1 = n
    BY <1>1, <1>3, <2>1, <2>4
  <2>6. Members(gs[n+1]) = L(n)
    BY <1>4, <2>5
  <2>. QED
    BY <2>4, <2>5, <2>6
<1>. QED
  BY <1>4, <1>5, <1>8, <1>9

(* No task runs later than its dependencies require: what is not in the first   *)
(* group depends on a task of the group before.  With GroupsInOrder, a task is  *)
(* in the group that its longest chain of dependencies gives (topologicalSort). *)
THEOREM GroupsAreTight ==
    ASSUME NEW dag, NEW gs, gs = GroupsOf(dag),
           NEW g \in DOMAIN gs, g # 1, NEW t \in Members(gs[g])
    PROVE  g - 1 \in DOMAIN gs /\ \E d \in Dependencies(dag, t) : d \in Members(gs[g-1])
<1>. DEFINE L(n) == Kahn(dag)[n].level
            B(n) == Before(dag, n)
            n == g - 2
<1>1. GroupCount(dag) \in Nat
  BY GroupLevels
<1>2. DOMAIN gs = 1..GroupCount(dag)
  BY DEF GroupsOf
<1>3. n \in Nat /\ n + 1 \in Nat /\ n + 1 = g - 1 /\ g - 1 \in DOMAIN gs /\ (g - 1) - 1 = n
  BY <1>1, <1>2
<1>. HIDE DEF n
<1>4. \A m \in Nat : L(m) \subseteq Task
  BY KahnSteps DEF Table
<1>5. \A h \in DOMAIN gs : h - 1 \in Nat => Members(gs[h]) = L(h-1)
  <2>1. \A h \in DOMAIN gs : gs[h] = ByPriority(L(h-1))
    BY <1>2, GroupLevels DEF Group, GroupsOf
  <2>. QED
    BY <1>4, <2>1, Sorted
<1>6. Members(gs[g]) = L(n+1) /\ Members(gs[g-1]) = L(n)
  BY <1>3, <1>5
<1>7. t \in Task /\ t \in L(n+1)
  BY <1>3, <1>4, <1>6
<1>8. Dependencies(dag, t) \subseteq B(n+1) /\ t \notin B(n+1)
  BY <1>3, <1>7, LevelsOfKahn DEF LevelInv
<1>9. B(n+1) = B(n) \cup L(n)
  BY <1>3, BeforeNext
<1>10. ~(Dependencies(dag, t) \subseteq B(n))
  BY <1>3, <1>7, <1>8, <1>9, LevelsOfKahn DEF LevelInv
<1>. QED
  BY <1>3, <1>6, <1>8, <1>9, <1>10

(* As many tasks, at least, as levels that are not empty. *)
LEMMA LevelsCount ==
    ASSUME NEW dag
    PROVE  GroupCount(dag) <= Cardinality(Task)
<1>. DEFINE B(n) == Before(dag, n)
            k == GroupCount(dag)
            S == {n \in Nat : n <= k => Cardinality(B(n)) >= n}
<1>1. IsFiniteSet(Task) /\ Cardinality(Task) \in Nat /\ k \in Nat
  BY TaskGraphAssumption, FS_CardinalityType, GroupLevels
<1>2. \A n \in Nat : B(n) \subseteq Task /\ IsFiniteSet(B(n)) /\ Cardinality(B(n)) \in Nat
                     /\ Cardinality(B(n)) <= Cardinality(Task)
  <2>1. \A n \in Nat : B(n) \subseteq Task
    BY DEF Before
  <2>. QED
    BY <1>1, <2>1, FS_Subset, FS_CardinalityType
<1>. HIDE DEF B, k
<1>3. 0 \in S
  BY <1>2
<1>4. ASSUME NEW n \in S PROVE n + 1 \in S
  <2>. SUFFICES ASSUME n + 1 <= k PROVE Cardinality(B(n+1)) >= n + 1
    OBVIOUS
  <2>1. n \in Nat /\ n + 1 \in Nat /\ n < k /\ Cardinality(B(n)) >= n
    BY <1>1
  <2>2. PICK t : t \in Kahn(dag)[n].level
    BY <2>1, GroupLevels DEF k
  <2>3. t \in Task /\ t \notin B(n) /\ B(n+1) = B(n) \cup Kahn(dag)[n].level
    <3>1. t \in Task
      BY <2>1, <2>2, KahnSteps DEF Table
    <3>. QED
      BY <2>1, <2>2, <3>1, LevelsOfKahn, BeforeNext DEF LevelInv, B
  <2>4. Cardinality(B(n) \cup {t}) = Cardinality(B(n)) + 1
    BY <1>2, <2>1, <2>3, FS_AddElement
  <2>5. B(n) \cup {t} \subseteq B(n+1)
    BY <2>2, <2>3
  <2>6. Cardinality(B(n) \cup {t}) <= Cardinality(B(n+1))
    BY <1>2, <2>1, <2>5, FS_Subset
  <2>. QED
    BY <1>2, <2>1, <2>4, <2>6
<1>5. S \subseteq Nat
  OBVIOUS
<1>. HIDE DEF S
<1>6. S = Nat
  BY <1>3, <1>4, <1>5, NatSetInduction
<1>7. Cardinality(B(k)) >= k
  BY <1>1, <1>6 DEF S
<1>. QED
  BY <1>1, <1>2, <1>7 DEF k

(* No task is left out of the groups without need: one that is in none depends  *)
(* on another that is in none, so that it is in a cycle or behind one          *)
(* (cyclicTaskIds).                                                          *)
THEOREM LeftOutWaits ==
    ASSUME NEW dag, NEW gs, gs = GroupsOf(dag),
           NEW t \in Task, \A g \in DOMAIN gs : t \notin Members(gs[g])
    PROVE  \E d \in Dependencies(dag, t) : \A g \in DOMAIN gs : d \notin Members(gs[g])
<1>. DEFINE k == GroupCount(dag)
<1>1. k \in Nat /\ Cardinality(Task) \in Nat /\ k <= Cardinality(Task)
  BY TaskGraphAssumption, FS_CardinalityType, GroupLevels, LevelsCount
<1>2. Kahn(dag)[k].level = {}
  BY <1>1, GroupLevels
<1>3. \A n \in Nat : n < k => n + 1 \in DOMAIN gs /\ Members(gs[n+1]) = Kahn(dag)[n].level
  <2>1. \A n \in Nat : Kahn(dag)[n].level \subseteq Task
    BY KahnSteps DEF Table
  <2>2. ASSUME NEW n \in Nat, n < k
        PROVE  n + 1 \in DOMAIN gs /\ Members(gs[n+1]) = Kahn(dag)[n].level
    <3>1. n + 1 \in 1..k /\ (n + 1) - 1 = n
      BY <1>1, <2>2
    <3>2. n + 1 \in DOMAIN gs /\ gs[n+1] = ByPriority(Levels(dag)[n])
      BY <3>1 DEF GroupsOf, Group
    <3>3. Levels(dag)[n] = Kahn(dag)[n].level
      BY <3>1, GroupLevels
    <3>. QED
      BY <2>1, <3>2, <3>3, Sorted
  <2>. QED
    BY <2>2
<1>4. \A g \in DOMAIN gs : \E n \in Nat : n < k /\ g = n + 1
  <2>1. DOMAIN gs = 1..k
    BY DEF GroupsOf
  <2>2. \A g \in 1..k : g - 1 \in Nat /\ g - 1 < k /\ g = (g - 1) + 1
    BY <1>1
  <2>. QED
    BY <2>1, <2>2
<1>. HIDE DEF k
<1>5. \A u \in Task : u \in Before(dag, k) <=> \E g \in DOMAIN gs : u \in Members(gs[g])
  BY <1>3, <1>4 DEF Before
<1>6. t \notin Before(dag, k)
  BY <1>5
<1>7. ~(Dependencies(dag, t) \subseteq Before(dag, k))
  BY <1>1, <1>2, <1>6, LevelsOfKahn DEF LevelInv
<1>8. Dependencies(dag, t) \subseteq Task
  BY DEF Dependencies
<1>. QED
  BY <1>5, <1>7, <1>8

-----------------------------------------------------------------------------
(* The invariant.                                                            *)

(* What a step leaves of the tracker is expanded everywhere. *)
USE DEF trackerVars

(* Where execute() is. *)
Setup == {"acquire", "initialize", "start", "working"}
Merging == {"merge", "merging", "completing"}
Resolving == {"resolve", "resolving", "completingResolved"}
InGroup == {"batches"} \cup Setup \cup Merging \cup Resolving

EarlierThan(gs, n) == UNION {Members(gs[g]) : g \in {h \in DOMAIN gs : h < n}}
UpTo(s, n) == {s[i] : i \in {j \in DOMAIN s : j < n}}
From(s, n) == {s[i] : i \in {j \in DOMAIN s : j >= n}}
With(f, value) == {t \in Task : f[t] = value}

ThisGroup == Members(groups[groupIndex])
Earlier == EarlierThan(groups, groupIndex)
InProgress == With(asked, "in_progress")
Completed == With(asked, "completed")

(* The tasks of the batch that are set up, and those still to be merged. *)
SetUp == IF pc \in {"start", "working"} THEN Members(batch) ELSE UpTo(batch, index)
Unmerged == IF pc \in Setup THEN Members(batch)
            ELSE IF pc \in Merging THEN From(batch, index) ELSE {}
HasWorktree(i) ==
    pc \in {"start", "working"} \/ i < index \/ (pc = "initialize" /\ i = index)

(* The plan is the groups of the graph. *)
PlanInv ==
    /\ groups \in {<<>>, GroupsOf(graph)}
    /\ pc = "analyzing" => groups = <<>> /\ groupIndex = 0
    /\ pc = "groups" => groupIndex >= 1 /\ groupIndex <= Len(groups) + 1
    /\ pc \in InGroup => groupIndex \in DOMAIN groups

(* A task is once in what is left of the group, in the batch, among the        *)
(* conflicts or among the retries.                                           *)
ListsInv ==
    /\ pc \in InGroup =>
         Distinct(pending) /\ Members(pending) \subseteq ThisGroup
    /\ pc \in Setup \cup Merging \cup Resolving =>
         /\ Distinct(batch) /\ Members(batch) \subseteq ThisGroup
         /\ Members(batch) \cap Members(pending) = {}
         /\ index \in 1..(Len(batch) + 1)
    /\ pc \in {"acquire", "initialize", "merging", "completing"} => index <= Len(batch)
    /\ pc \in Resolving => index = Len(batch) + 1
    /\ pc \notin Merging \cup Resolving => conflicts = <<>>
    /\ pc \in {"resolving", "completingResolved"} => conflicts # <<>>
    /\ pc \in Merging \cup Resolving =>
         /\ Distinct(conflicts) /\ Members(conflicts) \subseteq UpTo(batch, index)
         /\ Distinct(retryTasks) /\ Members(retryTasks) \subseteq UpTo(batch, index)
         /\ Members(conflicts) \cap Members(retryTasks) = {}
    /\ pc = "batches" => Members(retryTasks) \subseteq Members(pending)
    /\ pc \in Setup => Members(retryTasks) \subseteq ThisGroup
    /\ pc \in {"analyzing", "groups"} => shouldStop \/ retryTasks = <<>>

(* What a task that is in_progress or completed waits for or has behind it.    *)
Waiting ==
    Members(pending) \cup Unmerged \cup
    (IF pc \in Merging \cup Resolving THEN Members(conflicts) \cup Members(retryTasks) ELSE {})
Settled == Earlier \cup (IF pc \in InGroup THEN ThisGroup \ Waiting ELSE {})

TrackerInv ==
    /\ pc \in {"analyzing", "groups", "batches"} => InProgress = {}
    /\ pc \in Setup => InProgress = SetUp
    /\ pc \in Merging \cup Resolving => InProgress = Unmerged \cup Members(conflicts)
    /\ pc \in {"cleanup", "done"} =>
         \A t \in InProgress : t \in UpTo(batch, index) /\ worker[t] \in {"ready", "stopped"}
    /\ pc = "analyzing" => Completed = {}
    /\ pc \in {"groups"} \cup InGroup => Completed \subseteq Settled

(* The counters, unless a stop or an exception leaves tasks out.              *)
CountInv ==
    /\ totalCompleted = Cardinality(Completed)
    /\ \/ shouldStop
       \/ pc \in {"cleanup", "done"} /\ groupIndex <= Len(groups)
       \/ totalCompleted + totalFailed = Cardinality(Settled)
    /\ status = "completed" => /\ pc \in {"cleanup", "done"}
                               /\ groups # <<>> => Planned \subseteq Completed

(* Workers run while all of the batch do; those of the group that are not      *)
(* pending, and those of earlier groups, have ended.                         *)
WorkerInv ==
    /\ \A t \in Task : Active(t) => pc = "working" /\ t \in Members(batch)
    /\ pc \in {"acquire", "initialize", "start"} =>
         \A t \in SetUp : worker[t] \in {"ready", "stopped"}
    /\ pc = "working" =>
         \A t \in Members(batch) : worker[t] \in {"running", "paused", "cancelled", "ended"}
    /\ pc \in Merging \cup Resolving => \A t \in Members(batch) : worker[t] = "ended"
    /\ pc \in InGroup =>
         \A t \in ThisGroup :
            worker[t] = "ended" \/ t \in Members(pending)
              \/ (pc \in Setup /\ t \in Members(batch))
    /\ pc \in InGroup \/ (pc = "groups" /\ ~shouldStop) =>
         \A t \in Earlier : worker[t] = "ended"

(* Of the worktrees on disk no two have a place or a task in common; each task *)
(* that is set up has its own.                                               *)
WorktreeInv ==
    /\ \A w, v \in worktrees :
         (w.group = v.group /\ w.slot = v.slot) \/ w.task = v.task => w = v
    /\ pc \in Setup =>
         \A i \in DOMAIN batch : HasWorktree(i) =>
              /\ batch[i] \in branches
              /\ [group |-> groupIndex, slot |-> i, task |-> batch[i]] \in worktrees

(* What is completed when a task is set up is in its branch. *)
BaseInv ==
    pc \in Setup /\ ~Refused =>
         \A i \in DOMAIN batch : HasWorktree(i) =>
              Dependencies(graph, batch[i]) \cap Completed \subseteq base[batch[i]]

(* A task whose conflict is to be resolved was last marked so; no other mark   *)
(* is changed, so that a refusal is never forgotten.                         *)
LastMark(marks) == marks[Len(marks)]
MergeInv ==
    /\ \A i \in DOMAIN conflicts :
         /\ Len(merges[conflicts[i]]) > 0
         /\ LastMark(merges[conflicts[i]]) =
              IF pc = "completingResolved" /\ i = 1 THEN "completed" ELSE "conflicted"
    /\ conflicts # <<>> => resolves
    /\ Refused \/ Completed \subseteq head
    /\ pc = "completing" => Current \in head
    /\ pc = "completingResolved" => Head(conflicts) \in head

(* The tracker is what it was last asked for, unless it refused that; what was *)
(* completed in it stays asked for.                                          *)
RecordInv ==
    \A t \in Task : /\ t \in unsaved \/ tracker[t] = asked[t]
                    /\ tracker[t] = "completed" => asked[t] = "completed"

IInv == TypeOK /\ PlanInv /\ ListsInv /\ TrackerInv /\ CountInv /\ WorkerInv
        /\ WorktreeInv /\ BaseInv /\ MergeInv /\ RecordInv

-----------------------------------------------------------------------------
(* Sequences and their members.                                              *)

(* The first task of a list, and the others. *)
LEMMA MembersOfTail ==
    ASSUME NEW s \in Seq(Task), s # <<>>
    PROVE  /\ Head(s) \in Task /\ Head(s) = s[1] /\ 1 \in DOMAIN s /\ Tail(s) \in Seq(Task)
           /\ Members(s) = {Head(s)} \cup Members(Tail(s))
           /\ Distinct(s) => Distinct(Tail(s)) /\ Head(s) \notin Members(Tail(s))
           /\ \A i \in DOMAIN Tail(s) : i + 1 \in DOMAIN s /\ i + 1 # 1 /\ Tail(s)[i] = s[i+1]
<1>. DEFINE r == Tail(s)
<1>1. /\ Len(s) \in Nat /\ Len(s) >= 1 /\ DOMAIN s = 1..Len(s) /\ DOMAIN r = 1..(Len(s) - 1)
      /\ r \in Seq(Task) /\ \A i \in DOMAIN r : r[i] = s[i+1]
      /\ Head(s) = s[1] /\ Head(s) \in Task
  OBVIOUS
<1>. HIDE DEF r
<1>2. \A i \in DOMAIN r : i + 1 \in DOMAIN s /\ i + 1 # 1
  BY <1>1
<1>3. \A j \in DOMAIN s : j = 1 \/ (j - 1 \in DOMAIN r /\ s[j] = r[j-1])
  BY <1>1
<1>4. 1 \in DOMAIN s
  BY <1>1
<1>5. Members(s) = {Head(s)} \cup Members(r)
  BY <1>1, <1>2, <1>3, <1>4 DEF Members
<1>6. ASSUME Distinct(s) PROVE Distinct(r) /\ Head(s) \notin Members(r)
  <2>1. \A i, j \in DOMAIN r : i + 1 = j + 1 => i = j
    BY <1>1
  <2>. QED
    BY <1>1, <1>2, <1>4, <1>6, <2>1 DEF Distinct, Members
<1>. QED
  BY <1>1, <1>2, <1>4, <1>5, <1>6 DEF r

(* A task added at the end of a list. *)
LEMMA MembersOfAppend ==
    ASSUME NEW s \in Seq(Task), NEW t \in Task
    PROVE  /\ Append(s, t) \in Seq(Task)
           /\ Members(Append(s, t)) = Members(s) \cup {t}
           /\ Distinct(s) /\ t \notin Members(s) => Distinct(Append(s, t))
           /\ \A i \in DOMAIN Append(s, t) :
                 (i \in DOMAIN s /\ Append(s, t)[i] = s[i]) \/ Append(s, t)[i] = t
<1>. DEFINE r == Append(s, t)
<1>1. /\ Len(s) \in Nat /\ DOMAIN s = 1..Len(s) /\ DOMAIN r = 1..(Len(s) + 1)
      /\ r \in Seq(Task) /\ r[Len(s) + 1] = t /\ \A i \in DOMAIN s : r[i] = s[i]
  OBVIOUS
<1>. HIDE DEF r
<1>2. \A i \in DOMAIN r : i \in DOMAIN s \/ i = Len(s) + 1
  BY <1>1
<1>3. (\A i \in DOMAIN s : i \in DOMAIN r) /\ Len(s) + 1 \in DOMAIN r
  BY <1>1
<1>4. Members(r) = Members(s) \cup {t}
  BY <1>1, <1>2, <1>3 DEF Members
<1>5. ASSUME Distinct(s), t \notin Members(s) PROVE Distinct(r)
  BY <1>1, <1>2, <1>5 DEF Distinct, Members
<1>. QED
  BY <1>1, <1>2, <1>4, <1>5 DEF r

(* One list after another. *)
LEMMA MembersOfConcat ==
    ASSUME NEW s \in Seq(Task), NEW r \in Seq(Task)
    PROVE  /\ s \o r \in Seq(Task)
           /\ Members(s \o r) = Members(s) \cup Members(r)
           /\ Distinct(s) /\ Distinct(r) /\ Members(s) \cap Members(r) = {} => Distinct(s \o r)
<1>. DEFINE q == s \o r
<1>1. /\ Len(s) \in Nat /\ Len(r) \in Nat /\ DOMAIN s = 1..Len(s) /\ DOMAIN r = 1..Len(r)
      /\ DOMAIN q = 1..(Len(s) + Len(r)) /\ q \in Seq(Task)
      /\ \A i \in DOMAIN q : q[i] = IF i <= Len(s) THEN s[i] ELSE r[i - Len(s)]
  OBVIOUS
<1>. HIDE DEF q
<1>2. \A i \in DOMAIN q : \/ i \in DOMAIN s /\ q[i] = s[i]
                          \/ i - Len(s) \in DOMAIN r /\ q[i] = r[i - Len(s)] /\ i > Len(s)
  BY <1>1
<1>3. \A i \in DOMAIN s : i \in DOMAIN q /\ q[i] = s[i]
  BY <1>1
<1>4. \A i \in DOMAIN r : i + Len(s) \in DOMAIN q /\ q[i + Len(s)] = r[i]
  BY <1>1
<1>5. Members(q) = Members(s) \cup Members(r)
  BY <1>2, <1>3, <1>4 DEF Members
<1>6. ASSUME Distinct(s), Distinct(r), Members(s) \cap Members(r) = {} PROVE Distinct(q)
  <2>. SUFFICES ASSUME NEW i \in DOMAIN q, NEW j \in DOMAIN q, q[i] = q[j] PROVE i = j
    BY DEF Distinct
  <2>1. CASE i \in DOMAIN s /\ q[i] = s[i] /\ j \in DOMAIN s /\ q[j] = s[j]
    BY <1>6, <2>1 DEF Distinct
  <2>2. CASE /\ i - Len(s) \in DOMAIN r /\ q[i] = r[i - Len(s)]
             /\ j - Len(s) \in DOMAIN r /\ q[j] = r[j - Len(s)]
    <3>1. i - Len(s) = j - Len(s)
      BY <1>6, <2>2 DEF Distinct
    <3>. QED
      BY <1>1, <3>1
  <2>. QED
    BY <1>2, <1>6, <2>1, <2>2 DEF Members
<1>. QED
  BY <1>1, <1>5, <1>6 DEF q

(* A list cut in two. *)
LEMMA MembersOfSplit ==
    ASSUME NEW s \in Seq(Task), NEW n \in Nat, n <= Len(s)
    PROVE  LET a == SubSeq(s, 1, n)
               b == SubSeq(s, n + 1, Len(s))
           IN  /\ a \in Seq(Task) /\ b \in Seq(Task) /\ Len(a) = n
               /\ Members(s) = Members(a) \cup Members(b)
               /\ Distinct(s) => Distinct(a) /\ Distinct(b) /\ Members(a) \cap Members(b) = {}
<1>. DEFINE a == SubSeq(s, 1, n)
            b == SubSeq(s, n + 1, Len(s))
<1>1. /\ Len(s) \in Nat /\ DOMAIN s = 1..Len(s)
      /\ a \in Seq(Task) /\ Len(a) = n /\ DOMAIN a = 1..n /\ \A i \in 1..n : a[i] = s[i]
  OBVIOUS
<1>2. /\ b \in Seq(Task) /\ DOMAIN b = 1..(Len(s) - n) /\ \A i \in 1..(Len(s) - n) : b[i] = s[n + i]
  OBVIOUS
<1>. HIDE DEF a, b
<1>3. \A i \in DOMAIN s : i \in DOMAIN a \/ (i - n \in DOMAIN b /\ b[i - n] = s[i])
  BY <1>1, <1>2
<1>4. \A i \in DOMAIN a : i \in DOMAIN s /\ i <= n
  BY <1>1
<1>5. \A i \in DOMAIN b : n + i \in DOMAIN s /\ n + i > n
  BY <1>1, <1>2
<1>6. Members(s) = Members(a) \cup Members(b)
  <2>1. \A x \in Members(s) : x \in Members(a) \cup Members(b)
    BY <1>1, <1>3 DEF Members
  <2>2. \A x \in Members(a) : x \in Members(s)
    BY <1>1, <1>4 DEF Members
  <2>3. \A x \in Members(b) : x \in Members(s)
    BY <1>2, <1>5 DEF Members
  <2>. QED
    BY <2>1, <2>2, <2>3
<1>7. ASSUME Distinct(s) PROVE Distinct(a) /\ Distinct(b) /\ Members(a) \cap Members(b) = {}
  <2>1. Distinct(a)
    BY <1>1, <1>4, <1>7 DEF Distinct
  <2>2. Distinct(b)
    <3>. SUFFICES ASSUME NEW i \in DOMAIN b, NEW j \in DOMAIN b, b[i] = b[j] PROVE i = j
      BY DEF Distinct
    <3>1. n + i = n + j
      BY <1>2, <1>5, <1>7 DEF Distinct
    <3>. QED
      BY <1>2, <3>1
  <2>3. ASSUME NEW i \in DOMAIN a, NEW j \in DOMAIN b, a[i] = b[j] PROVE FALSE
    <3>1. i = n + j
      BY <1>1, <1>2, <1>4, <1>5, <1>7, <2>3 DEF Distinct
    <3>. QED
      BY <1>4, <1>5, <3>1
  <2>. QED
    BY <2>1, <2>2, <2>3 DEF Members
<1>. QED
  BY <1>1, <1>2, <1>6, <1>7 DEF a, b

(* The tasks of a list before an index, and from it on. *)
LEMMA MembersByIndex ==
    ASSUME NEW s \in Seq(Task)
    PROVE  /\ UpTo(s, 1) = {} /\ From(s, 1) = Members(s)
           /\ UpTo(s, Len(s) + 1) = Members(s) /\ From(s, Len(s) + 1) = {}
           /\ \A n \in Nat : UpTo(s, n) \subseteq Members(s) /\ From(s, n) \subseteq Members(s)
           /\ \A n \in DOMAIN s :
                 /\ s[n] \in Task /\ s[n] \in Members(s)
                 /\ UpTo(s, n + 1) = UpTo(s, n) \cup {s[n]}
                 /\ From(s, n) = From(s, n + 1) \cup {s[n]}
                 /\ Distinct(s) => s[n] \notin UpTo(s, n) /\ s[n] \notin From(s, n + 1)
           /\ Distinct(s) => \A n \in Nat : UpTo(s, n) \cap From(s, n) = {}
           /\ Members(s) \subseteq Task
<1>1. Len(s) \in Nat /\ DOMAIN s = 1..Len(s)
  OBVIOUS
<1>2. UpTo(s, 1) = {} /\ From(s, 1) = Members(s)
  BY <1>1 DEF UpTo, From, Members
<1>3. UpTo(s, Len(s) + 1) = Members(s) /\ From(s, Len(s) + 1) = {}
  BY <1>1 DEF UpTo, From, Members
<1>4. \A n \in Nat : UpTo(s, n) \subseteq Members(s) /\ From(s, n) \subseteq Members(s)
  BY DEF UpTo, From, Members
<1>5. ASSUME NEW n \in DOMAIN s
      PROVE  /\ s[n] \in Task /\ s[n] \in Members(s)
             /\ UpTo(s, n + 1) = UpTo(s, n) \cup {s[n]}
             /\ From(s, n) = From(s, n + 1) \cup {s[n]}
             /\ Distinct(s) => s[n] \notin UpTo(s, n) /\ s[n] \notin From(s, n + 1)
  <2>1. \A i \in DOMAIN s : /\ i < n + 1 <=> i < n \/ i = n
                            /\ i >= n <=> i >= n + 1 \/ i = n
                            /\ ~(n < n) /\ ~(n >= n + 1)
    BY <1>1
  <2>. QED
    BY <2>1 DEF UpTo, From, Members, Distinct
<1>6. ASSUME Distinct(s), NEW n \in Nat PROVE UpTo(s, n) \cap From(s, n) = {}
  <2>1. \A i, j \in DOMAIN s : i < n /\ j >= n => i # j
    BY <1>1
  <2>. QED
    BY <1>6, <2>1 DEF UpTo, From, Distinct
<1>. QED
  BY <1>2, <1>3, <1>4, <1>5, <1>6 DEF Members

(* The groups before one, and the sets of tasks of the tracker.             *)
LEMMA GroupsBefore ==
    ASSUME NEW dag,
           NEW gs \in {<<>>, GroupsOf(dag)}
    PROVE  /\ gs \in Seq(Seq(Task)) /\ Len(gs) \in Nat /\ DOMAIN gs = 1..Len(gs)
           /\ \A n \in Nat : EarlierThan(gs, n) \subseteq Task
           /\ EarlierThan(gs, 0) = {} /\ EarlierThan(gs, 1) = {}
           /\ EarlierThan(gs, Len(gs) + 1) = UNION {Members(gs[g]) : g \in DOMAIN gs}
           /\ \A n \in DOMAIN gs :
                 /\ gs[n] \in Seq(Task) /\ Distinct(gs[n]) /\ Members(gs[n]) \subseteq Task
                 /\ EarlierThan(gs, n + 1) = EarlierThan(gs, n) \cup Members(gs[n])
                 /\ EarlierThan(gs, n) \cap Members(gs[n]) = {}
                 /\ \A t \in Members(gs[n]) : Dependencies(dag, t) \subseteq EarlierThan(gs, n)
<1>1. /\ gs \in Seq(Seq(Task))
      /\ \A g \in DOMAIN gs : Distinct(gs[g])
      /\ \A g, h \in DOMAIN gs : g # h => Members(gs[g]) \cap Members(gs[h]) = {}
      /\ \A g \in DOMAIN gs : \A t \in Members(gs[g]) : \A d \in Dependencies(dag, t) :
            \E h \in DOMAIN gs : h < g /\ d \in Members(gs[h])
  <2>1. CASE gs = <<>>
    BY <2>1
  <2>2. CASE gs = GroupsOf(dag)
    BY <2>2, GroupsInOrder
  <2>. QED
    BY <2>1, <2>2
<1>2. Len(gs) \in Nat /\ DOMAIN gs = 1..Len(gs) /\ \A n \in DOMAIN gs : gs[n] \in Seq(Task)
  BY <1>1
<1>3. \A n \in DOMAIN gs : Members(gs[n]) \subseteq Task
  BY <1>2 DEF Members
<1>4. \A n \in Nat : EarlierThan(gs, n) \subseteq Task
  BY <1>3 DEF EarlierThan
<1>5. EarlierThan(gs, 0) = {} /\ EarlierThan(gs, 1) = {}
  <2>1. \A h \in DOMAIN gs : ~(h < 0) /\ ~(h < 1)
    BY <1>2
  <2>. QED
    BY <2>1 DEF EarlierThan
<1>6. EarlierThan(gs, Len(gs) + 1) = UNION {Members(gs[g]) : g \in DOMAIN gs}
  <2>1. \A h \in DOMAIN gs : h < Len(gs) + 1
    BY <1>2
  <2>. QED
    BY <2>1 DEF EarlierThan
<1>7. ASSUME NEW n \in DOMAIN gs
      PROVE  /\ EarlierThan(gs, n + 1) = EarlierThan(gs, n) \cup Members(gs[n])
             /\ EarlierThan(gs, n) \cap Members(gs[n]) = {}
             /\ \A t \in Members(gs[n]) : Dependencies(dag, t) \subseteq EarlierThan(gs, n)
  <2>1. \A h \in DOMAIN gs : (h < n + 1 <=> h < n \/ h = n) /\ (h < n => h # n)
    BY <1>2
  <2>2. EarlierThan(gs, n + 1) = EarlierThan(gs, n) \cup Members(gs[n])
    BY <2>1 DEF EarlierThan
  <2>3. EarlierThan(gs, n) \cap Members(gs[n]) = {}
    BY <1>1, <2>1 DEF EarlierThan
  <2>4. \A t \in Members(gs[n]) : Dependencies(dag, t) \subseteq EarlierThan(gs, n)
    BY <1>1 DEF EarlierThan
  <2>. QED
    BY <2>2, <2>3, <2>4
<1>. QED
  BY <1>1, <1>2, <1>3, <1>4, <1>5, <1>6, <1>7

(* What a change of a status does to the tasks in progress and completed.      *)
LEMMA TrackerSet ==
    ASSUME TypeOK, NEW t \in Task, NEW value, SetTracker(t, value)
    PROVE  /\ value = "open" => InProgress' = InProgress \ {t} /\ Completed' = Completed \ {t}
           /\ value = "in_progress" =>
                InProgress' = InProgress \cup {t} /\ Completed' = Completed \ {t}
           /\ value = "completed" =>
                InProgress' = InProgress \ {t} /\ Completed' = Completed \cup {t}
<1>1. \A u \in Task : asked'[u] = IF u = t THEN value ELSE asked[u]
  BY DEF TypeOK, SetTracker
<1>. QED
  BY <1>1 DEF InProgress, Completed, With

(* A write that may fail leaves statuses of the tracker and tasks. *)
LEMMA WriteTyped ==
    ASSUME TypeOK, NEW t \in Task, NEW value \in {"open", "in_progress", "completed"},
           SetTracker(t, value)
    PROVE  /\ asked' \in [Task -> {"open", "in_progress", "completed"}]
           /\ tracker' \in [Task -> {"open", "in_progress", "completed"}]
           /\ unsaved' \subseteq Task
BY DEF TypeOK, SetTracker

(* Counting the tasks of a set. *)
LEMMA Counted ==
    ASSUME NEW A, A \subseteq Task
    PROVE  /\ IsFiniteSet(A) /\ Cardinality(A) \in Nat
           /\ \A t \in Task \ A : Cardinality(A \cup {t}) = Cardinality(A) + 1
           /\ \A B \in SUBSET A : Cardinality(B) <= Cardinality(A)
                 /\ (Cardinality(B) = Cardinality(A) => B = A)
<1>1. IsFiniteSet(A) /\ IsFiniteSet(Task)
  BY TaskGraphAssumption, FS_Subset
<1>2. Cardinality(A) \in Nat
  BY <1>1, FS_CardinalityType
<1>3. \A t \in Task \ A : Cardinality(A \cup {t}) = Cardinality(A) + 1
  BY <1>1, FS_AddElement
<1>4. ASSUME NEW B \in SUBSET A
      PROVE  Cardinality(B) <= Cardinality(A) /\ (Cardinality(B) = Cardinality(A) => B = A)
  BY <1>1, FS_Subset
<1>. QED
  BY <1>1, <1>2, <1>3, <1>4

(* Where the batch is indexed, the index is one of the batch. *)
LEMMA Typed ==
    ASSUME TypeOK, PlanInv, ListsInv
    PROVE  /\ pc \in {"acquire", "initialize", "merging", "completing"} =>
                index \in DOMAIN batch /\ Current \in Task /\ Current \in Members(batch)
           /\ pc = "merge" /\ index <= Len(batch) =>
                index \in DOMAIN batch /\ Current \in Task /\ Current \in Members(batch)
<1>1. Len(batch) \in Nat /\ DOMAIN batch = 1..Len(batch) /\ batch \in Seq(Task)
  BY DEF TypeOK
<1>2. \A i \in DOMAIN batch : batch[i] \in Task /\ batch[i] \in Members(batch)
  BY <1>1 DEF Members
<1>3. pc \in Setup \cup Merging \cup Resolving => index \in 1..(Len(batch) + 1)
  BY DEF ListsInv
<1>4. pc \in {"acquire", "initialize", "merging", "completing"} => index <= Len(batch)
  BY DEF ListsInv
<1>5. pc \in Setup \cup Merging /\ index <= Len(batch) => index \in DOMAIN batch
  BY <1>1, <1>3
<1>. QED
  BY <1>2, <1>4, <1>5 DEF Current, Setup, Merging

-----------------------------------------------------------------------------
(* The variables keep their types, and the plan is followed.                 *)

(* TypeOK, list by list. *)
LEMMA ListsTyped ==
    ASSUME TypeOK
    PROVE  /\ pending \in Seq(Task) /\ batch \in Seq(Task) /\ conflicts \in Seq(Task)
           /\ retryTasks \in Seq(Task)
           /\ shouldStop \in BOOLEAN /\ paused \in BOOLEAN /\ stopping \in BOOLEAN
BY DEF TypeOK

(* A batch is not empty and not longer than what is pending. *)
LEMMA NextBatchSize ==
    ASSUME TypeOK
    PROVE  BatchSize \in Nat /\ BatchSize <= Len(pending) /\ (pending # <<>> => BatchSize >= 1)
<1>1. pending \in Seq(Task) /\ Len(pending) \in Nat /\ (pending # <<>> => Len(pending) >= 1)
  BY DEF TypeOK
<1>. QED
  BY <1>1, ParallelAssumption DEF BatchSize

(* The statuses of merges, with a new one or a changed last one. *)
LEMMA MarksTyped ==
    ASSUME TypeOK, NEW t \in Task,
           NEW mark \in {"completed", "conflicted", "failed", "rolled-back"}
    PROVE  /\ [merges EXCEPT ![t] = Append(@, mark)]
                \in [Task -> Seq({"completed", "conflicted", "failed", "rolled-back"})]
           /\ [merges EXCEPT ![t] = Append(merges[t], mark)]
                \in [Task -> Seq({"completed", "conflicted", "failed", "rolled-back"})]
           /\ Len(merges[t]) > 0 =>
                [merges EXCEPT ![t] = MarkLast(t, mark)]
                   \in [Task -> Seq({"completed", "conflicted", "failed", "rolled-back"})]
<1>1. merges[t] \in Seq({"completed", "conflicted", "failed", "rolled-back"})
  BY DEF TypeOK
<1>2. Append(merges[t], mark) \in Seq({"completed", "conflicted", "failed", "rolled-back"})
  BY <1>1
<1>3. ASSUME Len(merges[t]) > 0
      PROVE  MarkLast(t, mark) \in Seq({"completed", "conflicted", "failed", "rolled-back"})
  BY <1>1, <1>3 DEF MarkLast
<1>. QED
  BY <1>1, <1>2, <1>3 DEF TypeOK

(* The first conflict has a merge whose status can be changed. *)
LEMMA ConflictsTyped ==
    ASSUME TypeOK, MergeInv, conflicts # <<>>
    PROVE  /\ Head(conflicts) \in Task /\ 1 \in DOMAIN conflicts /\ Head(conflicts) = conflicts[1]
           /\ Tail(conflicts) \in Seq(Task) /\ Len(merges[Head(conflicts)]) > 0
<1>1. conflicts \in Seq(Task)
  BY DEF TypeOK
<1>2. /\ Head(conflicts) \in Task /\ 1 \in DOMAIN conflicts /\ Head(conflicts) = conflicts[1]
      /\ Tail(conflicts) \in Seq(Task)
  BY <1>1, MembersOfTail
<1>. QED
  BY <1>2 DEF MergeInv

(* handleMergeFailure keeps the types: the requeue count is bounded by its guard. *)
LEMMA FailureTyped ==
    ASSUME TypeOK, NEW t \in Task, NEW mark,
           [merges EXCEPT ![t] = mark]
              \in [Task -> Seq({"completed", "conflicted", "failed", "rolled-back"})],
           HandleMergeFailure(t, mark)
    PROVE  /\ merges' \in [Task -> Seq({"completed", "conflicted", "failed", "rolled-back"})]
           /\ requeueCounts' \in [Task -> 0..MaxRequeueCount]
           /\ retryTasks' \in Seq(Task)
           /\ asked' \in [Task -> {"open", "in_progress", "completed"}]
           /\ tracker' \in [Task -> {"open", "in_progress", "completed"}]
           /\ unsaved' \subseteq Task
           /\ totalCompleted' \in Nat /\ totalFailed' \in Nat
<1>1. /\ merges' \in [Task -> Seq({"completed", "conflicted", "failed", "rolled-back"})]
      /\ totalCompleted \in Nat /\ totalFailed \in Nat /\ retryTasks \in Seq(Task)
      /\ requeueCounts \in [Task -> 0..MaxRequeueCount]
  BY DEF TypeOK, HandleMergeFailure
<1>2. /\ asked' \in [Task -> {"open", "in_progress", "completed"}]
      /\ tracker' \in [Task -> {"open", "in_progress", "completed"}]
      /\ unsaved' \subseteq Task
  <2>1. SetTracker(t, "open")
    BY DEF HandleMergeFailure, GiveUp
  <2>. QED
    BY <2>1, WriteTyped
<1>3. CASE RequeueLeft(t)
  <2>1. requeueCounts[t] + 1 \in 0..MaxRequeueCount
    BY <1>1, <1>3, ParallelAssumption DEF RequeueLeft
  <2>2. requeueCounts' \in [Task -> 0..MaxRequeueCount]
    BY <1>1, <1>3, <2>1 DEF HandleMergeFailure
  <2>3. retryTasks' \in Seq(Task)
    <3>1. retryTasks' = Append(retryTasks, t)
      BY <1>3 DEF HandleMergeFailure
    <3>. QED
      BY <1>1, <3>1, MembersOfAppend
  <2>. QED
    BY <1>1, <1>2, <1>3, <2>2, <2>3 DEF HandleMergeFailure, countVars
<1>4. CASE ~RequeueLeft(t)
  BY <1>1, <1>2, <1>4 DEF HandleMergeFailure, GiveUp
<1>. QED
  BY <1>3, <1>4

(* What a user's call does to the workers. *)
LEMMA UserTyped ==
    ASSUME TypeOK, NEW change \in [WorkerStatus -> WorkerStatus], ForActiveWorkers(change)
    PROVE  worker' \in [Task -> WorkerStatus]
BY DEF TypeOK, ForActiveWorkers

(* Every step keeps the types. *)
LEMMA TypeKept ==
    ASSUME TypeOK, PlanInv, ListsInv, MergeInv, Next
    PROVE  TypeOK'
<1>. USE DEF planVars, groupVars, workerVars, mergeVars, countVars, gitVars, userVars
<1>1. CASE Analyze
  <2>1. CASE ShouldRunParallel(graph)
    <3>1. groups' = GroupsOf(graph)
      BY <1>1, <2>1 DEF Analyze, GroupsOf
    <3>2. groups' \in Seq(Seq(Task))
      BY <3>1, GroupsInOrder
    <3>. QED
      BY <1>1, <2>1, <3>2 DEF TypeOK, Analyze
  <2>2. CASE ~ShouldRunParallel(graph)
    BY <1>1, <2>2 DEF TypeOK, Analyze
  <2>. QED
    BY <2>1, <2>2
<1>2. CASE NextGroup
  <2>1. CASE shouldStop \/ groupIndex > Len(groups)
    BY <1>2, <2>1 DEF TypeOK, NextGroup, FinalStatus
  <2>2. CASE ~(shouldStop \/ groupIndex > Len(groups))
    <3>1. groupIndex \in DOMAIN groups
      BY <1>2, <2>2 DEF TypeOK, PlanInv, NextGroup
    <3>2. pending' \in Seq(Task)
      BY <1>2, <2>2, <3>1 DEF TypeOK, NextGroup
    <3>. QED
      BY <1>2, <2>2, <3>2 DEF TypeOK, NextGroup
  <2>. QED
    BY <2>1, <2>2
<1>3. CASE NextBatch
  <2>1. BatchSize \in Nat /\ BatchSize <= Len(pending)
    BY NextBatchSize
  <2>2. SubSeq(pending, 1, BatchSize) \in Seq(Task)
        /\ SubSeq(pending, BatchSize + 1, Len(pending)) \in Seq(Task)
    BY <2>1, ListsTyped, MembersOfSplit
  <2>3. /\ pending' \in Seq(Task) /\ batch' \in Seq(Task)
        /\ groupIndex' \in Nat /\ index' \in Nat
    <3>1. groupIndex \in Nat /\ index \in Nat
      BY DEF TypeOK
    <3>2. CASE shouldStop \/ pending = <<>>
      BY <1>3, <3>1, <3>2, ListsTyped DEF NextBatch
    <3>3. CASE ~(shouldStop \/ pending = <<>>)
      <4>1. /\ batch' = SubSeq(pending, 1, BatchSize)
            /\ pending' = SubSeq(pending, BatchSize + 1, Len(pending))
            /\ index' = 1 /\ groupIndex' = groupIndex
        BY <1>3, <3>3 DEF NextBatch
      <4>2. batch' \in Seq(Task) /\ pending' \in Seq(Task)
        BY <2>2, <4>1, Zenon
      <4>. QED
        BY <3>1, <4>1, <4>2
    <3>. QED
      BY <3>2, <3>3
  <2>4. pc' \in {"groups", "acquire"}
    BY <1>3 DEF NextBatch
  <2>. QED
    BY <1>3, <2>3, <2>4 DEF TypeOK, NextBatch
<1>4. CASE AcquireWorktree
  <2>1. Current \in Task
    BY <1>4, Typed DEF AcquireWorktree
  <2>2. OtherWorktrees \subseteq Worktree
        /\ [group |-> groupIndex, slot |-> index, task |-> Current] \in Worktree
    BY <2>1 DEF TypeOK, OtherWorktrees, Worktree
  <2>3. worktrees' \subseteq Worktree
    BY <1>4, <2>2 DEF AcquireWorktree
  <2>4. CASE CheckedOutElsewhere(Current)
    BY <1>4, <2>3, <2>4 DEF TypeOK, AcquireWorktree, ExecutionFails
  <2>5. CASE ~CheckedOutElsewhere(Current)
    <3>1. base' \in [Task -> SUBSET Task] /\ branches' \subseteq Task
      BY <1>4, <2>1, <2>5 DEF TypeOK, AcquireWorktree, BranchPoint
    <3>. QED
      BY <1>4, <2>3, <2>5, <3>1 DEF TypeOK, AcquireWorktree
  <2>. QED
    BY <2>4, <2>5
<1>5. CASE InitializeWorker
  <2>1. Current \in Task
    BY <1>5, Typed DEF InitializeWorker
  <2>2. /\ asked' \in [Task -> {"open", "in_progress", "completed"}]
        /\ tracker' \in [Task -> {"open", "in_progress", "completed"}]
        /\ unsaved' \subseteq Task
    BY <1>5, <2>1, WriteTyped DEF InitializeWorker
  <2>3. /\ worker' \in [Task -> WorkerStatus]
        /\ outcome' \in [Task -> [status : {"done", "notDone", "failed"},
                                  commits : BOOLEAN, counted : BOOLEAN]]
    BY <1>5, <2>1 DEF TypeOK, InitializeWorker, WorkerStatus, NoOutcome
  <2>. QED
    BY <1>5, <2>2, <2>3 DEF TypeOK, InitializeWorker
<1>6. CASE SetupThrows
  BY <1>6 DEF TypeOK, SetupThrows, ExecutionFails
<1>7. CASE StartWorkers
  BY <1>7 DEF TypeOK, StartWorkers, WorkerStatus
<1>8. CASE CollectResults
  BY <1>8 DEF TypeOK, CollectResults
<1>9. CASE DoNotMerge
  <2>1. Current \in Task
    BY <1>9, Typed DEF DoNotMerge
  <2>2. /\ asked' \in [Task -> {"open", "in_progress", "completed"}]
        /\ tracker' \in [Task -> {"open", "in_progress", "completed"}]
        /\ unsaved' \subseteq Task
    BY <1>9, <2>1, WriteTyped DEF DoNotMerge, GiveUp
  <2>. QED
    BY <1>9, <2>1, <2>2 DEF TypeOK, DoNotMerge, GiveUp
<1>10. CASE BeginMerge \/ MergesDone \/ BeginResolve
  BY <1>10 DEF TypeOK, BeginMerge, MergesDone, BeginResolve
<1>11. CASE ExecuteMerge
  <2>1. Current \in Task
    BY <1>11, Typed DEF ExecuteMerge
  <2>2. backupTag' \in [Task -> SUBSET Task]
    BY <1>11, <2>1 DEF TypeOK, ExecuteMerge
  <2>3. CASE Merged
    BY <1>11, <2>1, <2>2, <2>3, MarksTyped DEF TypeOK, ExecuteMerge, Merged
  <2>4. CASE Conflicted
    BY <1>11, <2>1, <2>2, <2>4, MarksTyped, MembersOfAppend DEF TypeOK, ExecuteMerge, Conflicted
  <2>5. CASE MergeFailed
    <3>1. PICK mark \in {"failed", "rolled-back"} :
            HandleMergeFailure(Current, Append(merges[Current], mark))
      BY <2>5 DEF MergeFailed
    <3>2. /\ merges' \in [Task -> Seq({"completed", "conflicted", "failed", "rolled-back"})]
          /\ requeueCounts' \in [Task -> 0..MaxRequeueCount]
          /\ retryTasks' \in Seq(Task)
          /\ asked' \in [Task -> {"open", "in_progress", "completed"}]
          /\ tracker' \in [Task -> {"open", "in_progress", "completed"}]
          /\ unsaved' \subseteq Task
          /\ totalCompleted' \in Nat /\ totalFailed' \in Nat
      BY <2>1, <3>1, MarksTyped, FailureTyped
    <3>3. /\ pc' = "merge" /\ index' = index + 1 /\ backupTag' \in [Task -> SUBSET Task]
          /\ UNCHANGED <<planVars, groupIndex, pending, batch, workerVars, conflicts, status,
                         userVars, gitVars>>
      BY <1>11, <2>2, <2>5 DEF ExecuteMerge, MergeFailed
    <3>. QED
      BY <3>2, <3>3 DEF TypeOK
  <2>. QED
    BY <1>11, <2>3, <2>4, <2>5 DEF ExecuteMerge
<1>12. CASE CompleteMerged
  <2>1. Current \in Task
    BY <1>12, Typed DEF CompleteMerged
  <2>2. /\ asked' \in [Task -> {"open", "in_progress", "completed"}]
        /\ tracker' \in [Task -> {"open", "in_progress", "completed"}]
        /\ unsaved' \subseteq Task
    BY <1>12, <2>1, WriteTyped DEF CompleteMerged, Complete
  <2>3. requeueCounts' \in [Task -> 0..MaxRequeueCount]
    BY <1>12, <2>1, ParallelAssumption DEF TypeOK, CompleteMerged, Complete
  <2>. QED
    BY <1>12, <2>1, <2>2, <2>3 DEF TypeOK, CompleteMerged, Complete
<1>13. CASE DropConflict
  <2>1. Head(conflicts) \in Task /\ Tail(conflicts) \in Seq(Task)
        /\ Len(merges[Head(conflicts)]) > 0
    BY <1>13, ConflictsTyped DEF DropConflict
  <2>2. merges' \in [Task -> Seq({"completed", "conflicted", "failed", "rolled-back"})]
    BY <1>13, <2>1, MarksTyped DEF DropConflict
  <2>3. /\ asked' \in [Task -> {"open", "in_progress", "completed"}]
        /\ tracker' \in [Task -> {"open", "in_progress", "completed"}]
        /\ unsaved' \subseteq Task
    BY <1>13, <2>1, WriteTyped DEF DropConflict, GiveUp
  <2>. QED
    BY <1>13, <2>1, <2>2, <2>3 DEF TypeOK, DropConflict, GiveUp
<1>14. CASE Resolved
  <2>1. Head(conflicts) \in Task /\ Tail(conflicts) \in Seq(Task)
        /\ Len(merges[Head(conflicts)]) > 0
    BY <1>14, ConflictsTyped DEF Resolved, ListsInv
  <2>2. merges' \in [Task -> Seq({"completed", "conflicted", "failed", "rolled-back"})]
    BY <1>14, <2>1, MarksTyped DEF Resolved
  <2>. QED
    BY <1>14, <2>1, <2>2 DEF TypeOK, Resolved
<1>15. CASE ResolutionRefused
  <2>1. Head(conflicts) \in Task /\ Tail(conflicts) \in Seq(Task)
        /\ Len(merges[Head(conflicts)]) > 0
    BY <1>15, ConflictsTyped DEF ResolutionRefused, ListsInv
  <2>2. HandleMergeFailure(Head(conflicts), MarkLast(Head(conflicts), "rolled-back"))
    BY <1>15 DEF ResolutionRefused
  <2>3. /\ merges' \in [Task -> Seq({"completed", "conflicted", "failed", "rolled-back"})]
        /\ requeueCounts' \in [Task -> 0..MaxRequeueCount]
        /\ retryTasks' \in Seq(Task)
        /\ asked' \in [Task -> {"open", "in_progress", "completed"}]
        /\ tracker' \in [Task -> {"open", "in_progress", "completed"}]
        /\ unsaved' \subseteq Task
        /\ totalCompleted' \in Nat /\ totalFailed' \in Nat
    BY <2>1, <2>2, MarksTyped, FailureTyped
  <2>. QED
    BY <1>15, <2>1, <2>3 DEF TypeOK, ResolutionRefused
<1>16. CASE CompleteResolved
  <2>1. Head(conflicts) \in Task /\ Tail(conflicts) \in Seq(Task)
    BY <1>16, ConflictsTyped DEF CompleteResolved, ListsInv
  <2>2. /\ asked' \in [Task -> {"open", "in_progress", "completed"}]
        /\ tracker' \in [Task -> {"open", "in_progress", "completed"}]
        /\ unsaved' \subseteq Task
    BY <1>16, <2>1, WriteTyped DEF CompleteResolved, Complete
  <2>3. requeueCounts' \in [Task -> 0..MaxRequeueCount]
    BY <1>16, <2>1, ParallelAssumption DEF TypeOK, CompleteResolved, Complete
  <2>. QED
    BY <1>16, <2>1, <2>2, <2>3 DEF TypeOK, CompleteResolved, Complete
<1>17. CASE RequeueRetries
  <2>1. pending \o retryTasks \in Seq(Task)
    BY ListsTyped, MembersOfConcat
  <2>. QED
    BY <1>17, <2>1 DEF TypeOK, RequeueRetries, PendingAndRetries
<1>18. CASE Cleanup
  BY <1>18 DEF TypeOK, Cleanup
<1>19. CASE \E t \in Task : WorkerEnds(t)
  <2>. PICK t \in Task : WorkerEnds(t)
    BY <1>19
  <2>1. worker' \in [Task -> WorkerStatus]
    BY DEF TypeOK, WorkerEnds, WorkerStatus
  <2>2. PICK result \in Outcomes : outcome' = [outcome EXCEPT ![t] =
           IF worker[t] = "cancelled" THEN [result EXCEPT !.status = "failed"] ELSE result]
    BY DEF WorkerEnds
  <2>3. result \in [status : {"done", "notDone", "failed"}, commits : BOOLEAN, counted : BOOLEAN]
    BY ParallelAssumption
  <2>4. [result EXCEPT !.status = "failed"]
           \in [status : {"done", "notDone", "failed"}, commits : BOOLEAN, counted : BOOLEAN]
    BY <2>3
  <2>5. outcome' \in [Task -> [status : {"done", "notDone", "failed"}, commits : BOOLEAN,
                               counted : BOOLEAN]]
    BY <2>2, <2>3, <2>4 DEF TypeOK
  <2>. QED
    BY <2>1, <2>5 DEF TypeOK, WorkerEnds
<1>20. CASE Stop
  <2>1. StopWorker \in [WorkerStatus -> WorkerStatus]
    BY DEF StopWorker, WorkerStatus
  <2>2. worker' \in [Task -> WorkerStatus]
    BY <1>20, <2>1, UserTyped DEF Stop
  <2>. QED
    BY <1>20, <2>2 DEF TypeOK, Stop
<1>21. CASE StopSettles
  BY <1>21 DEF TypeOK, StopSettles
<1>22. CASE Pause
  <2>1. PauseWorker \in [WorkerStatus -> WorkerStatus]
    BY DEF PauseWorker, WorkerStatus
  <2>2. worker' \in [Task -> WorkerStatus]
    BY <1>22, <2>1, UserTyped DEF Pause
  <2>. QED
    BY <1>22, <2>2 DEF TypeOK, Pause
<1>23. CASE Resume
  <2>1. ResumeWorker \in [WorkerStatus -> WorkerStatus]
    BY DEF ResumeWorker, WorkerStatus
  <2>2. worker' \in [Task -> WorkerStatus]
    BY <1>23, <2>1, UserTyped DEF Resume
  <2>. QED
    BY <1>23, <2>2 DEF TypeOK, Resume
<1>. QED
  BY <1>1, <1>2, <1>3, <1>4, <1>5, <1>6, <1>7, <1>8, <1>9, <1>10, <1>11, <1>12, <1>13, <1>14,
     <1>15, <1>16, <1>17, <1>18, <1>19, <1>20, <1>21, <1>22, <1>23
     DEF Next, ExecutorStep, UserCall

(* Every step follows the plan. *)
LEMMA PlanKept ==
    ASSUME TypeOK, PlanInv, Next
    PROVE  PlanInv'
<1>. USE DEF planVars, groupVars, workerVars, mergeVars, countVars, gitVars, userVars
<1>1. CASE Analyze
  <2>1. CASE ShouldRunParallel(graph)
    <3>1. groups' = GroupsOf(graph)
      BY <1>1, <2>1 DEF Analyze, GroupsOf
    <3>2. Len(groups') \in Nat
      BY <3>1, GroupsBefore
    <3>. QED
      BY <1>1, <2>1, <3>1, <3>2
         DEF PlanInv, Analyze, InGroup, Setup, Merging, Resolving
  <2>2. CASE ~ShouldRunParallel(graph)
    BY <1>1, <2>2 DEF PlanInv, Analyze, InGroup, Setup, Merging, Resolving
  <2>. QED
    BY <2>1, <2>2
<1>2. CASE NextGroup
  <2>1. Len(groups) \in Nat /\ DOMAIN groups = 1..Len(groups) /\ groupIndex \in Nat
    BY DEF TypeOK
  <2>2. CASE shouldStop \/ groupIndex > Len(groups)
    BY <1>2, <2>2 DEF PlanInv, NextGroup, InGroup, Setup, Merging, Resolving
  <2>3. CASE ~(shouldStop \/ groupIndex > Len(groups))
    BY <1>2, <2>1, <2>3 DEF PlanInv, NextGroup, InGroup, Setup, Merging, Resolving
  <2>. QED
    BY <2>2, <2>3
<1>3. CASE NextBatch
  <2>1. Len(groups) \in Nat /\ DOMAIN groups = 1..Len(groups)
    BY DEF TypeOK
  <2>2. groupIndex \in DOMAIN groups
    BY <1>3 DEF PlanInv, NextBatch, InGroup
  <2>3. CASE pc' = "groups" /\ groupIndex' = groupIndex + 1
    BY <1>3, <2>1, <2>2, <2>3 DEF PlanInv, NextBatch, InGroup, Setup, Merging, Resolving
  <2>4. CASE pc' = "acquire" /\ groupIndex' = groupIndex
    BY <1>3, <2>2, <2>4 DEF PlanInv, NextBatch, InGroup, Setup, Merging, Resolving
  <2>. QED
    BY <1>3, <2>3, <2>4 DEF NextBatch
<1>4. ASSUME UNCHANGED <<graph, resolves, groups, groupIndex>>,
             pc' = pc \/ pc' \in {"cleanup", "done"} \/ (pc \in InGroup /\ pc' \in InGroup)
      PROVE  PlanInv'
  BY <1>4 DEF PlanInv, InGroup, Setup, Merging, Resolving
<1>5. CASE AcquireWorktree \/ InitializeWorker \/ SetupThrows \/ StartWorkers \/ CollectResults
  BY <1>4, <1>5 DEF AcquireWorktree, InitializeWorker, SetupThrows, StartWorkers, CollectResults,
                    ExecutionFails, InGroup, Setup, Merging, Resolving
<1>6. CASE \/ DoNotMerge \/ BeginMerge \/ ExecuteMerge \/ CompleteMerged \/ MergesDone
  BY <1>4, <1>6 DEF DoNotMerge, BeginMerge, ExecuteMerge, Merged, Conflicted, MergeFailed,
                    CompleteMerged, MergesDone, InGroup, Setup, Merging, Resolving
<1>7. CASE DropConflict \/ BeginResolve \/ Resolved \/ ResolutionRefused \/ CompleteResolved
             \/ RequeueRetries
  BY <1>4, <1>7 DEF DropConflict, BeginResolve, Resolved, ResolutionRefused, CompleteResolved,
                    RequeueRetries, InGroup, Setup, Merging, Resolving
<1>8. CASE Cleanup \/ (\E t \in Task : WorkerEnds(t)) \/ UserCall
  BY <1>4, <1>8 DEF Cleanup, WorkerEnds, UserCall, Stop, StopSettles, Pause, Resume
<1>. QED
  BY <1>1, <1>2, <1>3, <1>5, <1>6, <1>7, <1>8 DEF Next, ExecutorStep

Others == /\ ListsInv /\ TrackerInv /\ CountInv /\ WorkerInv /\ WorktreeInv /\ BaseInv /\ MergeInv

(* A worker that ends, and the user's calls, only change workers and flags. *)
LEMMA WorkersMove ==
    ASSUME IInv,
           UNCHANGED <<graph, resolves, groups, asked, pc, groupIndex, pending, batch, index,
                       conflicts, retryTasks, merges, totalCompleted, totalFailed, gitVars>>,
           shouldStop => shouldStop',
           status' = "completed" => status = "completed",
           \A t \in Task :
              /\ worker[t] = "ended" => worker'[t] = "ended"
              /\ worker[t] \in {"ready", "stopped"} => worker'[t] \in {"ready", "stopped"}
              /\ Active(t) => Active(t)' \/ worker'[t] = "ended"
              /\ Active(t)' => Active(t)
    PROVE  Others'
<1>. USE DEF IInv, gitVars
<1>1. ListsInv'
  BY DEF ListsInv, ThisGroup
<1>2. TrackerInv'
  BY DEF TrackerInv, InProgress, Completed, With, SetUp, Unmerged, Settled, Earlier, ThisGroup,
         Waiting
<1>3. CountInv'
  BY DEF CountInv, Completed, Settled, Earlier, ThisGroup, Waiting, Unmerged, Planned
<1>4. WorkerInv'
  <2>1. /\ Members(batch) \subseteq Task
        /\ ThisGroup' = ThisGroup /\ Earlier' = Earlier /\ SetUp' = SetUp
    BY MembersByIndex DEF TypeOK, ThisGroup, Earlier, SetUp
  <2>2. pc \in {"acquire", "initialize", "start"} => SetUp \subseteq Task
    BY MembersByIndex DEF TypeOK, SetUp
  <2>3. pc \in InGroup => ThisGroup \subseteq Task
    BY GroupsBefore DEF PlanInv, ThisGroup
  <2>4. Earlier \subseteq Task
    BY GroupsBefore DEF TypeOK, PlanInv, Earlier
  <2>5. pc \in InGroup \/ (pc = "groups" /\ ~shouldStop') =>
          \A t \in Earlier : worker'[t] = "ended"
    BY <2>4 DEF WorkerInv
  <2>6. pc \in InGroup => \A t \in ThisGroup :
            worker'[t] = "ended" \/ t \in Members(pending)
              \/ (pc \in Setup /\ t \in Members(batch))
    BY <2>3 DEF WorkerInv
  <2>7. /\ \A t \in Task : Active(t)' => pc = "working" /\ t \in Members(batch)
        /\ pc \in {"acquire", "initialize", "start"} =>
             \A t \in SetUp : worker'[t] \in {"ready", "stopped"}
        /\ pc = "working" =>
             \A t \in Members(batch) : worker'[t] \in {"running", "paused", "cancelled", "ended"}
        /\ pc \in Merging \cup Resolving => \A t \in Members(batch) : worker'[t] = "ended"
    BY <2>1, <2>2 DEF WorkerInv, Active
  <2>. QED
    BY <2>1, <2>5, <2>6, <2>7 DEF WorkerInv
<1>5. WorktreeInv' /\ BaseInv'
  BY DEF WorktreeInv, BaseInv, HasWorktree, Refused, Statuses, Completed, With
<1>6. MergeInv'
  BY DEF MergeInv, Refused, Statuses, Completed, With, Current
<1>. QED
  BY <1>1, <1>2, <1>3, <1>4, <1>5, <1>6 DEF Others

(* The user's calls and the ends of workers keep the invariant. *)
LEMMA UserKeeps ==
    ASSUME IInv, (\E t \in Task : WorkerEnds(t)) \/ UserCall
    PROVE  Others'
<1>. USE DEF planVars, groupVars, workerVars, mergeVars, countVars, gitVars, userVars
<1>1. \A t \in Task : worker[t] \in WorkerStatus
  BY DEF IInv, TypeOK
<1>2. CASE \E t \in Task : WorkerEnds(t)
  <2>. PICK t \in Task : WorkerEnds(t)
    BY <1>2
  <2>1. \A u \in Task : worker'[u] = IF u = t THEN "ended" ELSE worker[u]
    BY DEF WorkerEnds, IInv, TypeOK
  <2>. QED
    BY <2>1, WorkersMove DEF WorkerEnds, Active
<1>3. CASE Stop
  BY <1>1, <1>3, WorkersMove DEF Stop, ForActiveWorkers, StopWorker, WorkerStatus, Active
<1>4. CASE StopSettles
  BY <1>4, WorkersMove DEF StopSettles, Active
<1>5. CASE Pause
  BY <1>1, <1>5, WorkersMove DEF Pause, ForActiveWorkers, PauseWorker, WorkerStatus, Active
<1>6. CASE Resume
  BY <1>1, <1>6, WorkersMove
     DEF Resume, ForActiveWorkers, ResumeWorker, WorkerStatus, Active, IInv, TypeOK
<1>. QED
  BY <1>2, <1>3, <1>4, <1>5, <1>6 DEF UserCall

-----------------------------------------------------------------------------
(* The plan and the batches.                                                 *)

(* The plan is made: nothing is settled yet. *)
LEMMA AnalyzeKeeps ==
    ASSUME IInv, Analyze
    PROVE  Others'
<1>. USE DEF planVars, groupVars, workerVars, mergeVars, countVars, gitVars, userVars
<1>1. /\ pc = "analyzing" /\ pc' \in {"groups", "cleanup"} /\ pc' # "completing"
      /\ pc' \notin InGroup /\ pc' \notin Setup \cup Merging \cup Resolving
      /\ groups = <<>> /\ groupIndex = 0 /\ groupIndex' \in {0, 1}
      /\ EarlierThan(groups, groupIndex) = {} /\ EarlierThan(groups', groupIndex') = {}
  <2>1. EarlierThan(<<>>, 0) = {} /\ EarlierThan(GroupsOf(graph), 1) = {}
    BY GroupsBefore, Zenon
  <2>. QED
    BY <2>1 DEF IInv, PlanInv, Analyze, GroupsOf, InGroup, Setup, Merging, Resolving
<1>2. /\ Settled = {} /\ Settled' = {} /\ InProgress = {} /\ Completed = {}
      /\ InProgress' = InProgress /\ Completed' = Completed
  BY <1>1 DEF Analyze, Settled, Earlier, InGroup, Setup, Merging, Resolving,
              IInv, TrackerInv, InProgress, Completed, With
<1>3. ListsInv'
  BY <1>1 DEF IInv, ListsInv, Analyze, InGroup, Setup, Merging, Resolving
<1>4. TrackerInv'
  BY <1>1, <1>2 DEF TrackerInv
<1>5. CountInv'
  BY <1>1, <1>2 DEF IInv, CountInv, Analyze
<1>6. WorkerInv'
  BY <1>1 DEF IInv, WorkerInv, Analyze, Active, Earlier, InGroup, Setup, Merging, Resolving
<1>7. WorktreeInv' /\ BaseInv'
  BY <1>1 DEF IInv, WorktreeInv, BaseInv, Analyze
<1>8. MergeInv'
  BY <1>1 DEF IInv, MergeInv, ListsInv, Analyze, Merging, Resolving, Refused, Statuses,
              Completed, With
<1>. QED
  BY <1>3, <1>4, <1>5, <1>6, <1>7, <1>8 DEF Others

(* The facts about the plan that the steps use. *)
LEMMA GroupFacts ==
    ASSUME TypeOK, PlanInv
    PROVE  /\ Len(groups) \in Nat /\ DOMAIN groups = 1..Len(groups)
           /\ Earlier \subseteq Task
           /\ Planned \subseteq Task /\ EarlierThan(groups, Len(groups) + 1) = Planned
           /\ groupIndex \in DOMAIN groups =>
                /\ groups[groupIndex] \in Seq(Task) /\ Distinct(groups[groupIndex])
                /\ ThisGroup \subseteq Task /\ Earlier \cap ThisGroup = {}
                /\ EarlierThan(groups, groupIndex + 1) = Earlier \cup ThisGroup
                /\ \A t \in ThisGroup : Dependencies(graph, t) \subseteq Earlier
<1>1. groups \in {<<>>, GroupsOf(graph)} /\ groupIndex \in Nat
  BY DEF TypeOK, PlanInv
<1>2. /\ Len(groups) \in Nat /\ DOMAIN groups = 1..Len(groups)
      /\ \A n \in Nat : EarlierThan(groups, n) \subseteq Task
      /\ EarlierThan(groups, Len(groups) + 1) = UNION {Members(groups[g]) : g \in DOMAIN groups}
      /\ \A n \in DOMAIN groups :
            /\ groups[n] \in Seq(Task) /\ Distinct(groups[n]) /\ Members(groups[n]) \subseteq Task
            /\ EarlierThan(groups, n + 1) = EarlierThan(groups, n) \cup Members(groups[n])
            /\ EarlierThan(groups, n) \cap Members(groups[n]) = {}
            /\ \A t \in Members(groups[n]) :
                  Dependencies(graph, t) \subseteq EarlierThan(groups, n)
  BY <1>1, GroupsBefore
<1>3. Planned = UNION {Members(groups[g]) : g \in DOMAIN groups}
  BY DEF Planned, Members
<1>4. Planned \subseteq Task
  BY <1>2, <1>3
<1>. QED
  BY <1>1, <1>2, <1>3, <1>4 DEF Earlier, ThisGroup

(* The next group waits as a whole; after the last one the status is final. *)
LEMMA NextGroupKeeps ==
    ASSUME IInv, NextGroup
    PROVE  Others'
<1>. USE DEF planVars, groupVars, workerVars, mergeVars, countVars, gitVars, userVars
<1>1. /\ pc = "groups" /\ groupIndex \in Nat /\ groupIndex >= 1 /\ groupIndex <= Len(groups) + 1
      /\ TypeOK /\ PlanInv /\ pc \notin InGroup
  BY DEF IInv, TypeOK, PlanInv, NextGroup, InGroup, Setup, Merging, Resolving
<1>2. /\ Settled = Earlier /\ InProgress = {} /\ Completed \subseteq Settled
      /\ InProgress' = InProgress /\ Completed' = Completed /\ Earlier' = Earlier
      /\ ThisGroup' = ThisGroup /\ conflicts = <<>>
  BY <1>1 DEF NextGroup, Settled, Earlier, ThisGroup, InGroup, Setup, Merging, Resolving,
              IInv, TrackerInv, ListsInv, InProgress, Completed, With
<1>3. WorktreeInv' /\ BaseInv' /\ MergeInv'
  BY <1>1, <1>2 DEF IInv, WorktreeInv, BaseInv, MergeInv, NextGroup, Setup, Refused, Statuses
<1>4. CASE shouldStop \/ groupIndex > Len(groups)
  <2>1. /\ pc' = "cleanup" /\ pc' \notin InGroup /\ pc' \notin Setup \cup Merging \cup Resolving
        /\ Settled' = Settled /\ status' = FinalStatus
    BY <1>1, <1>2, <1>4 DEF NextGroup, InGroup, Setup, Merging, Resolving, Settled
  <2>2. ListsInv' /\ TrackerInv'
    BY <1>2, <2>1 DEF ListsInv, TrackerInv, NextGroup
  <2>3. WorkerInv'
    BY <1>1, <2>1 DEF IInv, WorkerInv, NextGroup, Active
  <2>4. ASSUME status' = "completed" PROVE Planned \subseteq Completed
    <3>1. ~shouldStop /\ totalCompleted >= Cardinality(Planned)
      <4>1. Cardinality(Planned) \in Nat /\ totalCompleted \in Nat
        BY <1>1, GroupFacts, Counted DEF TypeOK
      <4>. QED
        BY <2>1, <2>4, <4>1 DEF FinalStatus
    <3>2. groupIndex = Len(groups) + 1
      BY <1>1, <1>4, <3>1, GroupFacts
    <3>3. Completed \subseteq Planned /\ Planned \subseteq Task
      BY <1>1, <1>2, <3>2, GroupFacts DEF Earlier
    <3>4. Cardinality(Completed) >= Cardinality(Planned)
      BY <3>1 DEF IInv, CountInv
    <3>5. /\ Cardinality(Completed) <= Cardinality(Planned)
          /\ Cardinality(Completed) = Cardinality(Planned) => Completed = Planned
      BY <3>3, Counted
    <3>6. Cardinality(Completed) \in Nat /\ Cardinality(Planned) \in Nat
      BY <3>3, Counted
    <3>. QED
      BY <3>4, <3>5, <3>6
  <2>5. CountInv'
    BY <1>1, <1>2, <2>1, <2>4 DEF IInv, CountInv, NextGroup, Planned
  <2>. QED
    BY <1>3, <2>2, <2>3, <2>5 DEF Others
<1>5. CASE ~(shouldStop \/ groupIndex > Len(groups))
  <2>1. /\ pc' = "batches" /\ pc' \in InGroup /\ pc' \notin Setup \cup Merging \cup Resolving
        /\ status' = "executing" /\ pending' = groups[groupIndex] /\ groupIndex \in DOMAIN groups
        /\ retryTasks = <<>> /\ retryTasks' = retryTasks
    BY <1>1, <1>5, GroupFacts DEF NextGroup, InGroup, Setup, Merging, Resolving, IInv, ListsInv
  <2>2. Members(pending') = ThisGroup /\ Distinct(pending') /\ Members(retryTasks') = {}
    BY <1>1, <2>1, GroupFacts DEF ThisGroup, Members
  <2>3. Settled' = Settled
    BY <1>2, <2>1, <2>2 DEF Settled, Waiting
  <2>4. ListsInv'
    BY <1>2, <2>1, <2>2 DEF ListsInv, NextGroup
  <2>5. TrackerInv'
    BY <1>2, <2>1, <2>3 DEF TrackerInv
  <2>6. CountInv'
    BY <1>1, <1>2, <2>1, <2>3 DEF IInv, CountInv, NextGroup
  <2>7. WorkerInv'
    BY <1>1, <1>2, <1>5, <2>1, <2>2 DEF IInv, WorkerInv, NextGroup, Active
  <2>. QED
    BY <1>3, <2>4, <2>5, <2>6, <2>7 DEF Others
<1>. QED
  BY <1>4, <1>5

(* The task of the batch that is set up or merged. *)
LEMMA CurrentFacts ==
    ASSUME IInv, pc \in Setup \cup Merging, index \in DOMAIN batch
    PROVE  /\ groupIndex \in DOMAIN groups /\ index \in Nat /\ Len(batch) \in Nat
           /\ Current \in Task /\ Current \in Members(batch) /\ Current \in ThisGroup
           /\ Members(batch) \subseteq ThisGroup /\ ThisGroup \subseteq Task
           /\ Current \notin Members(pending) /\ Members(batch) \cap Members(pending) = {}
           /\ UpTo(batch, index) \subseteq Members(batch)
           /\ UpTo(batch, index + 1) = UpTo(batch, index) \cup {Current}
           /\ From(batch, index) = From(batch, index + 1) \cup {Current}
           /\ Current \notin UpTo(batch, index) /\ Current \notin From(batch, index + 1)
           /\ UpTo(batch, index) \cap From(batch, index) = {}
           /\ Current \notin Settled /\ Current \notin Completed
           /\ \A i \in DOMAIN batch : batch[i] \in Task /\ (batch[i] = Current => i = index)
<1>1. /\ TypeOK /\ PlanInv /\ batch \in Seq(Task) /\ index \in Nat /\ Len(batch) \in Nat
      /\ DOMAIN batch = 1..Len(batch) /\ pc \in InGroup
  BY DEF IInv, TypeOK, InGroup
<1>2. groupIndex \in DOMAIN groups
  BY <1>1 DEF PlanInv
<1>3. /\ Distinct(batch) /\ Members(batch) \subseteq ThisGroup
      /\ Members(batch) \cap Members(pending) = {}
  BY DEF IInv, ListsInv
<1>4. ThisGroup \subseteq Task /\ Earlier \cap ThisGroup = {}
  BY <1>1, <1>2, GroupFacts
<1>5. /\ Current \in Task /\ Current \in Members(batch)
      /\ UpTo(batch, index) \subseteq Members(batch)
      /\ UpTo(batch, index + 1) = UpTo(batch, index) \cup {Current}
      /\ From(batch, index) = From(batch, index + 1) \cup {Current}
      /\ Current \notin UpTo(batch, index) /\ Current \notin From(batch, index + 1)
      /\ UpTo(batch, index) \cap From(batch, index) = {}
  BY <1>1, <1>3, MembersByIndex DEF Current
<1>6. \A i \in DOMAIN batch : batch[i] \in Task /\ (batch[i] = Current => i = index)
  BY <1>1, <1>3 DEF Distinct, Current
<1>7. Current \in Unmerged
  BY <1>5 DEF Unmerged, Setup, Merging
<1>8. Current \notin Settled
  BY <1>3, <1>4, <1>5, <1>7 DEF Settled, Waiting
<1>9. Current \notin Completed
  BY <1>1, <1>8 DEF IInv, TrackerInv
<1>. QED
  BY <1>1, <1>2, <1>3, <1>4, <1>5, <1>6, <1>8, <1>9

(* A batch is taken from what is pending, or the group is over. *)
LEMMA NextBatchKeeps ==
    ASSUME IInv, NextBatch
    PROVE  Others'
<1>. USE DEF planVars, groupVars, workerVars, mergeVars, countVars, gitVars, userVars
<1>1. /\ pc = "batches" /\ pc \in InGroup /\ pc \notin Setup \cup Merging \cup Resolving
      /\ TypeOK /\ PlanInv /\ groupIndex \in DOMAIN groups /\ groupIndex \in Nat
      /\ pending \in Seq(Task) /\ conflicts = <<>>
  BY DEF IInv, TypeOK, PlanInv, ListsInv, NextBatch, InGroup, Setup, Merging, Resolving
<1>2. /\ Settled = Earlier \cup (ThisGroup \ Members(pending)) /\ InProgress = {}
      /\ InProgress' = InProgress /\ Completed' = Completed /\ Completed \subseteq Settled
      /\ Members(pending) \subseteq ThisGroup /\ Distinct(pending)
      /\ Members(retryTasks) \subseteq Members(pending)
      /\ UNCHANGED <<retryTasks, conflicts, worker, shouldStop, status, groups>>
  BY <1>1 DEF NextBatch, Settled, Waiting, Unmerged, IInv, TrackerInv, ListsInv, InProgress,
              Completed, With
<1>3. CASE shouldStop \/ pending = <<>>
  <2>1. /\ pc' = "groups" /\ pc' \notin InGroup /\ pc' \notin Setup \cup Merging \cup Resolving
        /\ pc' \notin {"cleanup", "done"}
        /\ groupIndex' = groupIndex + 1 /\ UNCHANGED <<pending, batch, index>>
    BY <1>3 DEF NextBatch, InGroup, Setup, Merging, Resolving
  <2>2. Earlier' = Earlier \cup ThisGroup
    BY <1>1, <1>2, <2>1, GroupFacts DEF Earlier
  <2>3. Settled' = Earlier \cup ThisGroup
    BY <2>1, <2>2 DEF Settled
  <2>4. pending = <<>> => Members(pending) = {} /\ retryTasks = <<>>
    <3>1. retryTasks \in Seq(Task)
      BY <1>1, ListsTyped
    <3>. QED
      BY <1>2, <3>1, MembersOfTail DEF Members
  <2>5. ListsInv'
    BY <1>1, <1>2, <1>3, <2>1, <2>4 DEF ListsInv
  <2>6. TrackerInv'
    BY <1>2, <2>1, <2>3 DEF TrackerInv
  <2>7. CountInv'
    <3>1. shouldStop \/ Settled' = Settled
      BY <1>2, <1>3, <2>3, <2>4
    <3>2. status # "completed"
      BY <1>1 DEF IInv, CountInv
    <3>. QED
      <4>1. totalCompleted' = Cardinality(Completed')
        BY <1>1, <1>2 DEF IInv, CountInv, NextBatch
      <4>2. shouldStop \/ totalCompleted + totalFailed = Cardinality(Settled)
        BY <1>1 DEF IInv, CountInv
      <4>3. shouldStop' \/ totalCompleted' + totalFailed' = Cardinality(Settled')
        <5>1. totalCompleted' = totalCompleted /\ totalFailed' = totalFailed
          BY DEF NextBatch
        <5>. QED
          BY <1>2, <3>1, <4>2, <5>1, Zenon
      <4>. QED
        BY <1>2, <3>2, <4>1, <4>3 DEF CountInv
  <2>8. WorkerInv'
    BY <1>1, <1>2, <1>3, <2>1, <2>2, <2>4 DEF IInv, WorkerInv, Active
  <2>9. WorktreeInv' /\ BaseInv' /\ MergeInv'
    BY <1>1, <1>2, <2>1 DEF IInv, WorktreeInv, BaseInv, MergeInv, NextBatch, Refused, Statuses
  <2>. QED
    BY <2>5, <2>6, <2>7, <2>8, <2>9 DEF Others
<1>4. CASE ~(shouldStop \/ pending = <<>>)
  <2>1. /\ pc' = "acquire" /\ pc' \in InGroup /\ pc' \in Setup /\ pc' \notin Merging \cup Resolving
        /\ batch' = SubSeq(pending, 1, BatchSize)
        /\ pending' = SubSeq(pending, BatchSize + 1, Len(pending))
        /\ index' = 1 /\ groupIndex' = groupIndex
    BY <1>4 DEF NextBatch, InGroup, Setup, Merging, Resolving
  <2>2. /\ BatchSize \in Nat /\ BatchSize <= Len(pending) /\ BatchSize >= 1
    BY <1>1, <1>4, NextBatchSize
  <2>3. /\ batch' \in Seq(Task) /\ Len(batch') = BatchSize
        /\ Members(pending) = Members(batch') \cup Members(pending')
        /\ Distinct(batch') /\ Distinct(pending') /\ Members(batch') \cap Members(pending') = {}
    <3>. DEFINE a == SubSeq(pending, 1, BatchSize)
                b == SubSeq(pending, BatchSize + 1, Len(pending))
    <3>1. /\ a \in Seq(Task) /\ b \in Seq(Task) /\ Len(a) = BatchSize
          /\ Members(pending) = Members(a) \cup Members(b)
          /\ Distinct(pending) => Distinct(a) /\ Distinct(b) /\ Members(a) \cap Members(b) = {}
      BY <1>1, <2>2, MembersOfSplit, Zenon
    <3>. HIDE DEF a, b
    <3>2. batch' = a /\ pending' = b
      BY <2>1, Zenon DEF a, b
    <3>. QED
      BY <1>2, <3>1, <3>2
  <2>4. UpTo(batch', index') = {} /\ DOMAIN batch' = 1..BatchSize /\ index' \in 1..(Len(batch')+1)
        /\ index' <= Len(batch') /\ \A i \in DOMAIN batch' : ~HasWorktree(i)'
    <3>1. UpTo(batch', 1) = {}
      BY <2>3, MembersByIndex
    <3>2. DOMAIN batch' = 1..BatchSize /\ index' \in 1..(Len(batch') + 1) /\ index' <= Len(batch')
      BY <2>1, <2>2, <2>3
    <3>3. \A i \in 1..BatchSize : ~(i < 1)
      BY <2>2
    <3>. QED
      BY <2>1, <3>1, <3>2, <3>3 DEF HasWorktree
  <2>5. Earlier' = Earlier /\ ThisGroup' = ThisGroup /\ SetUp' = {}
    BY <1>2, <2>1, <2>4 DEF Earlier, ThisGroup, SetUp
  <2>6. Settled' = Settled
    BY <1>2, <2>1, <2>3, <2>5 DEF Settled, Waiting, Unmerged
  <2>7. ListsInv'
    BY <1>1, <1>2, <2>1, <2>3, <2>4, <2>5 DEF ListsInv
  <2>8. TrackerInv'
    BY <1>2, <2>1, <2>5, <2>6 DEF TrackerInv
  <2>9. CountInv'
    BY <1>1, <1>2, <2>1, <2>6 DEF IInv, CountInv, NextBatch
  <2>10. WorkerInv'
    BY <1>1, <1>2, <2>1, <2>3, <2>5 DEF IInv, WorkerInv, Active
  <2>11. WorktreeInv' /\ BaseInv' /\ MergeInv'
    BY <1>1, <1>2, <2>1, <2>4
       DEF IInv, WorktreeInv, BaseInv, MergeInv, NextBatch, Refused, Statuses
  <2>. QED
    BY <2>7, <2>8, <2>9, <2>10, <2>11 DEF Others
<1>. QED
  BY <1>3, <1>4

-----------------------------------------------------------------------------
(* The setup and the work of a batch.                                        *)

(* The exception leaves the workers that are set up ready or stopped. *)
LEMMA FailureKeeps ==
    ASSUME IInv, pc \in {"acquire", "initialize"}, pc' = "cleanup", status' = "failed",
           UNCHANGED <<graph, resolves, groups, asked, groupIndex, pending, batch, index,
                       conflicts, worker, retryTasks, merges, totalCompleted, totalFailed,
                       shouldStop, head>>,
           worktrees' \subseteq worktrees
    PROVE  Others'
<1>1. /\ TypeOK /\ PlanInv /\ pc \in Setup /\ pc' \notin InGroup
      /\ pc' \notin Setup \cup Merging \cup Resolving /\ conflicts = <<>>
      /\ groupIndex \in DOMAIN groups /\ groupIndex <= Len(groups)
  <2>1. TypeOK /\ PlanInv /\ groupIndex \in DOMAIN groups
    BY DEF IInv, PlanInv, InGroup, Setup
  <2>. QED
    BY <2>1, GroupFacts DEF IInv, ListsInv, InGroup, Setup, Merging, Resolving
<1>2. ListsInv'
  BY <1>1 DEF ListsInv
<1>3. TrackerInv'
  <2>1. SetUp = UpTo(batch, index)
    BY DEF SetUp
  <2>. QED
    BY <1>1, <2>1 DEF IInv, TrackerInv, WorkerInv, InProgress, With
<1>4. CountInv'
  <2>1. totalCompleted' = Cardinality(Completed')
    BY DEF IInv, CountInv, Completed, With
  <2>. QED
    BY <1>1, <2>1 DEF CountInv
<1>5. WorkerInv'
  BY <1>1 DEF IInv, WorkerInv, Active
<1>6. WorktreeInv' /\ BaseInv'
  BY <1>1 DEF IInv, WorktreeInv, BaseInv
<1>7. MergeInv'
  BY <1>1 DEF IInv, MergeInv, Refused, Statuses, Completed, With
<1>. QED
  BY <1>2, <1>3, <1>4, <1>5, <1>6, <1>7 DEF Others

(* The setup of a batch throws. *)
LEMMA SetupThrowsKeeps ==
    ASSUME IInv, SetupThrows
    PROVE  Others'
BY FailureKeeps DEF SetupThrows, ExecutionFails, planVars, workerVars, mergeVars, countVars,
                    userVars, gitVars

(* A worktree is added for the task, or git refuses the branch. *)
LEMMA AcquireKeeps ==
    ASSUME IInv, AcquireWorktree
    PROVE  Others'
<1>. USE DEF planVars, groupVars, workerVars, mergeVars, countVars, gitVars, userVars
<1>1. CASE CheckedOutElsewhere(Current)
  <2>1. worktrees' \subseteq worktrees
    BY <1>1 DEF AcquireWorktree, OtherWorktrees
  <2>. QED
    BY <1>1, <2>1, FailureKeeps DEF AcquireWorktree, ExecutionFails
<1>2. CASE ~CheckedOutElsewhere(Current)
  <2>. DEFINE new == [group |-> groupIndex, slot |-> index, task |-> Current]
  <2>1. /\ pc = "acquire" /\ pc' = "initialize" /\ pc \in Setup /\ pc' \in Setup
        /\ pc \in InGroup /\ pc' \in InGroup
        /\ pc \notin Merging \cup Resolving /\ pc' \notin Merging \cup Resolving
        /\ worktrees' = OtherWorktrees \cup {new}
        /\ branches' = branches \cup {Current}
        /\ base' = [base EXCEPT ![Current] = head]
        /\ UNCHANGED <<graph, resolves, groups, asked, groupIndex, pending, batch, index,
                       conflicts, worker, retryTasks, merges, totalCompleted, totalFailed,
                       status, shouldStop, head>>
    BY <1>2 DEF AcquireWorktree, BranchPoint, InGroup, Setup, Merging, Resolving
  <2>2. /\ TypeOK /\ index \in DOMAIN batch
    BY <2>1, Typed DEF IInv
  <2>3. /\ Current \in Task /\ index \in Nat
        /\ \A i \in DOMAIN batch : batch[i] \in Task /\ (batch[i] = Current => i = index)
    BY <2>1, <2>2, CurrentFacts
  <2>4. /\ Settled' = Settled /\ InProgress' = InProgress /\ Completed' = Completed
        /\ SetUp' = SetUp /\ ThisGroup' = ThisGroup /\ Earlier' = Earlier
    BY <2>1 DEF Settled, Waiting, Unmerged, InProgress, Completed, With, SetUp, ThisGroup, Earlier
  <2>5. ListsInv'
    BY <2>1, <2>4 DEF IInv, ListsInv
  <2>6. TrackerInv'
    BY <2>1, <2>4 DEF IInv, TrackerInv
  <2>7. CountInv'
    BY <2>1, <2>4 DEF IInv, CountInv
  <2>8. WorkerInv'
    BY <2>1, <2>4 DEF IInv, WorkerInv, Active
  <2>9. WorktreeInv'
    <3>. HIDE DEF new
    <3>1. /\ new.group = groupIndex /\ new.slot = index /\ new.task = Current
      BY DEF new
    <3>2. \A w \in OtherWorktrees : /\ w \in worktrees /\ w.task # Current
                                    /\ ~(w.group = groupIndex /\ w.slot = index)
      BY <1>2 DEF OtherWorktrees, CheckedOutElsewhere
    <3>3. \A w, v \in worktrees' :
             (w.group = v.group /\ w.slot = v.slot) \/ w.task = v.task => w = v
      BY <2>1, <3>1, <3>2 DEF IInv, WorktreeInv
    <3>4. ASSUME NEW i \in DOMAIN batch, HasWorktree(i)'
          PROVE  /\ batch[i] \in branches'
                 /\ [group |-> groupIndex, slot |-> i, task |-> batch[i]] \in worktrees'
      <4>1. CASE i = index
        BY <2>1, <4>1 DEF Current, new
      <4>2. CASE i # index
        <5>1. HasWorktree(i)
          BY <2>1, <3>4, <4>2 DEF HasWorktree
        <5>2. /\ batch[i] \in branches
              /\ [group |-> groupIndex, slot |-> i, task |-> batch[i]] \in worktrees
          BY <2>1, <5>1 DEF IInv, WorktreeInv
        <5>3. [group |-> groupIndex, slot |-> i, task |-> batch[i]] \in OtherWorktrees
          BY <4>2, <5>2 DEF OtherWorktrees
        <5>. QED
          BY <2>1, <5>2, <5>3
      <4>. QED
        BY <4>1, <4>2
    <3>. QED
      BY <2>1, <3>3, <3>4 DEF WorktreeInv
  <2>10. BaseInv'
    <3>. SUFFICES ASSUME ~Refused, NEW i \in DOMAIN batch, HasWorktree(i)'
                  PROVE  Dependencies(graph, batch[i]) \cap Completed \subseteq base'[batch[i]]
      BY <2>1, <2>4 DEF BaseInv, Refused, Statuses
    <3>1. CASE i = index
      <4>1. Completed \subseteq head
        BY DEF IInv, MergeInv
      <4>2. base'[batch[i]] = head
        BY <2>1, <2>2, <2>3, <3>1 DEF TypeOK, Current
      <4>. QED
        BY <4>1, <4>2
    <3>2. CASE i # index
      <4>1. HasWorktree(i)
        BY <2>1, <3>2 DEF HasWorktree
      <4>2. base'[batch[i]] = base[batch[i]]
        BY <2>1, <2>2, <2>3, <3>2 DEF TypeOK
      <4>. QED
        BY <2>1, <4>1, <4>2 DEF IInv, BaseInv
    <3>. QED
      BY <3>1, <3>2
  <2>11. MergeInv'
    BY <2>1, <2>4 DEF IInv, MergeInv, Refused, Statuses
  <2>. QED
    BY <2>5, <2>6, <2>7, <2>8, <2>9, <2>10, <2>11 DEF Others
<1>. QED
  BY <1>1, <1>2

(* The worker is ready and its task in_progress. *)
LEMMA InitializeKeeps ==
    ASSUME IInv, InitializeWorker
    PROVE  Others'
<1>. USE DEF planVars, groupVars, workerVars, mergeVars, countVars, gitVars, userVars
<1>1. /\ pc = "initialize" /\ pc' \in {"start", "acquire"} /\ pc \in Setup /\ pc' \in Setup
      /\ pc \in InGroup /\ pc' \in InGroup
      /\ pc \notin Merging \cup Resolving /\ pc' \notin Merging \cup Resolving
      /\ index' = index + 1 /\ (pc' = "start" <=> index = Len(batch))
      /\ worker' = [worker EXCEPT ![Current] = "ready"]
      /\ SetTracker(Current, "in_progress")
      /\ UNCHANGED <<graph, resolves, groups, groupIndex, pending, batch, conflicts,
                     retryTasks, merges, totalCompleted, totalFailed, status, shouldStop,
                     head, base, branches, worktrees>>
  BY DEF InitializeWorker, InGroup, Setup, Merging, Resolving
<1>2. TypeOK /\ index \in DOMAIN batch /\ batch \in Seq(Task) /\ DOMAIN batch = 1..Len(batch)
  <2>1. TypeOK /\ index \in DOMAIN batch
    BY <1>1, Typed DEF IInv
  <2>. QED
    BY <2>1 DEF TypeOK
<1>3. /\ Current \in Task /\ index \in Nat /\ Len(batch) \in Nat
      /\ Current \in Members(batch) /\ Members(batch) \subseteq Task
      /\ UpTo(batch, index + 1) = UpTo(batch, index) \cup {Current}
      /\ UpTo(batch, index) \subseteq Members(batch)
      /\ Current \notin Completed
      /\ \A i \in DOMAIN batch : batch[i] \in Task /\ (batch[i] = Current => i = index)
  BY <1>1, <1>2, CurrentFacts
<1>4. /\ InProgress' = InProgress \cup {Current} /\ Completed' = Completed
  <2>1. InProgress' = InProgress \cup {Current} /\ Completed' = Completed \ {Current}
    BY <1>1, <1>2, <1>3, TrackerSet, Zenon
  <2>. QED
    BY <1>3, <2>1
<1>5. SetUp = UpTo(batch, index) /\ SetUp' = SetUp \cup {Current}
  <2>1. UpTo(batch, Len(batch) + 1) = Members(batch)
    BY <1>2, MembersByIndex
  <2>. QED
    BY <1>1, <1>2, <1>3, <2>1 DEF SetUp
<1>6. /\ Settled' = Settled /\ ThisGroup' = ThisGroup /\ Earlier' = Earlier
  BY <1>1 DEF Settled, Waiting, Unmerged, ThisGroup, Earlier
<1>7. ListsInv'
  <2>1. index' \in 1..(Len(batch) + 1) /\ (pc' = "acquire" => index' <= Len(batch))
    BY <1>1, <1>2, <1>3
  <2>. QED
    BY <1>1, <1>6, <2>1 DEF IInv, ListsInv
<1>8. TrackerInv'
  BY <1>1, <1>4, <1>5, <1>6 DEF IInv, TrackerInv
<1>9. CountInv'
  BY <1>1, <1>4, <1>6 DEF IInv, CountInv
<1>10. \A t \in Task : worker'[t] = IF t = Current THEN "ready" ELSE worker[t]
  BY <1>1, <1>2 DEF TypeOK
<1>11. WorkerInv'
  <2>1. ThisGroup \subseteq Task /\ Earlier \subseteq Task /\ Earlier \cap ThisGroup = {}
        /\ Current \in ThisGroup
    <3>1. groupIndex \in DOMAIN groups
      BY <1>1 DEF IInv, PlanInv
    <3>. QED
      BY <1>1, <1>2, <3>1, GroupFacts, CurrentFacts DEF IInv
  <2>. QED
    BY <1>1, <1>3, <1>5, <1>6, <1>10, <2>1 DEF IInv, WorkerInv, Active
<1>12. \A i \in DOMAIN batch : HasWorktree(i)' => HasWorktree(i)
  BY <1>1, <1>2, <1>3 DEF HasWorktree
<1>13. WorktreeInv'
  BY <1>1, <1>12 DEF IInv, WorktreeInv
<1>14. BaseInv'
  BY <1>1, <1>4, <1>12 DEF IInv, BaseInv, Refused, Statuses
<1>15. MergeInv'
  BY <1>1, <1>4 DEF IInv, MergeInv, Refused, Statuses
<1>. QED
  BY <1>7, <1>8, <1>9, <1>11, <1>13, <1>14, <1>15 DEF Others

(* The workers of the batch start. *)
LEMMA StartKeeps ==
    ASSUME IInv, StartWorkers
    PROVE  Others'
<1>. USE DEF planVars, groupVars, workerVars, mergeVars, countVars, gitVars, userVars
<1>1. /\ pc = "start" /\ pc' = "working" /\ pc \in Setup /\ pc' \in Setup
      /\ pc \in InGroup /\ pc' \in InGroup
      /\ pc \notin Merging \cup Resolving /\ pc' \notin Merging \cup Resolving
      /\ UNCHANGED <<graph, resolves, groups, asked, groupIndex, pending, batch, index,
                     conflicts, retryTasks, merges, totalCompleted, totalFailed, status,
                     shouldStop, head, base, branches, worktrees>>
  BY DEF StartWorkers, InGroup, Setup, Merging, Resolving
<1>2. /\ Settled' = Settled /\ InProgress' = InProgress /\ Completed' = Completed
      /\ SetUp' = Members(batch) /\ SetUp = Members(batch)
      /\ ThisGroup' = ThisGroup /\ Earlier' = Earlier
  BY <1>1 DEF Settled, Waiting, Unmerged, InProgress, Completed, With, SetUp, ThisGroup, Earlier
<1>3. ListsInv'
  BY <1>1, <1>2 DEF IInv, ListsInv
<1>4. TrackerInv'
  BY <1>1, <1>2 DEF IInv, TrackerInv
<1>5. CountInv'
  BY <1>1, <1>2 DEF IInv, CountInv
<1>6. \A t \in Task : worker'[t] = IF t \notin Members(batch) THEN worker[t]
                                   ELSE IF worker[t] = "ready" THEN "running" ELSE "ended"
  BY DEF StartWorkers, InBatch, Members
<1>7. WorkerInv'
  <2>1. ThisGroup \subseteq Task /\ Earlier \subseteq Task /\ Earlier \cap ThisGroup = {}
        /\ Members(batch) \subseteq ThisGroup
    <3>1. groupIndex \in DOMAIN groups
      BY <1>1 DEF IInv, PlanInv
    <3>. QED
      BY <1>1, <3>1, GroupFacts DEF IInv, ListsInv
  <2>. QED
    BY <1>1, <1>2, <1>6, <2>1 DEF IInv, WorkerInv, Active
<1>8. \A i \in DOMAIN batch : HasWorktree(i)' => HasWorktree(i)
  BY <1>1 DEF HasWorktree
<1>9. WorktreeInv' /\ BaseInv'
  BY <1>1, <1>2, <1>8 DEF IInv, WorktreeInv, BaseInv, Refused, Statuses
<1>10. MergeInv'
  BY <1>1, <1>2 DEF IInv, MergeInv, Refused, Statuses
<1>. QED
  BY <1>3, <1>4, <1>5, <1>7, <1>9, <1>10 DEF Others

(* From the end of the setup on nothing is said of worktrees and branches. *)
LEMMA PlacesKept ==
    ASSUME IInv, pc' \notin Setup, worktrees' \subseteq worktrees
    PROVE  WorktreeInv' /\ BaseInv'
BY DEF IInv, WorktreeInv, BaseInv

(* All workers of the batch have ended: the whole batch is to be merged. *)
LEMMA CollectKeeps ==
    ASSUME IInv, CollectResults
    PROVE  Others'
<1>. USE DEF planVars, groupVars, workerVars, mergeVars, countVars, gitVars, userVars
<1>1. /\ pc = "working" /\ pc' = "merge" /\ pc \in Setup /\ pc' \notin Setup /\ pc' \in Merging
      /\ pc \in InGroup /\ pc' \in InGroup /\ pc' \notin Resolving
      /\ pc \notin Merging \cup Resolving /\ pc' \in Setup \cup Merging \cup Resolving
      /\ index' = 1 /\ retryTasks' = <<>> /\ conflicts' = <<>> /\ status' = "merging"
      /\ UNCHANGED <<graph, resolves, groups, asked, groupIndex, pending, batch, worker, merges,
                     totalCompleted, totalFailed, shouldStop, head, base, branches, worktrees>>
  BY DEF CollectResults, InGroup, Setup, Merging, Resolving
<1>2. batch \in Seq(Task) /\ Len(batch) \in Nat
  BY DEF IInv, TypeOK
<1>3. Members(<<>>) = {} /\ From(batch, 1) = Members(batch) /\ UpTo(batch, 1) = {}
  BY <1>2, MembersByIndex DEF Members
<1>4. /\ Settled' = Settled /\ InProgress' = InProgress /\ Completed' = Completed
      /\ Unmerged' = Members(batch) /\ SetUp = Members(batch)
      /\ ThisGroup' = ThisGroup /\ Earlier' = Earlier
  BY <1>1, <1>3
     DEF Settled, Waiting, Unmerged, InProgress, Completed, With, SetUp, ThisGroup, Earlier
<1>5. ListsInv'
  <2>1. 1 \in 1..(Len(batch) + 1) /\ Distinct(<<>>)
    BY <1>2 DEF Distinct
  <2>. QED
    BY <1>1, <1>3, <1>4, <2>1 DEF IInv, ListsInv
<1>6. TrackerInv'
  <2>1. InProgress = Members(batch)
    BY <1>1, <1>4 DEF IInv, TrackerInv
  <2>. QED
    BY <1>1, <1>3, <1>4, <2>1 DEF IInv, TrackerInv
<1>7. CountInv'
  BY <1>1, <1>4 DEF IInv, CountInv
<1>8. WorkerInv'
  <2>1. \A t \in Members(batch) : worker[t] = "ended"
    BY DEF CollectResults, InBatch, Members
  <2>. QED
    BY <1>1, <1>4, <2>1 DEF IInv, WorkerInv, Active
<1>9. WorktreeInv' /\ BaseInv'
  BY <1>1, PlacesKept
<1>10. MergeInv'
  BY <1>1, <1>4 DEF IInv, MergeInv, Refused, Statuses
<1>. QED
  BY <1>5, <1>6, <1>7, <1>8, <1>9, <1>10 DEF Others

(* Steps that only move execute() to its next await. *)
LEMMA MovesOnKeeps ==
    ASSUME IInv, BeginMerge \/ BeginResolve \/ MergesDone
    PROVE  Others'
<1>. USE DEF planVars, groupVars, workerVars, mergeVars, countVars, gitVars, userVars
<1>1. /\ pc \notin Setup /\ pc' \notin Setup
      /\ pc \in InGroup /\ pc' \in InGroup
      /\ pc \in Merging \cup Resolving /\ pc' \in Merging \cup Resolving
      /\ pc \in Setup \cup Merging \cup Resolving /\ pc' \in Setup \cup Merging \cup Resolving
      /\ pc \in {"merge", "resolve"} /\ pc' \in {"merging", "resolving", "resolve"}
      /\ UNCHANGED <<graph, resolves, groups, asked, groupIndex, pending, batch, index,
                     worker, merges, conflicts, retryTasks, status, totalCompleted,
                     totalFailed, shouldStop, head, base, branches, worktrees>>
  BY DEF BeginMerge, BeginResolve, MergesDone, InGroup, Setup, Merging, Resolving
<1>2. /\ batch \in Seq(Task) /\ Len(batch) \in Nat /\ index \in Nat /\ index <= Len(batch) + 1
  BY <1>1 DEF IInv, TypeOK, ListsInv
<1>3. Unmerged' = Unmerged
  <2>1. CASE MergesDone
    <3>1. index = Len(batch) + 1
      BY <1>2, <2>1 DEF MergesDone
    <3>2. From(batch, index) = {}
      BY <1>2, <3>1, MembersByIndex
    <3>. QED
      BY <1>1, <2>1, <3>2 DEF Unmerged, MergesDone, Merging
  <2>2. CASE BeginMerge \/ BeginResolve
    BY <1>1, <2>2 DEF Unmerged, BeginMerge, BeginResolve, Merging
  <2>. QED
    BY <2>1, <2>2
<1>4. /\ Settled' = Settled /\ InProgress' = InProgress /\ Completed' = Completed
      /\ ThisGroup' = ThisGroup /\ Earlier' = Earlier
  BY <1>1, <1>3 DEF Settled, Waiting, InProgress, Completed, With, ThisGroup, Earlier
<1>5. ListsInv'
  <2>1. /\ pc' \in {"acquire", "initialize", "merging", "completing"} => index <= Len(batch)
        /\ pc' \in Resolving => index = Len(batch) + 1
        /\ pc' \in {"resolving", "completingResolved"} => conflicts # <<>>
    <3>1. CASE MergesDone
      BY <1>2, <3>1 DEF MergesDone
    <3>2. CASE BeginMerge
      BY <3>2 DEF BeginMerge, Resolving
    <3>3. CASE BeginResolve
      BY <3>3 DEF BeginResolve, IInv, ListsInv, Resolving
    <3>. QED
      BY <3>1, <3>2, <3>3
  <2>. QED
    BY <1>1, <1>4, <2>1 DEF IInv, ListsInv
<1>6. TrackerInv'
  BY <1>1, <1>3, <1>4 DEF IInv, TrackerInv
<1>7. CountInv'
  BY <1>1, <1>4 DEF IInv, CountInv
<1>8. WorkerInv'
  BY <1>1, <1>4 DEF IInv, WorkerInv, Active
<1>9. WorktreeInv' /\ BaseInv'
  BY <1>1, PlacesKept
<1>10. MergeInv'
  BY <1>1, <1>4 DEF IInv, MergeInv, Refused, Statuses
<1>. QED
  BY <1>5, <1>6, <1>7, <1>8, <1>9, <1>10 DEF Others

-----------------------------------------------------------------------------
(* Phase 1: merges.                                                          *)

Marks == {"completed", "conflicted", "failed", "rolled-back"}

(* A mark appended, or put in the place of one that was no refusal, does not   *)
(* make a refusal forgotten.                                                 *)
LEMMA RefusedKept ==
    ASSUME TypeOK, NEW t \in Task, NEW mark \in Marks, resolves' = resolves,
           \/ merges' = [merges EXCEPT ![t] = Append(merges[t], mark)]
           \/ /\ merges' = [merges EXCEPT ![t] = MarkLast(t, mark)]
              /\ Len(merges[t]) > 0 /\ LastMark(merges[t]) # "rolled-back"
    PROVE  /\ Refused => Refused'
           /\ \A u \in Task : u # t => merges'[u] = merges[u]
           /\ Len(merges'[t]) > 0 /\ LastMark(merges'[t]) = mark
           /\ mark = "rolled-back" /\ resolves => Refused'
<1>1. /\ merges \in [Task -> Seq(Marks)] /\ merges[t] \in Seq(Marks) /\ Len(merges[t]) \in Nat
      /\ DOMAIN merges[t] = 1..Len(merges[t])
  BY DEF TypeOK, Marks
<1>2. \A u \in Task : u # t => merges'[u] = merges[u]
  BY <1>1
<1>3. /\ Len(merges'[t]) > 0 /\ LastMark(merges'[t]) = mark /\ Len(merges'[t]) \in DOMAIN merges'[t]
      /\ \A i \in DOMAIN merges[t] : merges[t][i] = "rolled-back" =>
            i \in DOMAIN merges'[t] /\ merges'[t][i] = "rolled-back"
  <2>1. CASE merges' = [merges EXCEPT ![t] = Append(merges[t], mark)]
    <3>1. merges'[t] = Append(merges[t], mark)
      BY <1>1, <2>1
    <3>. QED
      BY <1>1, <3>1 DEF LastMark
  <2>2. CASE /\ merges' = [merges EXCEPT ![t] = MarkLast(t, mark)]
             /\ Len(merges[t]) > 0 /\ LastMark(merges[t]) # "rolled-back"
    <3>1. merges'[t] = [merges[t] EXCEPT ![Len(merges[t])] = mark]
      BY <1>1, <2>2 DEF MarkLast
    <3>2. /\ DOMAIN merges'[t] = DOMAIN merges[t] /\ Len(merges'[t]) = Len(merges[t])
          /\ merges'[t][Len(merges[t])] = mark
          /\ \A i \in DOMAIN merges[t] : i # Len(merges[t]) => merges'[t][i] = merges[t][i]
      BY <1>1, <2>2, <3>1
    <3>. QED
      BY <1>1, <2>2, <3>2 DEF LastMark
  <2>. QED
    BY <2>1, <2>2
<1>4. ASSUME Refused PROVE Refused'
  <2>1. PICK u \in Task : \E i \in DOMAIN merges[u] : merges[u][i] = "rolled-back"
    BY <1>4 DEF Refused, Statuses
  <2>2. PICK i \in DOMAIN merges[u] : merges[u][i] = "rolled-back"
    BY <2>1
  <2>3. i \in DOMAIN merges'[u] /\ merges'[u][i] = "rolled-back"
    BY <1>2, <1>3, <2>2
  <2>. QED
    BY <1>4, <2>3 DEF Refused, Statuses
<1>5. mark = "rolled-back" /\ resolves => Refused'
  BY <1>3 DEF Refused, Statuses, LastMark
<1>. QED
  BY <1>2, <1>3, <1>4, <1>5

(* One more task is settled, and one more is counted. *)
LEMMA CountGrows ==
    ASSUME IInv, pc \in InGroup, pc' \in InGroup, NEW t \in Task \ Settled,
           \/ /\ totalCompleted' = totalCompleted + 1 /\ totalFailed' = totalFailed
              /\ Completed' = Completed \cup {t} /\ t \notin Completed
           \/ /\ totalCompleted' = totalCompleted /\ totalFailed' = totalFailed + 1
              /\ Completed' = Completed,
           Settled' = Settled \cup {t}, UNCHANGED <<groups, groupIndex, shouldStop, status>>
    PROVE  CountInv'
<1>1. pc \notin {"cleanup", "done"} /\ pc' \notin {"cleanup", "done"}
  BY DEF InGroup, Setup, Merging, Resolving
<1>2. Settled \subseteq Task /\ Completed \subseteq Task
  <2>1. groupIndex \in DOMAIN groups
    BY DEF IInv, PlanInv
  <2>. QED
    BY <2>1, GroupFacts DEF IInv, Settled, Completed, With
<1>3. Cardinality(Settled \cup {t}) = Cardinality(Settled) + 1 /\ Cardinality(Settled) \in Nat
  BY <1>2, Counted
<1>4. t \notin Completed =>
        /\ Cardinality(Completed \cup {t}) = Cardinality(Completed) + 1
        /\ Cardinality(Completed) \in Nat
  BY <1>2, Counted
<1>5. /\ totalCompleted = Cardinality(Completed) /\ status # "completed"
      /\ shouldStop \/ totalCompleted + totalFailed = Cardinality(Settled)
      /\ totalCompleted \in Nat /\ totalFailed \in Nat
  BY <1>1 DEF IInv, CountInv, TypeOK
<1>6. totalCompleted' = Cardinality(Completed')
  <2>1. CASE /\ totalCompleted' = totalCompleted + 1
             /\ Completed' = Completed \cup {t} /\ t \notin Completed
    BY <1>4, <1>5, <2>1
  <2>2. CASE totalCompleted' = totalCompleted /\ Completed' = Completed
    BY <1>5, <2>2
  <2>. QED
    BY <2>1, <2>2
<1>7. shouldStop' \/ totalCompleted' + totalFailed' = Cardinality(Settled')
  <2>1. totalCompleted' + totalFailed' = totalCompleted + totalFailed + 1
    BY <1>5
  <2>2. Cardinality(Settled') = Cardinality(Settled) + 1
    BY <1>3
  <2>. QED
    BY <1>5, <2>1, <2>2
<1>. QED
  BY <1>5, <1>6, <1>7 DEF CountInv

(* While merges and conflicts are dealt with, workers and worktrees rest. *)
LEMMA WorkersAtRest ==
    ASSUME IInv, pc \in Merging \cup Resolving, pc' \in {"batches"} \cup Merging \cup Resolving,
           UNCHANGED <<groups, groupIndex, batch, worker, worktrees>>,
           pc' = "batches" \/ UNCHANGED pending,
           Members(pending) \subseteq Members(pending')
    PROVE  /\ WorkerInv' /\ WorktreeInv' /\ BaseInv'
           /\ pc \in InGroup /\ pc' \in InGroup /\ pc \notin Setup /\ pc' \notin Setup
           /\ ThisGroup' = ThisGroup /\ Earlier' = Earlier
<1>1. /\ pc \in InGroup /\ pc' \in InGroup /\ pc \notin Setup /\ pc' \notin Setup
      /\ ThisGroup' = ThisGroup /\ Earlier' = Earlier
      /\ pc # "working" /\ pc' \notin {"acquire", "initialize", "start", "working"}
  BY DEF InGroup, Setup, Merging, Resolving, ThisGroup, Earlier
<1>2. WorkerInv'
  BY <1>1 DEF IInv, WorkerInv, Active
<1>. QED
  BY <1>1, <1>2, PlacesKept

(* The task that is merged is in no other list. *)
LEMMA MergeFacts ==
    ASSUME IInv, pc \in Merging, index \in DOMAIN batch
    PROVE  /\ conflicts \in Seq(Task) /\ retryTasks \in Seq(Task)
           /\ Members(conflicts) \subseteq UpTo(batch, index)
           /\ Members(retryTasks) \subseteq UpTo(batch, index)
           /\ Current \notin Members(conflicts) /\ Current \notin Members(retryTasks)
           /\ \A i \in DOMAIN conflicts : conflicts[i] \in Task /\ conflicts[i] # Current
           /\ \A i \in DOMAIN conflicts : /\ Len(merges[conflicts[i]]) > 0
                                          /\ LastMark(merges[conflicts[i]]) = "conflicted"
           /\ Unmerged = From(batch, index) /\ Current \in Task /\ Current \in ThisGroup
           /\ Waiting = {Current} \cup Members(pending) \cup From(batch, index + 1)
                          \cup Members(conflicts) \cup Members(retryTasks)
           /\ Current \notin Members(pending) \cup From(batch, index + 1)
           /\ Settled = Earlier \cup (ThisGroup \ Waiting) /\ Current \notin Settled
           /\ InProgress = From(batch, index) \cup Members(conflicts)
           /\ Completed \subseteq Settled
           /\ Current \notin Completed
           /\ UpTo(batch, index) \subseteq UpTo(batch, index + 1)
           /\ UpTo(batch, index + 1) = UpTo(batch, index) \cup {Current}
           /\ From(batch, index) = From(batch, index + 1) \cup {Current}
           /\ index + 1 \in 1..(Len(batch) + 1) /\ index + 1 \in Nat
<1>1. /\ conflicts \in Seq(Task) /\ retryTasks \in Seq(Task) /\ batch \in Seq(Task)
      /\ index \in Nat /\ Len(batch) \in Nat /\ DOMAIN batch = 1..Len(batch)
      /\ pc \in InGroup /\ pc \in Setup \cup Merging /\ pc \notin Setup
      /\ pc # "completingResolved"
  BY DEF IInv, TypeOK, InGroup, Setup, Merging
<1>2. /\ Current \in Task /\ Current \in ThisGroup
      /\ Current \notin Members(pending)
      /\ UpTo(batch, index + 1) = UpTo(batch, index) \cup {Current}
      /\ From(batch, index) = From(batch, index + 1) \cup {Current}
      /\ Current \notin UpTo(batch, index) /\ Current \notin From(batch, index + 1)
      /\ Current \notin Settled /\ Current \notin Completed
  BY <1>1, CurrentFacts
<1>3. /\ Members(conflicts) \subseteq UpTo(batch, index)
      /\ Members(retryTasks) \subseteq UpTo(batch, index)
  BY DEF IInv, ListsInv
<1>4. \A i \in DOMAIN conflicts : conflicts[i] \in Task /\ conflicts[i] # Current
  BY <1>1, <1>2, <1>3 DEF Members
<1>5. \A i \in DOMAIN conflicts : /\ Len(merges[conflicts[i]]) > 0
                                  /\ LastMark(merges[conflicts[i]]) = "conflicted"
  BY <1>1 DEF IInv, MergeInv
<1>6. Unmerged = From(batch, index)
  BY <1>1 DEF Unmerged
<1>7. Waiting = {Current} \cup Members(pending) \cup From(batch, index + 1)
                   \cup Members(conflicts) \cup Members(retryTasks)
  BY <1>2, <1>6 DEF Waiting
<1>8. /\ Settled = Earlier \cup (ThisGroup \ Waiting)
      /\ InProgress = From(batch, index) \cup Members(conflicts)
      /\ Completed \subseteq Settled
  BY <1>1, <1>6 DEF IInv, TrackerInv, Settled
<1>9. index + 1 \in 1..(Len(batch) + 1) /\ index + 1 \in Nat
  BY <1>1
<1>. QED
  BY <1>1, <1>2, <1>3, <1>4, <1>5, <1>6, <1>7, <1>8, <1>9

(* A task that is given up is open again and counted as failed. *)
LEMMA GiveUpFacts ==
    ASSUME TypeOK, NEW t \in Task, t \notin Completed, GiveUp(t)
    PROVE  /\ InProgress' = InProgress \ {t} /\ Completed' = Completed
           /\ totalCompleted' = totalCompleted /\ totalFailed' = totalFailed + 1
<1>1. SetTracker(t, "open") /\ totalCompleted' = totalCompleted /\ totalFailed' = totalFailed + 1
  BY DEF GiveUp
<1>2. InProgress' = InProgress \ {t} /\ Completed' = Completed \ {t}
  BY <1>1, TrackerSet, Zenon
<1>. QED
  BY <1>1, <1>2

(* A task that is completed is counted once. *)
LEMMA CompleteFacts ==
    ASSUME TypeOK, NEW t \in Task, Complete(t)
    PROVE  /\ InProgress' = InProgress \ {t} /\ Completed' = Completed \cup {t}
           /\ totalCompleted' = totalCompleted + 1 /\ totalFailed' = totalFailed
<1>1. /\ SetTracker(t, "completed")
      /\ totalCompleted' = totalCompleted + 1 /\ totalFailed' = totalFailed
  BY DEF Complete
<1>. QED
  BY <1>1, TrackerSet, Zenon

(* A task whose worker failed, or that a stop overtook, is given up. *)
LEMMA DoNotMergeKeeps ==
    ASSUME IInv, DoNotMerge
    PROVE  Others'
<1>. USE DEF planVars, groupVars, workerVars, mergeVars, countVars, gitVars, userVars
<1>. DEFINE t == Current
<1>1. /\ pc = "merge" /\ pc' = "merge" /\ pc \in Merging /\ pc' \in Merging
      /\ pc \in Merging \cup Resolving /\ pc \in {"batches"} \cup Merging \cup Resolving
      /\ pc \notin Resolving /\ pc \in Setup \cup Merging \cup Resolving
      /\ index' = index + 1 /\ GiveUp(t)
      /\ UNCHANGED <<graph, resolves, groups, groupIndex, pending, batch, worker, conflicts,
                     retryTasks, merges, status, shouldStop, head, worktrees>>
      /\ TypeOK /\ index \in DOMAIN batch
  BY Typed DEF DoNotMerge, Merging, Resolving, Setup, IInv
<1>2. /\ WorkerInv' /\ WorktreeInv' /\ BaseInv' /\ pc \in InGroup /\ pc \notin Setup
      /\ ThisGroup' = ThisGroup /\ Earlier' = Earlier
  BY <1>1, WorkersAtRest
<1>3. /\ InProgress' = InProgress \ {t} /\ Completed' = Completed
      /\ totalCompleted' = totalCompleted /\ totalFailed' = totalFailed + 1
  BY <1>1, MergeFacts, GiveUpFacts
<1>4. /\ Unmerged' = From(batch, index + 1)
      /\ Waiting' = Members(pending) \cup From(batch, index + 1) \cup Members(conflicts)
                      \cup Members(retryTasks)
  BY <1>1 DEF Unmerged, Waiting, Setup
<1>5. Settled' = Settled \cup {t}
  BY <1>1, <1>2, <1>4, MergeFacts DEF Settled
<1>6. ListsInv'
  BY <1>1, <1>2, MergeFacts DEF IInv, ListsInv
<1>7. TrackerInv'
  BY <1>1, <1>2, <1>3, <1>4, <1>5, MergeFacts DEF TrackerInv
<1>8. CountInv'
  BY <1>1, <1>2, <1>3, <1>5, MergeFacts, CountGrows
<1>9. MergeInv'
  BY <1>1, <1>3 DEF IInv, MergeInv, Refused, Statuses
<1>. QED
  BY <1>2, <1>6, <1>7, <1>8, <1>9 DEF Others

(* A task whose merge succeeded is completed. *)
LEMMA CompleteMergedKeeps ==
    ASSUME IInv, CompleteMerged
    PROVE  Others'
<1>. USE DEF planVars, groupVars, workerVars, mergeVars, countVars, gitVars, userVars
<1>. DEFINE t == Current
<1>1. /\ pc = "completing" /\ pc' = "merge" /\ pc \in Merging /\ pc' \in Merging
      /\ pc \in Merging \cup Resolving /\ pc' \in {"batches"} \cup Merging \cup Resolving
      /\ pc' \notin Resolving /\ pc \in Setup \cup Merging \cup Resolving
      /\ index' = index + 1 /\ Complete(t)
      /\ UNCHANGED <<graph, resolves, groups, groupIndex, pending, batch, worker, conflicts,
                     retryTasks, merges, status, shouldStop, head, worktrees>>
      /\ TypeOK /\ index \in DOMAIN batch
  BY Typed DEF CompleteMerged, Merging, Resolving, Setup, IInv
<1>2. /\ WorkerInv' /\ WorktreeInv' /\ BaseInv' /\ pc \in InGroup /\ pc' \in InGroup
      /\ pc' \notin Setup /\ ThisGroup' = ThisGroup /\ Earlier' = Earlier
  BY <1>1, WorkersAtRest
<1>3. /\ InProgress' = InProgress \ {t} /\ Completed' = Completed \cup {t}
      /\ totalCompleted' = totalCompleted + 1 /\ totalFailed' = totalFailed
  BY <1>1, MergeFacts, CompleteFacts
<1>4. /\ Unmerged' = From(batch, index + 1)
      /\ Waiting' = Members(pending) \cup From(batch, index + 1) \cup Members(conflicts)
                      \cup Members(retryTasks)
  BY <1>1, <1>2 DEF Unmerged, Waiting, Setup
<1>5. Settled' = Settled \cup {t}
  BY <1>1, <1>2, <1>4, MergeFacts DEF Settled
<1>6. ListsInv'
  BY <1>1, <1>2, MergeFacts DEF IInv, ListsInv
<1>7. TrackerInv'
  BY <1>1, <1>2, <1>3, <1>4, <1>5, MergeFacts DEF TrackerInv
<1>8. CountInv'
  BY <1>1, <1>2, <1>3, <1>5, MergeFacts, CountGrows
<1>9. MergeInv'
  BY <1>1, <1>3 DEF IInv, MergeInv, Refused, Statuses
<1>. QED
  BY <1>2, <1>6, <1>7, <1>8, <1>9 DEF Others

(* A failed merge is retried or given up, never both. *)
LEMMA FailureFacts ==
    ASSUME TypeOK, NEW t \in Task, NEW mark, t \notin Completed,
           Distinct(retryTasks), t \notin Members(retryTasks), HandleMergeFailure(t, mark)
    PROVE  /\ merges' = [merges EXCEPT ![t] = mark]
           /\ InProgress' = InProgress \ {t} /\ Completed' = Completed
           /\ totalCompleted' = totalCompleted
           /\ Distinct(retryTasks')
           /\ \/ Members(retryTasks') = Members(retryTasks) \cup {t} /\ totalFailed' = totalFailed
              \/ retryTasks' = retryTasks /\ totalFailed' = totalFailed + 1
<1>1. merges' = [merges EXCEPT ![t] = mark]
  BY DEF HandleMergeFailure
<1>2. CASE RequeueLeft(t)
  <2>1. /\ retryTasks' = Append(retryTasks, t) /\ SetTracker(t, "open")
        /\ totalCompleted' = totalCompleted /\ totalFailed' = totalFailed
    BY <1>2 DEF HandleMergeFailure, countVars
  <2>2. InProgress' = InProgress \ {t} /\ Completed' = Completed \ {t}
    BY <2>1, TrackerSet, Zenon
  <2>3. /\ Members(Append(retryTasks, t)) = Members(retryTasks) \cup {t}
        /\ Distinct(Append(retryTasks, t))
    BY ListsTyped, MembersOfAppend
  <2>. QED
    BY <1>1, <2>1, <2>2, <2>3
<1>3. CASE ~RequeueLeft(t)
  <2>1. GiveUp(t) /\ retryTasks' = retryTasks
    BY <1>3 DEF HandleMergeFailure
  <2>. QED
    BY <1>1, <2>1, GiveUpFacts
<1>. QED
  BY <1>2, <1>3

(* A merge fails without a conflict. *)
LEMMA MergeFailedKeeps ==
    ASSUME IInv, ExecuteMerge, MergeFailed
    PROVE  Others'
<1>. USE DEF planVars, groupVars, workerVars, mergeVars, countVars, gitVars, userVars
<1>. DEFINE t == Current
<1>. PICK mark \in {"failed", "rolled-back"} : HandleMergeFailure(t, Append(merges[t], mark))
  BY DEF MergeFailed
<1>1. /\ pc = "merging" /\ pc' = "merge" /\ pc \in Merging /\ pc' \in Merging
      /\ pc \in Merging \cup Resolving /\ pc' \in {"batches"} \cup Merging \cup Resolving
      /\ pc' \notin Resolving /\ pc \in Setup \cup Merging \cup Resolving
      /\ index' = index + 1
      /\ UNCHANGED <<graph, resolves, groups, groupIndex, pending, batch, worker, conflicts,
                     status, shouldStop, head, worktrees>>
      /\ TypeOK /\ index \in DOMAIN batch
  BY Typed DEF ExecuteMerge, MergeFailed, Merging, Resolving, Setup, IInv
<1>2. /\ WorkerInv' /\ WorktreeInv' /\ BaseInv' /\ pc \in InGroup /\ pc' \in InGroup
      /\ pc' \notin Setup /\ ThisGroup' = ThisGroup /\ Earlier' = Earlier
  BY <1>1, WorkersAtRest
<1>3. Distinct(retryTasks)
  BY <1>1 DEF IInv, ListsInv
<1>4. /\ merges' = [merges EXCEPT ![t] = Append(merges[t], mark)]
      /\ InProgress' = InProgress \ {t} /\ Completed' = Completed
      /\ totalCompleted' = totalCompleted
      /\ Distinct(retryTasks')
      /\ \/ Members(retryTasks') = Members(retryTasks) \cup {t} /\ totalFailed' = totalFailed
         \/ retryTasks' = retryTasks /\ totalFailed' = totalFailed + 1
  BY <1>1, <1>3, MergeFacts, FailureFacts
<1>5. /\ Unmerged' = From(batch, index + 1)
      /\ Waiting' = Members(pending) \cup From(batch, index + 1) \cup Members(conflicts)
                      \cup Members(retryTasks')
  BY <1>1, <1>2 DEF Unmerged, Waiting, Setup
<1>6. ListsInv'
  BY <1>1, <1>2, <1>4, MergeFacts DEF IInv, ListsInv
<1>7. \/ Settled' = Settled /\ totalFailed' = totalFailed
      \/ Settled' = Settled \cup {t} /\ totalFailed' = totalFailed + 1
  BY <1>1, <1>2, <1>4, <1>5, MergeFacts DEF Settled
<1>8. TrackerInv'
  BY <1>1, <1>2, <1>4, <1>5, <1>7, MergeFacts DEF TrackerInv
<1>9. CountInv'
  <2>1. CASE Settled' = Settled /\ totalFailed' = totalFailed
    BY <1>1, <1>2, <1>4, <2>1 DEF IInv, CountInv
  <2>2. CASE Settled' = Settled \cup {t} /\ totalFailed' = totalFailed + 1
    BY <1>1, <1>2, <1>4, <2>2, MergeFacts, CountGrows
  <2>. QED
    BY <1>7, <2>1, <2>2
<1>10. MergeInv'
  <2>1. Refused => Refused' /\ \A u \in Task : u # t => merges'[u] = merges[u]
    BY <1>1, <1>4, MergeFacts, RefusedKept DEF Marks
  <2>. QED
    BY <1>1, <1>4, <2>1, MergeFacts DEF IInv, MergeInv
<1>. QED
  BY <1>2, <1>6, <1>8, <1>9, <1>10 DEF Others

(* A merge succeeds. *)
LEMMA MergedKeeps ==
    ASSUME IInv, ExecuteMerge, Merged
    PROVE  Others'
<1>. USE DEF planVars, groupVars, workerVars, mergeVars, countVars, gitVars, userVars
<1>. DEFINE t == Current
<1>1. /\ pc = "merging" /\ pc' = "completing" /\ pc \in Merging /\ pc' \in Merging
      /\ pc \in Merging \cup Resolving /\ pc' \in {"batches"} \cup Merging \cup Resolving
      /\ pc' \notin Resolving /\ pc \in Setup \cup Merging \cup Resolving
      /\ merges' = [merges EXCEPT ![t] = Append(merges[t], "completed")]
      /\ head' = head \cup {t}
      /\ UNCHANGED <<graph, resolves, groups, groupIndex, pending, batch, index, asked,
                     worker, conflicts, retryTasks, status, shouldStop, totalCompleted,
                     totalFailed, worktrees>>
      /\ TypeOK /\ index \in DOMAIN batch
  BY Typed DEF ExecuteMerge, Merged, Merging, Resolving, Setup, IInv
<1>2. /\ WorkerInv' /\ WorktreeInv' /\ BaseInv' /\ pc \in InGroup /\ pc' \in InGroup
      /\ pc \notin Setup /\ pc' \notin Setup /\ ThisGroup' = ThisGroup /\ Earlier' = Earlier
  BY <1>1, WorkersAtRest
<1>3. /\ InProgress' = InProgress /\ Completed' = Completed
      /\ Unmerged' = Unmerged /\ Settled' = Settled
  BY <1>1, <1>2 DEF InProgress, Completed, With, Unmerged, Settled, Waiting
<1>4. ListsInv'
  BY <1>1, <1>2 DEF IInv, ListsInv
<1>5. TrackerInv'
  BY <1>1, <1>2, <1>3 DEF IInv, TrackerInv
<1>6. CountInv'
  BY <1>1, <1>2, <1>3 DEF IInv, CountInv
<1>7. MergeInv'
  <2>1. Refused => Refused' /\ \A u \in Task : u # t => merges'[u] = merges[u]
    BY <1>1, MergeFacts, RefusedKept DEF Marks
  <2>2. Current' = t
    BY <1>1 DEF Current
  <2>. QED
    BY <1>1, <1>3, <2>1, <2>2, MergeFacts DEF IInv, MergeInv
<1>. QED
  BY <1>2, <1>4, <1>5, <1>6, <1>7 DEF Others

(* A merge conflicts: the task joins the conflicts. *)
LEMMA ConflictedKeeps ==
    ASSUME IInv, ExecuteMerge, Conflicted
    PROVE  Others'
<1>. USE DEF planVars, groupVars, workerVars, mergeVars, countVars, gitVars, userVars
<1>. DEFINE t == Current
<1>1. /\ pc = "merging" /\ pc' = "merge" /\ pc \in Merging /\ pc' \in Merging
      /\ pc \in Merging \cup Resolving /\ pc' \in {"batches"} \cup Merging \cup Resolving
      /\ pc' \notin Resolving /\ pc \in Setup \cup Merging \cup Resolving
      /\ merges' = [merges EXCEPT ![t] = Append(merges[t], "conflicted")]
      /\ conflicts' = Append(conflicts, t) /\ index' = index + 1
      /\ UNCHANGED <<graph, resolves, groups, groupIndex, pending, batch, asked, worker, head,
                     retryTasks, status, shouldStop, totalCompleted, totalFailed, worktrees>>
      /\ TypeOK /\ index \in DOMAIN batch /\ resolves
  BY Typed DEF ExecuteMerge, Conflicted, Merging, Resolving, Setup, IInv
<1>2. /\ WorkerInv' /\ WorktreeInv' /\ BaseInv' /\ pc \in InGroup /\ pc' \in InGroup
      /\ pc \notin Setup /\ pc' \notin Setup /\ ThisGroup' = ThisGroup /\ Earlier' = Earlier
  BY <1>1, WorkersAtRest
<1>3. /\ Members(conflicts') = Members(conflicts) \cup {t} /\ Distinct(conflicts')
      /\ \A i \in DOMAIN conflicts' :
            (i \in DOMAIN conflicts /\ conflicts'[i] = conflicts[i]) \/ conflicts'[i] = t
  <2>1. Distinct(conflicts)
    BY <1>1 DEF IInv, ListsInv
  <2>. QED
    BY <1>1, <2>1, MergeFacts, MembersOfAppend
<1>4. /\ InProgress' = InProgress /\ Completed' = Completed
      /\ Unmerged' = From(batch, index + 1)
      /\ Waiting' = Members(pending) \cup From(batch, index + 1) \cup Members(conflicts')
                      \cup Members(retryTasks)
  BY <1>1, <1>2 DEF InProgress, Completed, With, Unmerged, Waiting
<1>5. Settled' = Settled
  BY <1>1, <1>2, <1>3, <1>4, MergeFacts DEF Settled
<1>6. ListsInv'
  BY <1>1, <1>2, <1>3, MergeFacts DEF IInv, ListsInv
<1>7. TrackerInv'
  BY <1>1, <1>2, <1>3, <1>4, <1>5, MergeFacts DEF TrackerInv
<1>8. CountInv'
  BY <1>1, <1>2, <1>4, <1>5 DEF IInv, CountInv
<1>9. MergeInv'
  <2>1. /\ Refused => Refused'
        /\ \A u \in Task : u # t => merges'[u] = merges[u]
        /\ Len(merges'[t]) > 0 /\ LastMark(merges'[t]) = "conflicted"
    BY <1>1, MergeFacts, RefusedKept DEF Marks
  <2>2. \A i \in DOMAIN conflicts' : /\ Len(merges'[conflicts'[i]]) > 0
                                     /\ LastMark(merges'[conflicts'[i]]) = "conflicted"
    BY <1>3, <2>1, MergeFacts, <1>1
  <2>. QED
    BY <1>1, <1>4, <2>1, <2>2 DEF IInv, MergeInv
<1>. QED
  BY <1>2, <1>6, <1>7, <1>8, <1>9 DEF Others

(* A merge, whatever it ends with. *)
LEMMA ExecuteMergeKeeps ==
    ASSUME IInv, ExecuteMerge
    PROVE  Others'
BY MergeFailedKeeps, MergedKeeps, ConflictedKeeps DEF ExecuteMerge

-----------------------------------------------------------------------------
(* Phase 2: conflicts, retries, and the end.                                 *)

(* The task whose conflict is resolved, the first of the list, is in no other. *)
LEMMA ResolveFacts ==
    ASSUME IInv, pc \in Resolving, conflicts # <<>>
    PROVE  LET t == Head(conflicts)
               rest == Tail(conflicts)
           IN  /\ resolves /\ t \in Task /\ t \in ThisGroup /\ t \notin Settled /\ t \notin Completed
               /\ t \notin Members(pending) /\ t \notin Members(rest)
               /\ t \notin Members(retryTasks) /\ Distinct(retryTasks) /\ Distinct(rest)
               /\ Members(conflicts) = {t} \cup Members(rest)
               /\ Waiting = {t} \cup Members(pending) \cup Members(rest) \cup Members(retryTasks)
               /\ Settled = Earlier \cup (ThisGroup \ Waiting) /\ Completed \subseteq Settled
               /\ InProgress = {t} \cup Members(rest)
               /\ \A i \in DOMAIN rest : rest[i] \in Task /\ rest[i] # t
               /\ \A i \in DOMAIN rest : /\ Len(merges[rest[i]]) > 0
                                         /\ LastMark(merges[rest[i]]) = "conflicted"
               /\ Len(merges[t]) > 0 /\ 1 \in DOMAIN conflicts /\ conflicts[1] = t
               /\ pc # "completingResolved" => LastMark(merges[t]) = "conflicted"
               /\ pc = "completingResolved" => t \in head
               /\ \A i \in DOMAIN conflicts : i # 1 => /\ conflicts[i] \in Task /\ conflicts[i] # t
                                                       /\ Len(merges[conflicts[i]]) > 0
                                                       /\ LastMark(merges[conflicts[i]]) = "conflicted"
<1>. DEFINE t == Head(conflicts)
            rest == Tail(conflicts)
<1>1. /\ conflicts \in Seq(Task) /\ batch \in Seq(Task) /\ index \in Nat /\ TypeOK /\ PlanInv
      /\ pc \in InGroup /\ pc \notin Setup /\ pc \notin Merging
      /\ pc \in Merging \cup Resolving /\ pc \in Setup \cup Merging \cup Resolving
  BY DEF IInv, TypeOK, InGroup, Setup, Merging, Resolving
<1>2. /\ Distinct(conflicts) /\ Members(conflicts) \subseteq UpTo(batch, index)
      /\ Distinct(retryTasks) /\ Members(conflicts) \cap Members(retryTasks) = {}
      /\ Members(batch) \subseteq ThisGroup /\ Members(batch) \cap Members(pending) = {}
  BY <1>1 DEF IInv, ListsInv
<1>3. UpTo(batch, index) \subseteq Members(batch)
  BY <1>1, MembersByIndex
<1>4. /\ t \in Task /\ t = conflicts[1] /\ 1 \in DOMAIN conflicts /\ rest \in Seq(Task)
      /\ Members(conflicts) = {t} \cup Members(rest)
      /\ Distinct(rest) /\ t \notin Members(rest)
      /\ \A i \in DOMAIN rest : i + 1 \in DOMAIN conflicts /\ i + 1 # 1 /\ rest[i] = conflicts[i+1]
  BY <1>1, <1>2, MembersOfTail
<1>. HIDE DEF t, rest
<1>5. /\ t \in ThisGroup /\ t \notin Members(pending) /\ t \notin Members(retryTasks)
  BY <1>2, <1>3, <1>4
<1>6. Unmerged = {}
  BY <1>1 DEF Unmerged
<1>7. /\ Waiting = {t} \cup Members(pending) \cup Members(rest) \cup Members(retryTasks)
      /\ Settled = Earlier \cup (ThisGroup \ Waiting)
  BY <1>1, <1>4, <1>6 DEF Waiting, Settled
<1>8. t \notin Settled
  <2>1. groupIndex \in DOMAIN groups
    BY <1>1 DEF PlanInv
  <2>. QED
    BY <1>1, <1>5, <1>7, <2>1, GroupFacts
<1>9. Completed \subseteq Settled /\ InProgress = {t} \cup Members(rest)
  BY <1>1, <1>4, <1>6 DEF IInv, TrackerInv
<1>10. \A i \in DOMAIN conflicts : i # 1 => /\ conflicts[i] \in Task /\ conflicts[i] # t
                                            /\ Len(merges[conflicts[i]]) > 0
                                            /\ LastMark(merges[conflicts[i]]) = "conflicted"
  BY <1>1, <1>2, <1>4 DEF IInv, MergeInv, Distinct
<1>11. /\ Len(merges[t]) > 0
       /\ pc # "completingResolved" => LastMark(merges[t]) = "conflicted"
       /\ pc = "completingResolved" => t \in head
       /\ resolves
  BY <1>4 DEF IInv, MergeInv, t
<1>12. \A i \in DOMAIN rest : /\ rest[i] \in Task /\ rest[i] # t
                              /\ Len(merges[rest[i]]) > 0
                              /\ LastMark(merges[rest[i]]) = "conflicted"
  BY <1>4, <1>10
<1>. QED
  BY <1>2, <1>4, <1>5, <1>7, <1>8, <1>9, <1>10, <1>11, <1>12 DEF t, rest

(* After a stop the conflicts are given up. *)
LEMMA DropConflictKeeps ==
    ASSUME IInv, DropConflict
    PROVE  Others'
<1>. USE DEF planVars, groupVars, workerVars, mergeVars, countVars, gitVars, userVars
<1>. DEFINE t == Head(conflicts)
            rest == Tail(conflicts)
<1>1. /\ pc = "resolve" /\ pc' = "resolve" /\ pc \in Resolving /\ pc' \in Resolving
      /\ pc \in Merging \cup Resolving /\ pc' \in {"batches"} \cup Merging \cup Resolving
      /\ pc' \notin Merging /\ pc \in Setup \cup Merging \cup Resolving
      /\ GiveUp(t) /\ conflicts # <<>> /\ conflicts' = rest
      /\ merges' = [merges EXCEPT ![t] = MarkLast(t, "rolled-back")]
      /\ UNCHANGED <<graph, resolves, groups, groupIndex, pending, batch, index, worker,
                     retryTasks, status, shouldStop, head, worktrees>>
      /\ TypeOK
  BY DEF DropConflict, Merging, Resolving, Setup, IInv
<1>2. /\ WorkerInv' /\ WorktreeInv' /\ BaseInv' /\ pc \in InGroup /\ pc' \in InGroup
      /\ pc' \notin Setup /\ ThisGroup' = ThisGroup /\ Earlier' = Earlier
  BY <1>1, WorkersAtRest
<1>3. /\ InProgress' = InProgress \ {t} /\ Completed' = Completed
      /\ totalCompleted' = totalCompleted /\ totalFailed' = totalFailed + 1
  BY <1>1, ResolveFacts, GiveUpFacts
<1>4. Unmerged' = {} /\ Waiting' = Members(pending) \cup Members(rest) \cup Members(retryTasks)
  BY <1>1, <1>2 DEF Unmerged, Waiting
<1>5. Settled' = Settled \cup {t}
  BY <1>1, <1>2, <1>4, ResolveFacts DEF Settled
<1>6. ListsInv'
  BY <1>1, <1>2, ResolveFacts DEF IInv, ListsInv
<1>7. TrackerInv'
  BY <1>1, <1>2, <1>3, <1>4, <1>5, ResolveFacts DEF TrackerInv
<1>8. CountInv'
  BY <1>1, <1>2, <1>3, <1>5, ResolveFacts, CountGrows
<1>9. MergeInv'
  <2>1. Refused' /\ \A u \in Task : u # t => merges'[u] = merges[u]
    BY <1>1, ResolveFacts, RefusedKept DEF Marks
  <2>. QED
    BY <1>1, <2>1, ResolveFacts DEF MergeInv
<1>. QED
  BY <1>2, <1>6, <1>7, <1>8, <1>9 DEF Others

(* A conflict is resolved and committed. *)
LEMMA ResolvedKeeps ==
    ASSUME IInv, Resolved
    PROVE  Others'
<1>. USE DEF planVars, groupVars, workerVars, mergeVars, countVars, gitVars, userVars
<1>. DEFINE t == Head(conflicts)
<1>1. /\ pc = "resolving" /\ pc' = "completingResolved" /\ pc \in Resolving /\ pc' \in Resolving
      /\ pc \in Merging \cup Resolving /\ pc' \in {"batches"} \cup Merging \cup Resolving
      /\ pc' \notin Merging /\ pc \notin Merging /\ pc \in Setup \cup Merging \cup Resolving
      /\ conflicts # <<>> /\ head' = head \cup {t}
      /\ merges' = [merges EXCEPT ![t] = MarkLast(t, "completed")]
      /\ UNCHANGED <<graph, resolves, groups, groupIndex, pending, batch, index, asked,
                     worker, conflicts, retryTasks, status, shouldStop, totalCompleted,
                     totalFailed, worktrees>>
      /\ TypeOK
  BY DEF Resolved, Merging, Resolving, Setup, IInv, ListsInv
<1>2. /\ WorkerInv' /\ WorktreeInv' /\ BaseInv' /\ pc \in InGroup /\ pc' \in InGroup
      /\ pc \notin Setup /\ pc' \notin Setup /\ ThisGroup' = ThisGroup /\ Earlier' = Earlier
  BY <1>1, WorkersAtRest
<1>3. /\ InProgress' = InProgress /\ Completed' = Completed
      /\ Unmerged' = Unmerged /\ Settled' = Settled
  BY <1>1, <1>2 DEF InProgress, Completed, With, Unmerged, Settled, Waiting
<1>4. ListsInv'
  BY <1>1, <1>2 DEF IInv, ListsInv
<1>5. TrackerInv'
  BY <1>1, <1>2, <1>3 DEF IInv, TrackerInv
<1>6. CountInv'
  BY <1>1, <1>2, <1>3 DEF IInv, CountInv
<1>7. MergeInv'
  <2>1. /\ Refused => Refused'
        /\ \A u \in Task : u # t => merges'[u] = merges[u]
        /\ Len(merges'[t]) > 0 /\ LastMark(merges'[t]) = "completed"
    BY <1>1, ResolveFacts, RefusedKept DEF Marks
  <2>2. resolves /\ (Refused \/ Completed \subseteq head)
    BY <1>1, ResolveFacts DEF IInv, MergeInv
  <2>3. \A i \in DOMAIN conflicts :
           /\ Len(merges'[conflicts[i]]) > 0
           /\ LastMark(merges'[conflicts[i]]) = IF i = 1 THEN "completed" ELSE "conflicted"
    BY <1>1, <2>1, ResolveFacts
  <2>. QED
    BY <1>1, <1>3, <2>1, <2>2, <2>3 DEF MergeInv
<1>. QED
  BY <1>2, <1>4, <1>5, <1>6, <1>7 DEF Others

(* A resolution is refused: HEAD is reset, and the merge marked for good. *)
LEMMA ResolutionRefusedKeeps ==
    ASSUME IInv, ResolutionRefused
    PROVE  Others'
<1>. USE DEF planVars, groupVars, workerVars, mergeVars, countVars, gitVars, userVars
<1>. DEFINE t == Head(conflicts)
            rest == Tail(conflicts)
<1>1. /\ pc = "resolving" /\ pc' = "resolve" /\ pc \in Resolving /\ pc' \in Resolving
      /\ pc \in Merging \cup Resolving /\ pc' \in {"batches"} \cup Merging \cup Resolving
      /\ pc' \notin Merging /\ pc \in Setup \cup Merging \cup Resolving
      /\ HandleMergeFailure(t, MarkLast(t, "rolled-back")) /\ conflicts # <<>> /\ conflicts' = rest
      /\ UNCHANGED <<graph, resolves, groups, groupIndex, pending, batch, index, worker,
                     status, shouldStop, worktrees>>
      /\ TypeOK
  BY DEF ResolutionRefused, Merging, Resolving, Setup, IInv, ListsInv
<1>2. /\ WorkerInv' /\ WorktreeInv' /\ BaseInv' /\ pc \in InGroup /\ pc' \in InGroup
      /\ pc' \notin Setup /\ ThisGroup' = ThisGroup /\ Earlier' = Earlier
  BY <1>1, WorkersAtRest
<1>3. /\ merges' = [merges EXCEPT ![t] = MarkLast(t, "rolled-back")]
      /\ InProgress' = InProgress \ {t} /\ Completed' = Completed
      /\ totalCompleted' = totalCompleted
      /\ Distinct(retryTasks')
      /\ \/ Members(retryTasks') = Members(retryTasks) \cup {t} /\ totalFailed' = totalFailed
         \/ retryTasks' = retryTasks /\ totalFailed' = totalFailed + 1
  BY <1>1, ResolveFacts, FailureFacts
<1>4. Unmerged' = {} /\ Waiting' = Members(pending) \cup Members(rest) \cup Members(retryTasks')
  BY <1>1, <1>2 DEF Unmerged, Waiting
<1>5. ListsInv'
  BY <1>1, <1>2, <1>3, ResolveFacts DEF IInv, ListsInv
<1>6. \/ Settled' = Settled /\ totalFailed' = totalFailed
      \/ Settled' = Settled \cup {t} /\ totalFailed' = totalFailed + 1
  BY <1>1, <1>2, <1>3, <1>4, ResolveFacts DEF Settled
<1>7. TrackerInv'
  BY <1>1, <1>2, <1>3, <1>4, <1>6, ResolveFacts DEF TrackerInv
<1>8. CountInv'
  <2>1. CASE Settled' = Settled /\ totalFailed' = totalFailed
    BY <1>1, <1>2, <1>3, <2>1 DEF IInv, CountInv
  <2>2. CASE Settled' = Settled \cup {t} /\ totalFailed' = totalFailed + 1
    BY <1>1, <1>2, <1>3, <2>2, ResolveFacts, CountGrows
  <2>. QED
    BY <1>6, <2>1, <2>2
<1>9. MergeInv'
  <2>1. Refused' /\ \A u \in Task : u # t => merges'[u] = merges[u]
    BY <1>1, <1>3, ResolveFacts, RefusedKept DEF Marks
  <2>. QED
    BY <1>1, <2>1, ResolveFacts DEF MergeInv
<1>. QED
  BY <1>2, <1>5, <1>7, <1>8, <1>9 DEF Others

(* A task whose conflict was resolved is completed. *)
LEMMA CompleteResolvedKeeps ==
    ASSUME IInv, CompleteResolved
    PROVE  Others'
<1>. USE DEF planVars, groupVars, workerVars, mergeVars, countVars, gitVars, userVars
<1>. DEFINE t == Head(conflicts)
            rest == Tail(conflicts)
<1>1. /\ pc = "completingResolved" /\ pc' = "resolve" /\ pc \in Resolving /\ pc' \in Resolving
      /\ pc \in Merging \cup Resolving /\ pc' \in {"batches"} \cup Merging \cup Resolving
      /\ pc' \notin Merging /\ pc \in Setup \cup Merging \cup Resolving
      /\ Complete(t) /\ conflicts # <<>> /\ conflicts' = rest
      /\ UNCHANGED <<graph, resolves, groups, groupIndex, pending, batch, index, worker,
                     retryTasks, merges, status, shouldStop, head, worktrees>>
      /\ TypeOK
  BY DEF CompleteResolved, Merging, Resolving, Setup, IInv, ListsInv
<1>2. /\ WorkerInv' /\ WorktreeInv' /\ BaseInv' /\ pc \in InGroup /\ pc' \in InGroup
      /\ pc' \notin Setup /\ ThisGroup' = ThisGroup /\ Earlier' = Earlier
  BY <1>1, WorkersAtRest
<1>3. /\ InProgress' = InProgress \ {t} /\ Completed' = Completed \cup {t}
      /\ totalCompleted' = totalCompleted + 1 /\ totalFailed' = totalFailed
  BY <1>1, ResolveFacts, CompleteFacts
<1>4. Unmerged' = {} /\ Waiting' = Members(pending) \cup Members(rest) \cup Members(retryTasks)
  BY <1>1, <1>2 DEF Unmerged, Waiting
<1>5. Settled' = Settled \cup {t}
  BY <1>1, <1>2, <1>4, ResolveFacts DEF Settled
<1>6. ListsInv'
  BY <1>1, <1>2, ResolveFacts DEF IInv, ListsInv
<1>7. TrackerInv'
  BY <1>1, <1>2, <1>3, <1>4, <1>5, ResolveFacts DEF TrackerInv
<1>8. CountInv'
  BY <1>1, <1>2, <1>3, <1>5, ResolveFacts, CountGrows
<1>9. MergeInv'
  <2>1. Refused \/ Completed' \subseteq head
    BY <1>1, <1>3, ResolveFacts DEF IInv, MergeInv
  <2>. QED
    BY <1>1, <2>1, ResolveFacts DEF MergeInv, Refused, Statuses
<1>. QED
  BY <1>2, <1>6, <1>7, <1>8, <1>9 DEF Others

(* The retries join what is pending. *)
LEMMA RequeueRetriesKeeps ==
    ASSUME IInv, RequeueRetries
    PROVE  Others'
<1>. USE DEF planVars, groupVars, workerVars, mergeVars, countVars, gitVars, userVars
<1>1. /\ pc = "resolve" /\ pc' = "batches" /\ pc \in Resolving
      /\ pc \in Merging \cup Resolving /\ pc' \in {"batches"} \cup Merging \cup Resolving
      /\ pc' \notin Merging /\ pc' \notin Setup /\ pc' \notin Resolving /\ pc \notin Merging
      /\ pc \in Setup \cup Merging \cup Resolving /\ pc \notin Setup
      /\ conflicts = <<>> /\ pending' = pending \o retryTasks
      /\ UNCHANGED <<graph, resolves, groups, groupIndex, batch, index, asked, worker, conflicts,
                     retryTasks, merges, status, shouldStop, totalCompleted, totalFailed, head,
                     worktrees>>
      /\ TypeOK /\ batch \in Seq(Task) /\ index \in Nat
  BY DEF RequeueRetries, PendingAndRetries, Merging, Resolving, Setup, IInv, TypeOK
<1>2. /\ Distinct(pending) /\ Members(pending) \subseteq ThisGroup
      /\ Members(batch) \subseteq ThisGroup /\ Members(batch) \cap Members(pending) = {}
      /\ Distinct(retryTasks) /\ Members(retryTasks) \subseteq UpTo(batch, index)
  BY <1>1 DEF IInv, ListsInv, InGroup, Setup, Merging, Resolving
<1>3. UpTo(batch, index) \subseteq Members(batch) /\ Members(<<>>) = {}
  BY <1>1, MembersByIndex DEF Members
<1>4. Members(pending') = Members(pending) \cup Members(retryTasks) /\ Distinct(pending')
  <2>1. Members(pending) \cap Members(retryTasks) = {}
    BY <1>2, <1>3
  <2>. QED
    BY <1>1, <1>2, <2>1, ListsTyped, MembersOfConcat
<1>5. /\ WorkerInv' /\ WorktreeInv' /\ BaseInv' /\ pc \in InGroup /\ pc' \in InGroup
      /\ ThisGroup' = ThisGroup /\ Earlier' = Earlier
  BY <1>1, <1>4, WorkersAtRest
<1>6. /\ InProgress' = InProgress /\ Completed' = Completed /\ Unmerged = {} /\ Unmerged' = {}
  BY <1>1 DEF InProgress, Completed, With, Unmerged
<1>7. Waiting' = Waiting
  BY <1>1, <1>3, <1>4, <1>6 DEF Waiting
<1>8. Settled' = Settled
  BY <1>5, <1>7 DEF Settled
<1>9. ListsInv'
  BY <1>1, <1>2, <1>3, <1>4, <1>5 DEF IInv, ListsInv
<1>10. TrackerInv'
  BY <1>1, <1>3, <1>5, <1>6, <1>8 DEF IInv, TrackerInv
<1>11. CountInv'
  BY <1>1, <1>6, <1>8 DEF IInv, CountInv
<1>12. MergeInv'
  BY <1>1, <1>6 DEF IInv, MergeInv, Refused, Statuses
<1>. QED
  BY <1>5, <1>9, <1>10, <1>11, <1>12 DEF Others

(* Worktrees are removed, and the execution is over. *)
LEMMA CleanupKeeps ==
    ASSUME IInv, Cleanup
    PROVE  Others'
<1>. USE DEF planVars, groupVars, workerVars, mergeVars, countVars, gitVars, userVars
<1>1. /\ pc = "cleanup" /\ pc' = "done" /\ pc \notin InGroup /\ pc' \notin InGroup
      /\ pc \notin Setup \cup Merging \cup Resolving /\ pc' \notin Setup \cup Merging \cup Resolving
      /\ worktrees' \subseteq worktrees
      /\ UNCHANGED <<graph, resolves, groups, groupIndex, pending, batch, index, asked,
                     worker, conflicts, retryTasks, merges, status, shouldStop,
                     totalCompleted, totalFailed, head>>
  BY DEF Cleanup, InGroup, Merging, Resolving, Setup
<1>2. InProgress' = InProgress /\ Completed' = Completed /\ Settled' = Settled
  BY <1>1 DEF InProgress, Completed, With, Settled, Earlier
<1>3. ListsInv' /\ TrackerInv'
  BY <1>1, <1>2 DEF IInv, ListsInv, TrackerInv
<1>4. CountInv'
  BY <1>1, <1>2 DEF IInv, CountInv, Planned
<1>5. WorkerInv'
  BY <1>1 DEF IInv, WorkerInv, Active
<1>6. WorktreeInv' /\ BaseInv'
  BY <1>1, PlacesKept
<1>7. MergeInv'
  BY <1>1, <1>2 DEF IInv, MergeInv, Refused, Statuses
<1>. QED
  BY <1>3, <1>4, <1>5, <1>6, <1>7 DEF Others

-----------------------------------------------------------------------------
(* The theorems.                                                             *)

(* The invariant holds at first. *)
LEMMA InvariantStarts == Init => IInv
<1>. SUFFICES ASSUME Init PROVE IInv
  OBVIOUS
<1>1. /\ pc = "analyzing" /\ pc \notin InGroup /\ pc \notin Setup \cup Merging \cup Resolving
      /\ groups = <<>> /\ groupIndex = 0 /\ conflicts = <<>> /\ retryTasks = <<>>
  BY DEF Init, InGroup, Setup, Merging, Resolving
<1>2. TypeOK
  <2>1. groups \in Seq(Seq(Task)) /\ {pending, batch, conflicts, retryTasks} \subseteq Seq(Task)
    BY <1>1 DEF Init
  <2>2. /\ worker \in [Task -> WorkerStatus]
        /\ outcome \in [Task -> [status : {"done", "notDone", "failed"},
                                 commits : BOOLEAN, counted : BOOLEAN]]
    BY DEF Init, WorkerStatus, NoOutcome
  <2>3. requeueCounts \in [Task -> 0..MaxRequeueCount]
    <3>1. 0 \in 0..MaxRequeueCount
      BY ParallelAssumption
    <3>. QED
      BY <3>1 DEF Init
  <2>4. /\ base \in [Task -> SUBSET Task] /\ backupTag \in [Task -> SUBSET Task]
        /\ asked \in [Task -> {"open", "in_progress", "completed"}] /\ tracker = asked
        /\ resolves \in BOOLEAN
    BY ParallelAssumption DEF Init
  <2>5. merges \in [Task -> Seq({"completed", "conflicted", "failed", "rolled-back"})]
    BY DEF Init
  <2>. QED
    BY <2>1, <2>2, <2>3, <2>4, <2>5 DEF Init, TypeOK
<1>3. InProgress = {} /\ Completed = {} /\ Settled = {}
  <2>1. EarlierThan(<<>>, 0) = {}
    BY GroupsBefore, Zenon
  <2>. QED
    BY <1>1, <2>1 DEF Init, InProgress, Completed, With, Settled, Earlier
<1>4. PlanInv /\ ListsInv
  BY <1>1 DEF PlanInv, ListsInv
<1>5. TrackerInv
  BY <1>1, <1>3 DEF TrackerInv
<1>6. CountInv
  <2>1. Cardinality({}) = 0
    BY FS_EmptySet
  <2>. QED
    BY <1>1, <1>3, <2>1 DEF Init, CountInv
<1>7. WorkerInv
  BY <1>1 DEF Init, WorkerInv, Active
<1>8. WorktreeInv /\ BaseInv
  BY <1>1 DEF Init, WorktreeInv, BaseInv
<1>9. MergeInv /\ RecordInv
  BY <1>1, <1>3 DEF Init, MergeInv, RecordInv
<1>. QED
  BY <1>2, <1>4, <1>5, <1>6, <1>7, <1>8, <1>9 DEF IInv

(* A write for a task that was not completed, whether it fails or not. *)
LEMMA WriteRecorded ==
    ASSUME TypeOK, RecordInv, NEW t \in Task, t \notin Completed, NEW value, SetTracker(t, value)
    PROVE  RecordInv'
<1>1. asked[t] # "completed"
  BY DEF Completed, With
<1>2. /\ asked' = [asked EXCEPT ![t] = value] /\ DOMAIN asked = Task /\ DOMAIN tracker = Task
      /\ \/ tracker' = [tracker EXCEPT ![t] = value] /\ unsaved' = unsaved \ {t}
         \/ tracker' = tracker /\ unsaved' = unsaved \cup {t}
  BY DEF TypeOK, SetTracker
<1>. QED
  BY <1>1, <1>2 DEF RecordInv

(* execute() asks nothing for a task that is completed. *)
LEMMA RecordKept ==
    ASSUME IInv, Next
    PROVE  RecordInv'
<1>. USE DEF IInv
<1>1. CASE InitializeWorker
  <2>1. pc \in Setup /\ index \in DOMAIN batch
    BY <1>1, Typed DEF InitializeWorker, Setup
  <2>. QED
    BY <1>1, <2>1, CurrentFacts, WriteRecorded DEF InitializeWorker
<1>2. CASE DoNotMerge \/ CompleteMerged \/ (ExecuteMerge /\ MergeFailed)
  <2>1. pc \in Merging /\ index \in DOMAIN batch
    BY <1>2, Typed DEF DoNotMerge, CompleteMerged, ExecuteMerge, Merging
  <2>2. Current \in Task /\ Current \notin Completed
    BY <2>1, MergeFacts
  <2>3. \E value : SetTracker(Current, value)
    BY <1>2 DEF DoNotMerge, CompleteMerged, MergeFailed, HandleMergeFailure, GiveUp, Complete
  <2>. QED
    BY <2>2, <2>3, WriteRecorded
<1>3. CASE DropConflict \/ ResolutionRefused \/ CompleteResolved
  <2>1. pc \in Resolving /\ conflicts # <<>>
    BY <1>3 DEF DropConflict, ResolutionRefused, CompleteResolved, Resolving, ListsInv
  <2>2. Head(conflicts) \in Task /\ Head(conflicts) \notin Completed
    BY <2>1, ResolveFacts
  <2>3. \E value : SetTracker(Head(conflicts), value)
    BY <1>3 DEF DropConflict, ResolutionRefused, CompleteResolved, HandleMergeFailure, GiveUp,
                Complete
  <2>. QED
    BY <2>2, <2>3, WriteRecorded
<1>4. ASSUME UNCHANGED trackerVars
      PROVE  RecordInv'
  BY <1>4 DEF RecordInv
<1>5. CASE \/ Analyze \/ NextGroup \/ NextBatch \/ AcquireWorktree \/ SetupThrows \/ StartWorkers
           \/ CollectResults \/ BeginMerge \/ MergesDone \/ BeginResolve \/ Resolved
           \/ RequeueRetries \/ Cleanup \/ (\E t \in Task : WorkerEnds(t)) \/ UserCall
  BY <1>4, <1>5 DEF Analyze, NextGroup, NextBatch, AcquireWorktree, SetupThrows, ExecutionFails,
                    StartWorkers, CollectResults, BeginMerge, MergesDone, BeginResolve, Resolved,
                    RequeueRetries, Cleanup, WorkerEnds, UserCall, Stop, StopSettles, Pause, Resume
<1>6. CASE ExecuteMerge /\ (Merged \/ Conflicted)
  BY <1>4, <1>6 DEF Merged, Conflicted
<1>. QED
  BY <1>1, <1>2, <1>3, <1>5, <1>6 DEF Next, ExecutorStep, ExecuteMerge

(* The invariant is kept by every step. *)
LEMMA InvariantKept ==
    ASSUME IInv, [Next]_vars
    PROVE  IInv'
<1>1. CASE Next
  <2>1. TypeOK' /\ PlanInv' /\ RecordInv'
    BY <1>1, TypeKept, PlanKept, RecordKept DEF IInv
  <2>2. CASE Analyze
    BY <2>1, <2>2, AnalyzeKeeps DEF IInv, Others
  <2>3. CASE NextGroup
    BY <2>1, <2>3, NextGroupKeeps DEF IInv, Others
  <2>4. CASE NextBatch
    BY <2>1, <2>4, NextBatchKeeps DEF IInv, Others
  <2>5. CASE AcquireWorktree
    BY <2>1, <2>5, AcquireKeeps DEF IInv, Others
  <2>6. CASE InitializeWorker
    BY <2>1, <2>6, InitializeKeeps DEF IInv, Others
  <2>7. CASE SetupThrows
    BY <2>1, <2>7, SetupThrowsKeeps DEF IInv, Others
  <2>8. CASE StartWorkers
    BY <2>1, <2>8, StartKeeps DEF IInv, Others
  <2>9. CASE CollectResults
    BY <2>1, <2>9, CollectKeeps DEF IInv, Others
  <2>10. CASE DoNotMerge
    BY <2>1, <2>10, DoNotMergeKeeps DEF IInv, Others
  <2>11. CASE BeginMerge \/ BeginResolve \/ MergesDone
    BY <2>1, <2>11, MovesOnKeeps DEF IInv, Others
  <2>12. CASE ExecuteMerge
    BY <2>1, <2>12, ExecuteMergeKeeps DEF IInv, Others
  <2>13. CASE CompleteMerged
    BY <2>1, <2>13, CompleteMergedKeeps DEF IInv, Others
  <2>14. CASE DropConflict
    BY <2>1, <2>14, DropConflictKeeps DEF IInv, Others
  <2>15. CASE Resolved
    BY <2>1, <2>15, ResolvedKeeps DEF IInv, Others
  <2>16. CASE ResolutionRefused
    BY <2>1, <2>16, ResolutionRefusedKeeps DEF IInv, Others
  <2>17. CASE CompleteResolved
    BY <2>1, <2>17, CompleteResolvedKeeps DEF IInv, Others
  <2>18. CASE RequeueRetries
    BY <2>1, <2>18, RequeueRetriesKeeps DEF IInv, Others
  <2>19. CASE Cleanup
    BY <2>1, <2>19, CleanupKeeps DEF IInv, Others
  <2>20. CASE (\E t \in Task : WorkerEnds(t)) \/ UserCall
    BY <2>1, <2>20, UserKeeps DEF IInv, Others
  <2>. QED
    BY <1>1, <2>2, <2>3, <2>4, <2>5, <2>6, <2>7, <2>8, <2>9, <2>10, <2>11, <2>12, <2>13, <2>14,
       <2>15, <2>16, <2>17, <2>18, <2>19, <2>20 DEF Next, ExecutorStep
<1>2. CASE UNCHANGED vars
  <2>. USE <1>2 DEF vars, planVars, groupVars, workerVars, mergeVars, countVars, gitVars, userVars
  <2>1. TypeOK' /\ PlanInv' /\ RecordInv'
    BY DEF IInv, TypeOK, PlanInv, RecordInv
  <2>2. Others'
    BY WorkersMove DEF Active
  <2>. QED
    BY <2>1, <2>2 DEF IInv, Others
<1>. QED
  BY <1>1, <1>2

(* The invariant holds throughout an execution (execute and what it calls). *)
THEOREM Invariant == Spec => []IInv
<1>1. Init => IInv
  BY InvariantStarts
<1>2. IInv /\ [Next]_vars => IInv'
  BY InvariantKept
<1>. QED
  BY <1>1, <1>2, PTL DEF Spec

(* A worker never runs before the last attempt of everything its task depends on, *)
(* and starts from a branch that has what of it is completed, for every graph,    *)
(* batch size, outcome, requeue and stop (execute, executeGroup, executeBatch).   *)
THEOREM DependenciesAreHonoured == Spec => []DependenciesHonoured
<1>1. IInv => DependenciesHonoured
  <2>. SUFFICES ASSUME IInv, NEW t \in Task, NEW d \in Task, Active(t), <<t, d>> \in graph
                PROVE  /\ worker[d] = "ended" /\ asked[d] # "in_progress"
                       /\ \A i \in DOMAIN pending : pending[i] # d
                       /\ \A i \in DOMAIN retryTasks : retryTasks[i] # d
                       /\ ~Refused /\ asked[d] = "completed" => d \in base[t]
    BY DEF DependenciesHonoured, DependenciesSettledFirst, DependenciesInBase
  <2>1. pc = "working" /\ t \in Members(batch) /\ pc \in Setup /\ pc \in InGroup
    BY DEF IInv, WorkerInv, InGroup, Setup
  <2>2. groupIndex \in DOMAIN groups /\ Members(batch) \subseteq ThisGroup
        /\ Members(pending) \subseteq ThisGroup /\ Members(retryTasks) \subseteq ThisGroup
    BY <2>1 DEF IInv, PlanInv, ListsInv
  <2>3. d \in Dependencies(graph, t)
    BY DEF Dependencies
  <2>4. d \in Earlier /\ d \notin ThisGroup
    BY <2>1, <2>2, <2>3, GroupFacts DEF IInv
  <2>5. worker[d] = "ended"
    BY <2>1, <2>4 DEF IInv, WorkerInv
  <2>6. asked[d] # "in_progress"
    <3>1. InProgress \subseteq Members(batch)
      BY <2>1 DEF IInv, TrackerInv, SetUp
    <3>. QED
      BY <2>2, <2>4, <3>1 DEF InProgress, With
  <2>7. /\ \A i \in DOMAIN pending : pending[i] # d
        /\ \A i \in DOMAIN retryTasks : retryTasks[i] # d
    BY <2>2, <2>4 DEF Members
  <2>8. ASSUME ~Refused, asked[d] = "completed" PROVE d \in base[t]
    <3>1. PICK i \in DOMAIN batch : batch[i] = t
      BY <2>1 DEF Members
    <3>2. Dependencies(graph, t) \cap Completed \subseteq base[t]
      BY <2>1, <2>8, <3>1 DEF IInv, BaseInv, HasWorktree
    <3>. QED
      BY <2>3, <2>8, <3>2 DEF Completed, With
  <2>. QED
    BY <2>5, <2>6, <2>7, <2>8
<1>. QED
  BY <1>1, Invariant, PTL

(* The worktree and branch of a running worker are its own, although the ids of   *)
(* workers, and with them directories, are used again by every batch (acquire).   *)
THEOREM WorktreesAreTheirOwn == Spec => []WorkersHaveTheirWorktree
<1>1. IInv => WorkersHaveTheirWorktree
  <2>. SUFFICES ASSUME IInv, NEW t \in Task, Active(t)
                PROVE  /\ t \in branches
                       /\ Cardinality({w \in worktrees : w.task = t}) = 1
                       /\ \A w, v \in worktrees :
                             w.task = t /\ v.group = w.group /\ v.slot = w.slot => v = w
    BY DEF WorkersHaveTheirWorktree
  <2>1. pc = "working" /\ t \in Members(batch) /\ pc \in Setup
    BY DEF IInv, WorkerInv, Setup
  <2>2. PICK i \in DOMAIN batch : batch[i] = t
    BY <2>1 DEF Members
  <2>. DEFINE own == [group |-> groupIndex, slot |-> i, task |-> t]
  <2>3. t \in branches /\ own \in worktrees /\ own.task = t
    BY <2>1, <2>2 DEF IInv, WorktreeInv, HasWorktree
  <2>. HIDE DEF own
  <2>4. \A w, v \in worktrees : (w.group = v.group /\ w.slot = v.slot) \/ w.task = v.task => w = v
    BY DEF IInv, WorktreeInv
  <2>5. {w \in worktrees : w.task = t} = {own}
    BY <2>3, <2>4
  <2>6. Cardinality({own}) = 1
    BY FS_Singleton
  <2>. QED
    BY <2>3, <2>4, <2>5, <2>6
<1>. QED
  BY <1>1, Invariant, PTL

(* What the tracker calls completed is in the session branch unless a resolution  *)
(* was refused, by whichever path the merge went (executeMerge, resolveConflicts). *)
THEOREM CompletedWorkIsMerged == Spec => []CompletedIsMerged
<1>1. IInv => CompletedIsMerged
  BY DEF IInv, MergeInv, RecordInv, CompletedIsMerged, Completed, With
<1>. QED
  BY <1>1, Invariant, PTL

(* The counters and the final status agree with the tracker and the branch: a     *)
(* full execution counts every planned task once, and "completed" hides no task   *)
(* but one whose last write the tracker refused (execute, completeTask).          *)
THEOREM AccountsAlwaysAgree == Spec => []AccountsAgree
<1>1. ASSUME IInv PROVE EveryTaskIsCounted
  <2>. SUFFICES ASSUME pc = "done", ~shouldStop, groupIndex > Len(groups)
                PROVE  totalCompleted + totalFailed = Cardinality(Planned)
    BY DEF EveryTaskIsCounted
  <2>1. Len(groups) \in Nat /\ DOMAIN groups = 1..Len(groups) /\ groupIndex \in Nat
    BY <1>1 DEF IInv, TypeOK
  <2>2. totalCompleted + totalFailed = Cardinality(Settled)
    BY <1>1, <2>1 DEF IInv, CountInv
  <2>3. Settled = Planned
    <3>1. \A h \in DOMAIN groups : h < groupIndex
      BY <2>1
    <3>2. pc \notin InGroup
      BY DEF InGroup, Setup, Merging, Resolving
    <3>. QED
      BY <3>1, <3>2 DEF Settled, Earlier, EarlierThan, Planned, Members
  <2>. QED
    BY <2>2, <2>3
<1>2. ASSUME IInv PROVE CompletedMeansAllDone
  <2>1. status = "completed" /\ groups # <<>> => Planned \subseteq Completed
    BY <1>2 DEF IInv, CountInv
  <2>2. Refused \/ Completed \subseteq head
    BY <1>2 DEF IInv, MergeInv
  <2>3. \A t \in Completed : t \in unsaved \/ tracker[t] = "completed"
    BY <1>2 DEF IInv, RecordInv, Completed, With
  <2>. QED
    BY <2>1, <2>2, <2>3 DEF CompletedMeansAllDone
<1>3. IInv => AccountsAgree
  BY <1>1, <1>2 DEF IInv, AccountsAgree
<1>. QED
  BY <1>3, Invariant, PTL

(* An execution leaves no task in_progress but those set up before the setup of   *)
(* a later task of their batch threw, and those whose reset the tracker refused   *)
(* (resetTaskToOpen on every path out of a batch).                                *)
THEOREM NoTaskStaysInProgress == Spec => []NoTaskLeftInProgress
<1>1. IInv => NoTaskLeftInProgress
  <2>. SUFFICES ASSUME IInv, pc = "done", NEW t \in Task \ unsaved, tracker[t] = "in_progress"
                PROVE  SetUpInVain(t)
    BY DEF NoTaskLeftInProgress
  <2>1. t \in InProgress
    BY DEF IInv, RecordInv, InProgress, With
  <2>2. t \in UpTo(batch, index) /\ worker[t] \in {"ready", "stopped"}
    BY <2>1 DEF IInv, TrackerInv
  <2>. QED
    BY <2>2 DEF UpTo, SetUpInVain
<1>. QED
  BY <1>1, Invariant, PTL
-----------------------------------------------------------------------------
(* An execution implements TaskBoard.                                        *)

(* In a group, what is in progress and what waits is of this group.          *)
LEMMA HeldIsOfThisGroup ==
    ASSUME IInv, pc \in InGroup
    PROVE  /\ groupIndex \in DOMAIN groups /\ ThisGroup \cap Earlier = {}
           /\ Members(pending) \subseteq ThisGroup /\ InProgress \subseteq ThisGroup
           /\ InProgress \cap Members(pending) = {}
           /\ pc # "batches" => InProgress \subseteq Members(batch)
<1>1. /\ groupIndex \in DOMAIN groups /\ ThisGroup \cap Earlier = {}
      /\ Members(pending) \subseteq ThisGroup
  BY GroupFacts DEF IInv, PlanInv, ListsInv
<1>2. CASE pc = "batches"
  BY <1>1, <1>2 DEF IInv, TrackerInv
<1>3. CASE pc \in Setup \cup Merging \cup Resolving
  <2>1. /\ Members(batch) \subseteq ThisGroup /\ Members(batch) \cap Members(pending) = {}
        /\ batch \in Seq(Task) /\ index \in Nat
    BY <1>3 DEF IInv, ListsInv, TypeOK
  <2>2. UpTo(batch, index) \subseteq Members(batch) /\ From(batch, index) \subseteq Members(batch)
    BY <2>1, MembersByIndex
  <2>3. InProgress \subseteq Members(batch)
    <3>1. CASE pc \in Setup
      BY <2>2, <3>1 DEF IInv, TrackerInv, SetUp
    <3>2. CASE pc \in Merging \cup Resolving
      <4>1. Members(conflicts) \subseteq UpTo(batch, index) /\ Unmerged \subseteq Members(batch)
        BY <2>2, <3>2 DEF IInv, ListsInv, Unmerged
      <4>. QED
        BY <2>2, <3>2, <4>1 DEF IInv, TrackerInv
    <3>. QED
      BY <1>3, <3>1, <3>2
  <2>. QED
    BY <1>1, <2>1, <2>3
<1>. QED
  BY <1>2, <1>3 DEF InGroup

(* A task of a later group is of no earlier one.                             *)
LEMMA LaterIsNotHeld ==
    ASSUME IInv, NEW t \in Task, InLaterGroup(t), pc \in {"groups"} \cup InGroup
    PROVE  /\ t \notin Earlier /\ t \notin Settled /\ t \notin InProgress
           /\ pc \in InGroup => t \notin ThisGroup
<1>1. PICK g \in DOMAIN groups : t \in Members(groups[g])
                                   /\ (g > groupIndex \/ (g = groupIndex /\ pc = "groups"))
  BY DEF InLaterGroup
<1>2. groupIndex \in Nat /\ DOMAIN groups \subseteq Nat
  BY DEF IInv, TypeOK
<1>3. \A h \in DOMAIN groups : h # g => t \notin Members(groups[h])
  <2>1. groups = GroupsOf(graph)
    BY <1>1 DEF IInv, PlanInv
  <2>. QED
    BY <1>1, <2>1, GroupsInOrder
<1>4. t \notin Earlier
  <2>1. \A h \in DOMAIN groups : h < groupIndex => h # g
    BY <1>1, <1>2
  <2>. QED
    BY <1>3, <2>1 DEF Earlier, EarlierThan
<1>5. ASSUME pc \in InGroup PROVE t \notin ThisGroup
  <2>1. pc # "groups" /\ groupIndex \in DOMAIN groups
    BY <1>5 DEF IInv, PlanInv, InGroup, Setup, Merging, Resolving
  <2>. QED
    BY <1>1, <1>2, <1>3, <2>1 DEF ThisGroup
<1>6. t \notin InProgress
  BY <1>5, HeldIsOfThisGroup DEF IInv, TrackerInv
<1>. QED
  BY <1>4, <1>5, <1>6 DEF Settled

(* A task that remains is asked to be open.                              *)
LEMMA RemainingIsOpen ==
    ASSUME IInv, NEW t \in Task, Remaining(t)
    PROVE  asked[t] = "open" /\ BoardStatus[t] = "waiting"
<1>1. pc \in {"analyzing", "groups"} \cup InGroup
  BY DEF IInv, TypeOK, Remaining, InGroup, Setup, Merging, Resolving
<1>2. t \notin InProgress /\ t \notin Completed
  <2>1. CASE pc = "analyzing"
    BY <2>1 DEF IInv, TrackerInv
  <2>2. CASE pc \in {"groups"} \cup InGroup /\ InLaterGroup(t)
    BY <2>2, LaterIsNotHeld DEF IInv, TrackerInv
  <2>3. ASSUME pc \in InGroup, t \in ThisGroup, t \in Waiting PROVE t \notin Completed
    BY <2>3, HeldIsOfThisGroup DEF IInv, TrackerInv, Settled
  <2>4. CASE pc \in InGroup /\ t \in Members(pending)
    BY <2>3, <2>4, HeldIsOfThisGroup DEF Waiting
  <2>5. CASE InRestOfBatch(t)
    <3>1. /\ pc \in Setup /\ pc \in InGroup /\ pc \notin {"start", "working"}
          /\ batch \in Seq(Task) /\ index \in Nat /\ t \in Members(batch)
          /\ t \in From(batch, index)
      BY <2>5 DEF InRestOfBatch, Setup, InGroup, IInv, TypeOK, Members, From
    <3>2. Distinct(batch) /\ Members(batch) \subseteq ThisGroup
      BY <3>1 DEF IInv, ListsInv
    <3>3. t \notin UpTo(batch, index)
      BY <3>1, <3>2 DEF UpTo, From, Distinct
    <3>4. t \notin InProgress
      BY <3>1, <3>3 DEF IInv, TrackerInv, SetUp
    <3>. QED
      BY <2>3, <3>1, <3>2, <3>4 DEF Waiting, Unmerged
  <2>6. CASE ToBeRequeued(t)
    <3>1. /\ pc \in Merging \cup Resolving /\ pc \in InGroup /\ t \in Members(retryTasks)
          /\ batch \in Seq(Task) /\ index \in Nat
      BY <2>6 DEF ToBeRequeued, InGroup, Merging, Resolving, IInv, TypeOK
    <3>2. /\ Distinct(batch) /\ Members(batch) \subseteq ThisGroup
          /\ t \in UpTo(batch, index) /\ t \notin Members(conflicts)
      BY <3>1 DEF IInv, ListsInv
    <3>3. t \notin From(batch, index) /\ t \in Members(batch)
      BY <3>1, <3>2 DEF UpTo, From, Distinct, Members
    <3>4. pc \notin Setup
      BY <3>1 DEF Setup, Merging, Resolving
    <3>5. t \notin InProgress
      BY <3>1, <3>2, <3>3, <3>4 DEF IInv, TrackerInv, Unmerged
    <3>. QED
      BY <2>3, <3>1, <3>2, <3>3, <3>5 DEF Waiting
  <2>. QED
    BY <1>1, <2>1, <2>2, <2>4, <2>5, <2>6 DEF Remaining
<1>. QED
  BY <1>2 DEF IInv, TypeOK, InProgress, Completed, With, BoardStatus

(* A step that asks nothing of the tracker withdraws the tasks that it takes  *)
(* from the lists, if any.                                                   *)
LEMMA NothingTaken ==
    ASSUME IInv, UNCHANGED <<graph, resolves, asked, requeueCounts>>,
           \A t \in Task : Remaining(t)' => Remaining(t)
    PROVE  Board!Next
<1>. DEFINE gone == {t \in Task : Remaining(t) /\ ~Remaining(t)'}
<1>1. \A t \in gone : BoardStatus[t] = "waiting"
  BY RemainingIsOpen
<1>2. BoardStatus' = [t \in Task |-> IF t \in gone THEN "dropped" ELSE BoardStatus[t]]
  <2>1. \A t \in gone : asked[t] = "open"
    BY RemainingIsOpen
  <2>2. \A t \in Task : BoardStatus'[t] = IF t \in gone THEN "dropped" ELSE BoardStatus[t]
    BY <2>1 DEF BoardStatus
  <2>3. BoardStatus' = [t \in Task |-> BoardStatus'[t]]
    BY DEF BoardStatus
  <2>. QED
    BY <2>2, <2>3
<1>3. Board!Withdraw(gone)
  BY <1>1, <1>2 DEF Board!Withdraw
<1>. QED
  BY <1>3 DEF Board!Next

(* A step that changes what is asked of one task changes it on the board.      *)
LEMMA OneTaskChanges ==
    ASSUME IInv, NEW t \in Task, NEW value \in {"open", "in_progress", "completed"},
           asked' = [asked EXCEPT ![t] = value],
           \A u \in Task : u # t => (Remaining(u)' <=> Remaining(u))
    PROVE  BoardStatus' = [BoardStatus EXCEPT ![t] =
               CASE value = "completed" -> "completed"
                 [] value = "in_progress" -> "taken"
                 [] OTHER -> IF Remaining(t)' THEN "waiting" ELSE "dropped"]
<1>. DEFINE new == CASE value = "completed" -> "completed"
                     [] value = "in_progress" -> "taken"
                     [] OTHER -> IF Remaining(t)' THEN "waiting" ELSE "dropped"
<1>1. asked'[t] = value /\ \A u \in Task : u # t => asked'[u] = asked[u]
  BY DEF IInv, TypeOK
<1>2. BoardStatus'[t] = new
  BY <1>1 DEF BoardStatus
<1>3. \A u \in Task : u # t => BoardStatus'[u] = BoardStatus[u]
  BY <1>1 DEF BoardStatus
<1>4. BoardStatus' = [u \in Task |-> BoardStatus'[u]] /\ BoardStatus = [u \in Task |-> BoardStatus[u]]
  BY DEF BoardStatus
<1>. HIDE DEF new
<1>5. BoardStatus' = [BoardStatus EXCEPT ![t] = new]
  BY <1>2, <1>3, <1>4
<1>. QED
  BY <1>5 DEF new

(* A task is taken from the batch when its worker is initialised: what it     *)
(* depends on is in an earlier group, of which no task remains.              *)
LEMMA InitializeTakes ==
    ASSUME IInv, InitializeWorker
    PROVE  Board!Next
<1>. DEFINE t == Current
<1>1. /\ pc = "initialize" /\ pc \in Setup /\ pc \in InGroup /\ pc' \in {"start", "acquire"}
      /\ asked' = [asked EXCEPT ![t] = "in_progress"]
      /\ index' = index + 1 /\ (pc' = "start" <=> index = Len(batch))
      /\ UNCHANGED <<graph, resolves, groups, groupIndex, pending, batch, retryTasks,
                     requeueCounts>>
  BY DEF InitializeWorker, SetTracker, planVars, mergeVars, Setup, InGroup
<1>2. /\ index \in DOMAIN batch /\ t \in Task /\ t \in Members(batch) /\ batch[index] = t
      /\ batch \in Seq(Task) /\ index \in Nat /\ DOMAIN batch = 1..Len(batch) /\ Len(batch) \in Nat
  BY <1>1, Typed DEF IInv, TypeOK, Current
<1>3. InRestOfBatch(t) /\ Remaining(t)
  BY <1>1, <1>2 DEF InRestOfBatch, Remaining
<1>4. \A u \in Task : u # t => (InRestOfBatch(u)' <=> InRestOfBatch(u))
  <2>1. \A i \in DOMAIN batch : i >= index <=> i = index \/ i >= index + 1
    BY <1>2
  <2>2. index = Len(batch) => \A i \in DOMAIN batch : ~(i >= index + 1)
    BY <1>2
  <2>. QED
    BY <1>1, <1>2, <2>1, <2>2 DEF InRestOfBatch
<1>5. \A u \in Task : u # t => (Remaining(u)' <=> Remaining(u))
  BY <1>1, <1>4 DEF Remaining, InLaterGroup, ToBeRequeued
<1>6. BoardStatus[t] = "waiting" /\ BoardStatus' = [BoardStatus EXCEPT ![t] = "taken"]
  BY <1>1, <1>2, <1>3, <1>5, RemainingIsOpen, OneTaskChanges
<1>7. ASSUME NEW d \in Task, <<t, d>> \in graph
      PROVE  BoardStatus[d] \in {"completed", "dropped"}
  <2>1. /\ ThisGroup \cap Earlier = {} /\ InProgress \subseteq ThisGroup
        /\ Members(pending) \subseteq ThisGroup /\ groupIndex \in DOMAIN groups
    BY <1>1, HeldIsOfThisGroup
  <2>2. Members(batch) \subseteq ThisGroup
    BY <1>1 DEF IInv, ListsInv
  <2>3. d \in Earlier
    BY <1>2, <1>7, <2>1, <2>2, GroupFacts DEF IInv, Dependencies
  <2>4. asked[d] # "in_progress"
    BY <2>1, <2>3 DEF InProgress, With
  <2>5. ~InLaterGroup(d)
    BY <1>1, <2>3, LaterIsNotHeld
  <2>6. ~InRestOfBatch(d)
    BY <2>1, <2>2, <2>3 DEF InRestOfBatch, Members
  <2>7. ~Remaining(d)
    BY <1>1, <2>1, <2>3, <2>5, <2>6 DEF Remaining, ToBeRequeued
  <2>. QED
    BY <2>4, <2>7 DEF BoardStatus
<1>8. Board!Take(t)
  BY <1>1, <1>6, <1>7 DEF Board!Take, Board!Over
<1>. QED
  BY <1>2, <1>8 DEF Board!Next

(* A task in progress is given up. *)
LEMMA GiveUpDrops ==
    ASSUME IInv, NEW t \in InProgress, GiveUp(t), UNCHANGED <<graph, resolves, requeueCounts>>,
           \A u \in Task : Remaining(u)' <=> Remaining(u)
    PROVE  Board!Next
<1>1. t \in Task /\ asked[t] = "in_progress" /\ ~Remaining(t)
  BY RemainingIsOpen DEF InProgress, With
<1>2. BoardStatus[t] = "taken" /\ BoardStatus' = [BoardStatus EXCEPT ![t] = "dropped"]
  BY <1>1, OneTaskChanges DEF GiveUp, SetTracker, BoardStatus
<1>3. Board!GiveUp(t)
  BY <1>2 DEF Board!GiveUp
<1>. QED
  BY <1>1, <1>3 DEF Board!Next

(* A task whose merge failed or whose resolution was refused comes back, or is given up. *)
LEMMA FailureReturns ==
    ASSUME IInv, NEW t \in InProgress, NEW mark, HandleMergeFailure(t, mark), graph' = graph,
           t \notin Members(retryTasks),
           \A u \in Task : u # t => (Remaining(u)' <=> Remaining(u)),
           Remaining(t)' <=> t \in Members(retryTasks')
    PROVE  Board!Next
<1>1. t \in Task /\ asked[t] = "in_progress" /\ ~Remaining(t) /\ retryTasks \in Seq(Task)
  BY RemainingIsOpen DEF InProgress, With, IInv, TypeOK
<1>2. BoardStatus[t] = "taken" /\ asked' = [asked EXCEPT ![t] = "open"]
  BY <1>1 DEF HandleMergeFailure, GiveUp, SetTracker, BoardStatus
<1>3. BoardStatus' = [BoardStatus EXCEPT ![t] = IF Remaining(t)' THEN "waiting" ELSE "dropped"]
  BY <1>1, <1>2, OneTaskChanges
<1>4. CASE RequeueLeft(t)
  <2>1. /\ requeueCounts[t] < MaxRequeueCount
        /\ requeueCounts' = [requeueCounts EXCEPT ![t] = @ + 1]
        /\ retryTasks' = Append(retryTasks, t)
    BY <1>4 DEF HandleMergeFailure, RequeueLeft
  <2>2. Remaining(t)'
    BY <1>1, <2>1, MembersOfAppend
  <2>3. Board!Return(t)
    BY <1>2, <1>3, <2>1, <2>2 DEF Board!Return
  <2>. QED
    BY <1>1, <2>3 DEF Board!Next
<1>5. CASE ~RequeueLeft(t)
  <2>1. UNCHANGED <<requeueCounts, retryTasks>>
    BY <1>5 DEF HandleMergeFailure
  <2>2. Board!GiveUp(t)
    BY <1>2, <1>3, <2>1 DEF Board!GiveUp
  <2>. QED
    BY <1>1, <2>2 DEF Board!Next
<1>. QED
  BY <1>4, <1>5

(* A task that is merged or resolved is completed. *)
LEMMA CompleteCompletes ==
    ASSUME IInv, NEW t \in InProgress, Complete(t), graph' = graph,
           \A u \in Task : Remaining(u)' <=> Remaining(u)
    PROVE  Board!Next
<1>1. t \in Task /\ asked[t] = "in_progress"
  BY DEF InProgress, With
<1>2. BoardStatus[t] = "taken" /\ BoardStatus' = [BoardStatus EXCEPT ![t] = "completed"]
  BY <1>1, OneTaskChanges DEF Complete, SetTracker, BoardStatus
<1>3. Board!Complete(t)
  BY <1>2 DEF Complete, Board!Complete
<1>. QED
  BY <1>1, <1>3 DEF Board!Next

(* While the batch is merged and resolved, a task remains for the groups, the  *)
(* rest of this group or the retries.                                        *)
LEMMA RemainingInMerges ==
    ASSUME pc \in Merging \cup Resolving, pc' \in Merging \cup Resolving,
           UNCHANGED <<groups, groupIndex, pending>>, NEW u \in Task,
           u \in Members(retryTasks') <=> u \in Members(retryTasks)
    PROVE  Remaining(u)' <=> Remaining(u)
BY DEF Merging, Resolving, Remaining, InLaterGroup, InRestOfBatch, ToBeRequeued

(* A failure in either phase. *)
LEMMA FailureChanges ==
    ASSUME IInv, pc \in Merging \cup Resolving, pc' \in Merging \cup Resolving,
           UNCHANGED <<graph, resolves, groups, groupIndex, pending>>,
           NEW t \in InProgress, t \notin Members(retryTasks),
           NEW mark, HandleMergeFailure(t, mark)
    PROVE  Board!Next
<1>1. /\ t \in Task /\ retryTasks \in Seq(Task) /\ ~Remaining(t)
  BY RemainingIsOpen DEF IInv, TypeOK, InProgress, With
<1>2. retryTasks' \in {retryTasks, Append(retryTasks, t)}
  BY DEF HandleMergeFailure
<1>3. Members(retryTasks') \in {Members(retryTasks), Members(retryTasks) \cup {t}}
  BY <1>1, <1>2, MembersOfAppend
<1>4. \A u \in Task : u # t => (Remaining(u)' <=> Remaining(u))
  BY <1>3, RemainingInMerges
<1>5. Remaining(t)' <=> t \in Members(retryTasks')
  <2>1. ~InLaterGroup(t) /\ t \notin Members(pending) /\ pc # "groups"
    BY <1>1 DEF Remaining, Merging, Resolving
  <2>2. ~InLaterGroup(t)'
    BY <2>1 DEF InLaterGroup, Merging, Resolving
  <2>. QED
    BY <2>1, <2>2 DEF Remaining, InRestOfBatch, ToBeRequeued, Merging, Resolving
<1>. QED
  BY <1>4, <1>5, FailureReturns

(* The groups and batches pass tasks on, and leave out those of a stop.       *)
LEMMA PlanWithdraws ==
    ASSUME IInv, Analyze \/ NextGroup \/ NextBatch \/ RequeueRetries
    PROVE  Board!Next
<1>1. UNCHANGED <<graph, resolves, asked, requeueCounts>>
  BY DEF Analyze, NextGroup, NextBatch, RequeueRetries, planVars, mergeVars
<1>2. /\ groupIndex \in Nat /\ DOMAIN groups \subseteq Nat /\ TypeOK
      /\ pending \in Seq(Task) /\ retryTasks \in Seq(Task)
  BY DEF IInv, TypeOK
<1>3. CASE Analyze
  <2>1. \A t \in Task : Remaining(t)
    BY <1>3 DEF Analyze, Remaining
  <2>. QED
    BY <1>1, <2>1, NothingTaken
<1>4. CASE NextGroup
  <2>1. CASE pc' = "cleanup"
    <3>1. \A t \in Task : ~Remaining(t)'
      BY <2>1 DEF Remaining
    <3>. QED
      BY <1>1, <3>1, NothingTaken
  <2>2. CASE pc' # "cleanup"
    <3>1. /\ pc = "groups" /\ pc' = "batches" /\ pending' = groups[groupIndex]
          /\ groups' = groups /\ groupIndex' = groupIndex /\ groupIndex \in DOMAIN groups
      <4>1. Len(groups) \in Nat /\ DOMAIN groups = 1..Len(groups)
        BY <1>2, GroupFacts DEF IInv
      <4>. QED
        BY <1>2, <1>4, <2>2, <4>1 DEF NextGroup, planVars, IInv, PlanInv
    <3>2. ASSUME NEW t \in Task, Remaining(t)' PROVE Remaining(t)
      <4>1. InLaterGroup(t)' \/ t \in Members(groups[groupIndex])
        BY <3>1, <3>2 DEF Remaining, InRestOfBatch, ToBeRequeued
      <4>2. InLaterGroup(t)
        BY <3>1, <4>1 DEF InLaterGroup
      <4>. QED
        BY <3>1, <4>2 DEF Remaining
    <3>. QED
      BY <1>1, <3>2, NothingTaken
  <2>. QED
    BY <2>1, <2>2
<1>5. CASE NextBatch
  <2>1. CASE pc' = "groups"
    <3>1. pc = "batches" /\ groups' = groups /\ groupIndex' = groupIndex + 1
      BY <1>5, <2>1 DEF NextBatch, planVars
    <3>2. ASSUME NEW t \in Task, Remaining(t)' PROVE Remaining(t)
      <4>1. InLaterGroup(t)'
        BY <2>1, <3>2 DEF Remaining, InRestOfBatch, ToBeRequeued
      <4>2. InLaterGroup(t)
        BY <1>2, <2>1, <3>1, <4>1 DEF InLaterGroup
      <4>. QED
        BY <3>1, <4>2 DEF Remaining
    <3>. QED
      BY <1>1, <3>2, NothingTaken
  <2>2. CASE pc' # "groups"
    <3>1. /\ pc = "batches" /\ pc' = "acquire" /\ groups' = groups /\ groupIndex' = groupIndex
          /\ batch' = SubSeq(pending, 1, BatchSize)
          /\ pending' = SubSeq(pending, BatchSize + 1, Len(pending))
      BY <1>5, <2>2 DEF NextBatch, planVars
    <3>2. BatchSize \in Nat /\ BatchSize <= Len(pending)
      BY <1>2, NextBatchSize
    <3>3. Members(pending) = Members(batch') \cup Members(pending')
      BY <1>2, <3>1, <3>2, MembersOfSplit
    <3>4. ASSUME NEW t \in Task, Remaining(t)' PROVE Remaining(t)
      <4>1. InLaterGroup(t)' \/ t \in Members(pending') \/ t \in Members(batch')
        BY <3>1, <3>4 DEF Remaining, InRestOfBatch, ToBeRequeued, Members
      <4>2. InLaterGroup(t) \/ t \in Members(pending)
        BY <3>1, <3>3, <4>1 DEF InLaterGroup
      <4>. QED
        BY <3>1, <4>2 DEF Remaining
    <3>. QED
      BY <1>1, <3>4, NothingTaken
  <2>. QED
    BY <2>1, <2>2
<1>6. CASE RequeueRetries
  <2>1. /\ pc = "resolve" /\ pc' = "batches" /\ pending' = pending \o retryTasks
        /\ groups' = groups /\ groupIndex' = groupIndex
    BY <1>6 DEF RequeueRetries, PendingAndRetries, planVars
  <2>2. Members(pending') = Members(pending) \cup Members(retryTasks)
    BY <1>2, <2>1, MembersOfConcat
  <2>3. ASSUME NEW t \in Task, Remaining(t)' PROVE Remaining(t)
    <3>1. InLaterGroup(t)' \/ t \in Members(pending')
      BY <2>1, <2>3 DEF Remaining, InRestOfBatch, ToBeRequeued
    <3>2. InLaterGroup(t) \/ t \in Members(pending) \/ t \in Members(retryTasks)
      BY <2>1, <2>2, <3>1 DEF InLaterGroup
    <3>. QED
      BY <2>1, <3>2 DEF Remaining, ToBeRequeued
  <2>. QED
    BY <1>1, <2>3, NothingTaken
<1>. QED
  BY <1>3, <1>4, <1>5, <1>6

(* Setting up, starting, ending and collecting workers, beginning merges and   *)
(* resolutions, cleaning up and the user's calls take no task; a setup that   *)
(* throws leaves the rest of the plan out.                                   *)
LEMMA OthersWithdraw ==
    ASSUME IInv, \/ AcquireWorktree \/ SetupThrows \/ StartWorkers \/ CollectResults
                 \/ BeginMerge \/ BeginResolve \/ MergesDone \/ Resolved \/ Cleanup
                 \/ (\E t \in Task : WorkerEnds(t)) \/ UserCall
    PROVE  Board!Next
<1>. USE DEF planVars, groupVars, mergeVars
<1>1. CASE SetupThrows \/ Cleanup \/ (AcquireWorktree /\ pc' = "cleanup")
  <2>1. UNCHANGED <<graph, resolves, asked, requeueCounts>> /\ pc' \in {"cleanup", "done"}
    BY <1>1 DEF SetupThrows, Cleanup, AcquireWorktree, ExecutionFails
  <2>2. \A t \in Task : ~Remaining(t)'
    BY <2>1 DEF Remaining
  <2>. QED
    BY <2>1, <2>2, NothingTaken
<1>2. CASE AcquireWorktree /\ pc' # "cleanup"
  <2>1. /\ pc = "acquire" /\ pc' = "initialize"
        /\ UNCHANGED <<graph, resolves, asked, requeueCounts, groups, groupIndex, pending,
                       batch, index>>
    BY <1>2 DEF AcquireWorktree, ExecutionFails
  <2>2. \A t \in Task : Remaining(t)' => Remaining(t)
    BY <2>1 DEF Remaining, InLaterGroup, InRestOfBatch, ToBeRequeued
  <2>. QED
    BY <2>1, <2>2, NothingTaken
<1>3. CASE StartWorkers
  <2>1. /\ pc = "start" /\ pc' = "working"
        /\ UNCHANGED <<graph, resolves, asked, requeueCounts, groups, groupIndex, pending>>
    BY <1>3 DEF StartWorkers
  <2>2. \A t \in Task : Remaining(t)' => Remaining(t)
    BY <2>1 DEF Remaining, InLaterGroup, InRestOfBatch, ToBeRequeued
  <2>. QED
    BY <2>1, <2>2, NothingTaken
<1>4. CASE CollectResults
  <2>1. /\ pc = "working" /\ pc' = "merge" /\ retryTasks' = <<>>
        /\ UNCHANGED <<graph, resolves, asked, requeueCounts, groups, groupIndex, pending>>
    BY <1>4 DEF CollectResults
  <2>2. Members(retryTasks') = {}
    BY <2>1 DEF Members
  <2>3. \A t \in Task : Remaining(t)' => Remaining(t)
    BY <2>1, <2>2 DEF Remaining, InLaterGroup, InRestOfBatch, ToBeRequeued
  <2>. QED
    BY <2>1, <2>3, NothingTaken
<1>5. CASE BeginMerge \/ BeginResolve \/ MergesDone \/ Resolved
  <2>1. /\ pc \in Merging \cup Resolving /\ pc' \in Merging \cup Resolving
        /\ UNCHANGED <<graph, resolves, asked, requeueCounts, groups, groupIndex, pending,
                       retryTasks>>
    BY <1>5 DEF BeginMerge, BeginResolve, MergesDone, Resolved, Merging, Resolving
  <2>2. \A t \in Task : Remaining(t)' => Remaining(t)
    BY <2>1, RemainingInMerges
  <2>. QED
    BY <2>1, <2>2, NothingTaken
<1>6. CASE (\E t \in Task : WorkerEnds(t)) \/ UserCall
  <2>1. UNCHANGED <<graph, resolves, asked, requeueCounts, groups, groupIndex, pending, batch,
                    index, retryTasks, pc>>
    BY <1>6 DEF WorkerEnds, UserCall, Stop, StopSettles, Pause, Resume
  <2>2. \A t \in Task : Remaining(t)' => Remaining(t)
    BY <2>1 DEF Remaining, InLaterGroup, InRestOfBatch, ToBeRequeued
  <2>. QED
    BY <2>1, <2>2, NothingTaken
<1>. QED
  BY <1>1, <1>2, <1>3, <1>4, <1>5, <1>6

(* Merges that fail come back; those that succeed complete their task.        *)
LEMMA MergeChanges ==
    ASSUME IInv, DoNotMerge \/ ExecuteMerge \/ CompleteMerged
    PROVE  Board!Next
<1>. USE DEF planVars
<1>1. /\ pc \in Merging /\ pc' \in Merging /\ index \in DOMAIN batch
      /\ UNCHANGED <<graph, resolves, groups, groupIndex, pending>>
  BY Typed DEF DoNotMerge, ExecuteMerge, Merged, Conflicted, MergeFailed, CompleteMerged, Merging,
       IInv
<1>2. Current \in InProgress /\ Current \notin Members(retryTasks)
  BY <1>1, MergeFacts
<1>3. CASE DoNotMerge
  <2>1. UNCHANGED <<requeueCounts, retryTasks>> /\ GiveUp(Current)
    BY <1>3 DEF DoNotMerge, mergeVars
  <2>2. \A u \in Task : Remaining(u)' <=> Remaining(u)
    BY <1>1, <2>1, RemainingInMerges
  <2>. QED
    BY <1>1, <1>2, <2>1, <2>2, GiveUpDrops
<1>4. CASE ExecuteMerge /\ (Merged \/ Conflicted)
  <2>1. UNCHANGED <<requeueCounts, retryTasks, asked>>
    BY <1>4 DEF Merged, Conflicted
  <2>2. \A u \in Task : Remaining(u)' => Remaining(u)
    BY <1>1, <2>1, RemainingInMerges
  <2>. QED
    BY <1>1, <2>1, <2>2, NothingTaken
<1>5. CASE ExecuteMerge /\ MergeFailed
  <2>1. PICK mark \in {"failed", "rolled-back"} :
          HandleMergeFailure(Current, Append(merges[Current], mark))
    BY <1>5 DEF MergeFailed
  <2>. QED
    BY <1>1, <1>2, <2>1, FailureChanges
<1>6. CASE CompleteMerged
  <2>1. Complete(Current) /\ retryTasks' = retryTasks
    BY <1>6 DEF CompleteMerged
  <2>2. \A u \in Task : Remaining(u)' <=> Remaining(u)
    BY <1>1, <2>1, RemainingInMerges
  <2>. QED
    BY <1>1, <1>2, <2>1, <2>2, CompleteCompletes
<1>. QED
  BY <1>3, <1>4, <1>5, <1>6 DEF ExecuteMerge

(* The same for the conflicts.                                               *)
LEMMA ResolveChanges ==
    ASSUME IInv, DropConflict \/ ResolutionRefused \/ CompleteResolved
    PROVE  Board!Next
<1>. USE DEF planVars, groupVars
<1>. DEFINE t == Head(conflicts)
<1>1. /\ pc \in Resolving /\ pc' \in Resolving /\ conflicts # <<>>
      /\ UNCHANGED <<graph, resolves, groups, groupIndex, pending>>
  BY DEF DropConflict, ResolutionRefused, CompleteResolved, Resolving, IInv, ListsInv
<1>2. t \in InProgress /\ t \notin Members(retryTasks)
  BY <1>1, ResolveFacts
<1>3. CASE DropConflict
  <2>1. UNCHANGED <<requeueCounts, retryTasks>> /\ GiveUp(t)
    BY <1>3 DEF DropConflict
  <2>2. \A u \in Task : Remaining(u)' <=> Remaining(u)
    BY <1>1, <2>1, RemainingInMerges
  <2>. QED
    BY <1>1, <1>2, <2>1, <2>2, GiveUpDrops
<1>4. CASE ResolutionRefused
  <2>1. HandleMergeFailure(t, MarkLast(t, "rolled-back"))
    BY <1>4 DEF ResolutionRefused
  <2>. QED
    BY <1>1, <1>2, <2>1, FailureChanges
<1>5. CASE CompleteResolved
  <2>1. Complete(t) /\ retryTasks' = retryTasks
    BY <1>5 DEF CompleteResolved
  <2>2. \A u \in Task : Remaining(u)' <=> Remaining(u)
    BY <1>1, <2>1, RemainingInMerges
  <2>. QED
    BY <1>1, <1>2, <2>1, <2>2, CompleteCompletes
<1>. QED
  BY <1>3, <1>4, <1>5

(* The board starts with every task waiting.                                 *)
LEMMA BoardStarts ==
    Init => Board!Init
  BY DEF Init, Board!Init, BoardStatus, Remaining

(* Every step of an execution is one of the board, or leaves it as it is.     *)
LEMMA BoardSteps ==
    ASSUME IInv, [Next]_vars
    PROVE  [Board!Next]_Board!vars
<1>1. CASE Next
  BY <1>1, PlanWithdraws, OthersWithdraw, InitializeTakes, MergeChanges, ResolveChanges
    DEF Next, ExecutorStep
<1>2. CASE UNCHANGED vars
  <2>1. UNCHANGED <<graph, resolves, asked, requeueCounts, groups, groupIndex, pending, batch,
                    index, retryTasks, pc>>
    BY <1>2 DEF vars, planVars, groupVars, mergeVars
  <2>2. BoardStatus' = BoardStatus
    BY <2>1 DEF BoardStatus, Remaining, InLaterGroup, InRestOfBatch, ToBeRequeued
  <2>. QED
    BY <2>1, <2>2 DEF Board!vars
<1>. QED
  BY <1>1, <1>2

(* An execution does with its tasks what TaskBoard says, for every graph and any  *)
(* outcomes: it takes a task only after its dependencies are over, retries it at  *)
(* most MaxRequeueCount times, and leaves completed and dropped tasks alone       *)
(* (execute, executeGroup, executeBatch, handleMergeFailure).                     *)
THEOREM ImplementsBoard == Spec => ImplementsTaskBoard
<1>1. Init => Board!Init
  BY BoardStarts
<1>2. IInv /\ [Next]_vars => [Board!Next]_Board!vars
  BY BoardSteps
<1>. QED
  BY <1>1, <1>2, Invariant, PTL DEF Spec, Board!Spec, ImplementsTaskBoard

-----------------------------------------------------------------------------
(* An execution wears out: each of its own steps leaves less of it.          *)

(* What is left of an execution, from the coarse to the fine: groups, two steps *)
(* each; retries; batches and the stages of the current one; and the steps of   *)
(* the stage.                                                                *)
GroupsLeft ==
    CASE pc = "analyzing" -> 2 * GroupCount(graph) + 2
      [] pc = "groups"    -> 2 * (Len(groups) + 1 - groupIndex) + 1
      [] pc \in InGroup   -> 2 * (Len(groups) + 1 - groupIndex)
      [] OTHER            -> 0

RetryTokens ==
    {r \in Task \X (1..MaxRequeueCount) :
        asked[r[1]] # "completed" /\ r[2] > requeueCounts[r[1]]}

Stage ==
    CASE pc \in {"acquire", "initialize"}    -> 5
      [] pc = "start"                        -> 4
      [] pc = "working"                      -> 3
      [] pc \in Merging                      -> 2
      [] pc \in Resolving \cup {"cleanup"}   -> 1
      [] OTHER                               -> 0

WaitingForABatch ==
    Len(pending) + IF pc \in Merging \cup Resolving THEN Len(retryTasks) ELSE 0

StagesLeft == 6 * WaitingForABatch + Stage

Step ==
    CASE pc \in {"merge", "resolve"}                   -> 2
      [] pc \in {"acquire", "merging", "resolving"}    -> 1
      [] OTHER                                         -> 0

StillActive == {t \in Task : Active(t)}

StepsLeft ==
    CASE pc \in {"acquire", "initialize"} -> 2 * (Len(batch) + 1 - index) + Step
      [] pc = "working"                   -> Cardinality(StillActive)
      [] pc \in Merging                   -> 3 * (Len(batch) + 1 - index) + Step
      [] pc \in Resolving                 -> 3 * Len(conflicts) + Step
      [] OTHER                            -> 0

RetriesLeft == Cardinality(RetryTokens)

Left == <<GroupsLeft, RetriesLeft, StagesLeft, StepsLeft>>

(* The order of what is left, by the first that differs. *)
Below == {ss \in Nat \X Nat : ss[1] < ss[2]}
Less == LexProductOrdering(Below, Nat, 4)

(* There is no endless descent in it.                                        *)
LEMMA LessIsWellFounded == IsWellFoundedOn(Less, [1..4 -> Nat])
<1>1. IsWellFoundedOn(Below, Nat)
  <2>1. ASSUME NEW T \in SUBSET Nat, T # {}
        PROVE  \E x \in T : \A y \in T : ~ (<<y, x>> \in Below)
    <3>1. PICK x \in T : \A y \in T : x <= y
      BY <2>1, Least
    <3>2. \A y \in T : ~ (<<y, x>> \in Below)
      BY <3>1 DEF Below
    <3>. QED
      BY <3>2
  <2>. QED
    BY <2>1, MinWF
<1>. QED
  BY <1>1, WFLexProductOrdering DEF Less

(* What is left is counted in natural numbers.                               *)
LeftType ==
    /\ GroupsLeft \in Nat /\ RetriesLeft \in Nat /\ StagesLeft \in Nat /\ StepsLeft \in Nat
    /\ WaitingForABatch \in Nat /\ IsFiniteSet(RetryTokens)

LEMMA LeftTyped == IInv => LeftType
<1>. SUFFICES ASSUME IInv PROVE LeftType
  OBVIOUS
<1>1. /\ Len(groups) \in Nat /\ groupIndex \in Nat /\ index \in Nat /\ Len(batch) \in Nat
      /\ Len(pending) \in Nat /\ Len(retryTasks) \in Nat /\ Len(conflicts) \in Nat
      /\ GroupCount(graph) \in Nat
  BY GroupFacts, GroupLevels DEF IInv, TypeOK
<1>2. GroupsLeft \in Nat
  <2>1. pc = "groups" => groupIndex <= Len(groups) + 1
    BY DEF IInv, PlanInv
  <2>2. pc \in InGroup => groupIndex <= Len(groups)
    BY <1>1, GroupFacts DEF IInv, PlanInv
  <2>. QED
    BY <1>1, <2>1, <2>2 DEF GroupsLeft
<1>3. IsFiniteSet(RetryTokens) /\ RetriesLeft \in Nat
  <2>1. IsFiniteSet(1..MaxRequeueCount) /\ IsFiniteSet(Task)
    BY ParallelAssumption, TaskGraphAssumption, FS_Interval
  <2>2. IsFiniteSet(Task \X (1..MaxRequeueCount))
    BY <2>1, FS_Product
  <2>3. RetryTokens \subseteq Task \X (1..MaxRequeueCount)
    BY DEF RetryTokens
  <2>4. IsFiniteSet(RetryTokens)
    BY <2>2, <2>3, FS_Subset
  <2>. QED
    BY <2>4, FS_CardinalityType DEF RetriesLeft
<1>4. WaitingForABatch \in Nat /\ StagesLeft \in Nat
  <2>1. WaitingForABatch \in Nat
    BY <1>1 DEF WaitingForABatch
  <2>2. Stage \in Nat
    BY DEF Stage, Merging, Resolving
  <2>. QED
    BY <2>1, <2>2 DEF StagesLeft
<1>5. StepsLeft \in Nat
  <2>1. Cardinality(StillActive) \in Nat
    BY Counted DEF StillActive
  <2>2. pc \in {"acquire", "initialize"} \cup Merging => Len(batch) + 1 - index \in Nat
    BY <1>1 DEF IInv, ListsInv, Setup
  <2>3. Step \in Nat
    BY DEF Step
  <2>4. CASE pc \in {"acquire", "initialize"}
    <3>1. StepsLeft = 2 * (Len(batch) + 1 - index) + Step
      BY <2>4 DEF StepsLeft, Merging, Resolving
    <3>. QED
      BY <2>2, <2>3, <2>4, <3>1
  <2>5. CASE pc = "working"
    BY <2>1, <2>5 DEF StepsLeft, Merging, Resolving
  <2>6. CASE pc \in Merging
    <3>1. StepsLeft = 3 * (Len(batch) + 1 - index) + Step
      BY <2>6 DEF StepsLeft, Merging, Resolving
    <3>. QED
      BY <2>2, <2>3, <2>6, <3>1
  <2>7. CASE pc \in Resolving
    <3>1. StepsLeft = 3 * Len(conflicts) + Step
      BY <2>7 DEF StepsLeft, Merging, Resolving
    <3>. QED
      BY <1>1, <2>3, <3>1
  <2>8. CASE pc \notin {"acquire", "initialize", "working"} \cup Merging \cup Resolving
    BY <2>8 DEF StepsLeft
  <2>. QED
    BY <2>4, <2>5, <2>6, <2>7, <2>8
<1>. QED
  BY <1>2, <1>3, <1>4, <1>5 DEF LeftType

LEMMA LeftTypedNext == IInv' => LeftType'
BY LeftTyped, PTL

(* The first of what is left that differs decides. *)
LEMMA LeftIsLess ==
    ASSUME IInv, IInv',
           \/ GroupsLeft' < GroupsLeft
           \/ /\ GroupsLeft' = GroupsLeft
              /\ \/ RetriesLeft' < RetriesLeft
                 \/ /\ RetriesLeft' = RetriesLeft
                    /\ \/ StagesLeft' < StagesLeft
                       \/ StagesLeft' = StagesLeft /\ StepsLeft' < StepsLeft
    PROVE  <<Left', Left>> \in Less
<1>. DEFINE m == Left'
            n == Left
<1>1. /\ GroupsLeft \in Nat /\ RetriesLeft \in Nat /\ StagesLeft \in Nat /\ StepsLeft \in Nat
      /\ GroupsLeft' \in Nat /\ RetriesLeft' \in Nat /\ StagesLeft' \in Nat /\ StepsLeft' \in Nat
  BY LeftTyped, LeftTypedNext DEF LeftType
<1>2. /\ n[1] = GroupsLeft /\ n[2] = RetriesLeft /\ n[3] = StagesLeft /\ n[4] = StepsLeft
      /\ m[1] = GroupsLeft' /\ m[2] = RetriesLeft' /\ m[3] = StagesLeft' /\ m[4] = StepsLeft'
  BY DEF Left
<1>3. n \in [1..4 -> Nat] /\ m \in [1..4 -> Nat]
  BY <1>1 DEF Left
<1>4. \E j \in 1..4 : (\A i \in 1..(j-1) : m[i] = n[i]) /\ m[j] < n[j]
  <2>. HIDE DEF m, n
  <2>1. CASE m[1] < n[1]
    BY <2>1
  <2>2. CASE m[1] = n[1] /\ m[2] < n[2]
    BY <2>2
  <2>3. CASE m[1] = n[1] /\ m[2] = n[2] /\ m[3] < n[3]
    BY <2>3
  <2>4. CASE m[1] = n[1] /\ m[2] = n[2] /\ m[3] = n[3] /\ m[4] < n[4]
    BY <2>4
  <2>. QED
    BY <1>2, <2>1, <2>2, <2>3, <2>4
<1>. HIDE DEF m, n
<1>5. PICK j \in 1..4 : (\A i \in 1..(j-1) : m[i] = n[i]) /\ <<m[j], n[j]>> \in Below
  BY <1>3, <1>4 DEF Below
<1>6. <<m, n>> \in Less
  BY <1>3, <1>5 DEF Less, LexProductOrdering
<1>. QED
  BY <1>6 DEF m, n

(* What a step may do with the retries: a task that is not completed was not    *)
(* before, and has been requeued as often or more.                           *)
LEMMA RetriesGo ==
    ASSUME IInv, IInv',
           \A t \in Task : asked'[t] # "completed" =>
               asked[t] # "completed" /\ requeueCounts'[t] >= requeueCounts[t]
    PROVE  /\ RetriesLeft' <= RetriesLeft /\ RetriesLeft' \in Nat
           /\ (\E t \in Task : /\ asked'[t] # "completed"
                               /\ requeueCounts[t] < MaxRequeueCount
                               /\ requeueCounts'[t] = requeueCounts[t] + 1)
              => RetriesLeft' < RetriesLeft
<1>1. \A t \in Task : requeueCounts[t] \in Nat /\ requeueCounts'[t] \in Nat
  BY ParallelAssumption DEF IInv, TypeOK
<1>2. RetryTokens' \subseteq RetryTokens
  <2>. SUFFICES ASSUME NEW r \in RetryTokens' PROVE r \in RetryTokens
    OBVIOUS
  <2>1. /\ r \in Task \X (1..MaxRequeueCount) /\ r[1] \in Task /\ r[2] \in Int
        /\ asked'[r[1]] # "completed" /\ r[2] > requeueCounts'[r[1]]
    BY DEF RetryTokens
  <2>2. asked[r[1]] # "completed" /\ requeueCounts'[r[1]] >= requeueCounts[r[1]]
    BY <2>1
  <2>3. r[2] > requeueCounts[r[1]]
    BY <1>1, <2>1, <2>2
  <2>. QED
    BY <2>1, <2>2, <2>3 DEF RetryTokens
<1>3. IsFiniteSet(RetryTokens) /\ RetriesLeft \in Nat
  BY LeftTyped DEF LeftType
<1>4. RetriesLeft' \in Nat /\ RetriesLeft' <= RetriesLeft
      /\ (RetriesLeft' = RetriesLeft => RetryTokens' = RetryTokens)
  BY <1>2, <1>3, FS_Subset, FS_CardinalityType DEF RetriesLeft
<1>5. ASSUME NEW t \in Task, asked'[t] # "completed", requeueCounts[t] < MaxRequeueCount,
             requeueCounts'[t] = requeueCounts[t] + 1
      PROVE  RetryTokens' # RetryTokens
  <2>. DEFINE r == <<t, requeueCounts[t] + 1>>
  <2>1. r \in RetryTokens
    BY <1>1, <1>5, ParallelAssumption DEF RetryTokens
  <2>2. r \notin RetryTokens'
    BY <1>1, <1>5 DEF RetryTokens
  <2>. QED
    BY <2>1, <2>2
<1>. QED
  BY <1>3, <1>4, <1>5

(* Steps that leave asked and counts alone, complete a task or take it up. *)
LEMMA RetriesStay ==
    ASSUME IInv, UNCHANGED <<asked, requeueCounts>>
    PROVE  RetriesLeft' = RetriesLeft
BY DEF RetriesLeft, RetryTokens

LEMMA RetriesOfOne ==
    ASSUME IInv, IInv', NEW t \in Task, t \notin Completed,
           NEW value, SetTracker(t, value),
           \/ requeueCounts' = requeueCounts
           \/ value = "completed" /\ requeueCounts' = [requeueCounts EXCEPT ![t] = 0]
    PROVE  RetriesLeft' <= RetriesLeft
<1>0. requeueCounts \in [Task -> Nat]
  BY ParallelAssumption DEF IInv, TypeOK
<1>1. /\ asked[t] # "completed"
      /\ \A u \in Task : asked'[u] = IF u = t THEN value ELSE asked[u]
      /\ \A u \in Task : requeueCounts'[u] = requeueCounts[u] \/ (u = t /\ value = "completed")
  BY <1>0 DEF IInv, TypeOK, Completed, With, SetTracker
<1>2. \A u \in Task : asked'[u] # "completed" =>
         asked[u] # "completed" /\ requeueCounts'[u] >= requeueCounts[u]
  BY <1>0, <1>1
<1>. QED
  BY <1>2, RetriesGo

(* A merge that failed or a refused resolution uses a retry up, or gives up.   *)
LEMMA FailureWears ==
    ASSUME IInv, IInv', NEW t \in Task, t \notin Completed, NEW mark, HandleMergeFailure(t, mark),
           retryTasks \in Seq(Task)
    PROVE  /\ RetriesLeft' <= RetriesLeft /\ RetriesLeft' \in Nat
           /\ RetriesLeft' < RetriesLeft \/ retryTasks' = retryTasks
<1>1. CASE RequeueLeft(t)
  <2>1. /\ requeueCounts[t] < MaxRequeueCount /\ asked' = [asked EXCEPT ![t] = "open"]
        /\ requeueCounts' = [requeueCounts EXCEPT ![t] = @ + 1]
    BY <1>1 DEF HandleMergeFailure, RequeueLeft, SetTracker
  <2>2. /\ asked[t] # "completed" /\ \A u \in Task : requeueCounts[u] \in Nat
        /\ \A u \in Task : asked'[u] = IF u = t THEN "open" ELSE asked[u]
        /\ \A u \in Task : requeueCounts'[u] = IF u = t THEN requeueCounts[u] + 1 ELSE requeueCounts[u]
    BY <2>1, ParallelAssumption DEF IInv, TypeOK, Completed, With
  <2>3. \A u \in Task : asked'[u] # "completed" =>
           asked[u] # "completed" /\ requeueCounts'[u] >= requeueCounts[u]
    BY <2>2
  <2>4. asked'[t] # "completed" /\ requeueCounts'[t] = requeueCounts[t] + 1
    BY <2>2
  <2>. QED
    BY <2>1, <2>3, <2>4, RetriesGo
<1>2. CASE ~RequeueLeft(t)
  <2>1. SetTracker(t, "open") /\ requeueCounts' = requeueCounts /\ retryTasks' = retryTasks
    BY <1>2 DEF HandleMergeFailure, GiveUp
  <2>2. \A u \in Task : asked'[u] # "completed" =>
           asked[u] # "completed" /\ requeueCounts'[u] >= requeueCounts[u]
    BY <2>1, ParallelAssumption DEF IInv, TypeOK, Completed, With, SetTracker
  <2>. QED
    BY <2>1, <2>2, RetriesGo
<1>. QED
  BY <1>1, <1>2

(* The end of the groups, reached in one way or another. *)
LEMMA CleanupWears ==
    ASSUME IInv, IInv', pc \in {"analyzing", "groups"} \cup InGroup, pc' = "cleanup"
    PROVE  <<Left', Left>> \in Less
<1>1. GroupsLeft' = 0
  BY DEF GroupsLeft, InGroup, Setup, Merging, Resolving
<1>2. GroupsLeft > 0
  <2>1. Len(groups) \in Nat /\ groupIndex \in Nat /\ GroupCount(graph) \in Nat
    BY GroupFacts, GroupLevels DEF IInv, TypeOK
  <2>2. pc = "groups" => groupIndex <= Len(groups) + 1
    BY DEF IInv, PlanInv
  <2>3. pc \in InGroup => groupIndex <= Len(groups)
    BY <2>1, GroupFacts DEF IInv, PlanInv
  <2>. QED
    BY <2>1, <2>2, <2>3 DEF GroupsLeft
<1>. QED
  BY <1>1, <1>2, LeftIsLess

(* The groups and batches. *)
LEMMA PlanWears ==
    ASSUME IInv, IInv', Analyze \/ NextGroup \/ NextBatch \/ RequeueRetries
    PROVE  <<Left', Left>> \in Less
<1>. USE DEF planVars, mergeVars
<1>1. /\ groupIndex \in Nat /\ Len(groups) \in Nat /\ GroupCount(graph) \in Nat
      /\ pending \in Seq(Task) /\ retryTasks \in Seq(Task)
      /\ Len(pending) \in Nat /\ Len(retryTasks) \in Nat
  <2>1. TypeOK /\ PlanInv /\ GroupCount(graph) \in Nat
    BY GroupLevels DEF IInv
  <2>. QED
    BY <2>1 DEF TypeOK
<1>2. UNCHANGED <<graph, resolves, asked, requeueCounts, retryTasks>> /\ RetriesLeft' = RetriesLeft
  BY RetriesStay DEF Analyze, NextGroup, NextBatch, RequeueRetries
<1>3. CASE pc' = "cleanup"
  <2>1. pc \in {"analyzing", "groups"} \cup InGroup
    BY <1>3 DEF Analyze, NextGroup, NextBatch, RequeueRetries, InGroup, Resolving
  <2>. QED
    BY <1>3, <2>1, CleanupWears
<1>4. CASE Analyze /\ pc' # "cleanup"
  <2>1. /\ pc = "analyzing" /\ pc' = "groups" /\ groupIndex' = 1
        /\ groups' = [g \in 1..GroupCount(graph) |-> Group(graph, g)]
    BY <1>4 DEF Analyze
  <2>2. Len(groups') = GroupCount(graph)
    BY <1>1, <2>1
  <2>3. GroupsLeft' < GroupsLeft
    BY <1>1, <2>1, <2>2 DEF GroupsLeft, InGroup, Setup, Merging, Resolving
  <2>. QED
    BY <2>3, LeftIsLess
<1>5. CASE NextGroup /\ pc' # "cleanup"
  <2>1. pc = "groups" /\ pc' = "batches" /\ groups' = groups /\ groupIndex' = groupIndex
    BY <1>5 DEF NextGroup
  <2>2. GroupsLeft' < GroupsLeft
    BY <1>1, <2>1 DEF GroupsLeft, InGroup, Setup, Merging, Resolving
  <2>. QED
    BY <2>2, LeftIsLess
<1>6. CASE NextBatch /\ pc' = "groups"
  <2>1. pc = "batches" /\ groups' = groups /\ groupIndex' = groupIndex + 1
    BY <1>6 DEF NextBatch
  <2>2. GroupsLeft' < GroupsLeft
    BY <1>1, <1>6, <2>1 DEF GroupsLeft, InGroup, Setup, Merging, Resolving
  <2>. QED
    BY <2>2, LeftIsLess
<1>7. CASE NextBatch /\ pc' # "groups"
  <2>1. /\ pc = "batches" /\ pc' = "acquire" /\ groups' = groups /\ groupIndex' = groupIndex
        /\ pending # <<>> /\ pending' = SubSeq(pending, BatchSize + 1, Len(pending))
    BY <1>7 DEF NextBatch
  <2>2. BatchSize \in Nat /\ BatchSize <= Len(pending) /\ BatchSize >= 1
    BY <2>1, NextBatchSize DEF IInv
  <2>3. Len(pending') = Len(pending) - BatchSize
    BY <1>1, <2>1, <2>2
  <2>4. GroupsLeft' = GroupsLeft
    BY <2>1 DEF GroupsLeft, InGroup, Setup, Merging, Resolving
  <2>5. WaitingForABatch = Len(pending) /\ WaitingForABatch' = Len(pending')
    BY <1>1, <2>1, <2>3, <2>2 DEF WaitingForABatch, Merging, Resolving
  <2>6. Stage = 0 /\ Stage' = 5
    BY <2>1 DEF Stage, Merging, Resolving
  <2>7. StagesLeft' < StagesLeft
    BY <1>1, <2>2, <2>3, <2>5, <2>6 DEF StagesLeft
  <2>. QED
    BY <1>2, <2>4, <2>7, LeftIsLess
<1>8. CASE RequeueRetries
  <2>1. /\ pc = "resolve" /\ pc' = "batches" /\ groups' = groups /\ groupIndex' = groupIndex
        /\ pending' = pending \o retryTasks
    BY <1>8 DEF RequeueRetries, PendingAndRetries
  <2>2. Len(pending') = Len(pending) + Len(retryTasks)
    BY <1>1, <2>1
  <2>3. GroupsLeft' = GroupsLeft
    BY <2>1 DEF GroupsLeft, InGroup, Setup, Merging, Resolving
  <2>4. WaitingForABatch = Len(pending) + Len(retryTasks) /\ WaitingForABatch' = Len(pending')
    BY <1>1, <2>1, <2>2 DEF WaitingForABatch, Merging, Resolving
  <2>5. Stage = 1 /\ Stage' = 0
    BY <2>1 DEF Stage, Merging, Resolving
  <2>6. StagesLeft' < StagesLeft
    BY <1>1, <2>2, <2>4, <2>5 DEF StagesLeft
  <2>. QED
    BY <1>2, <2>3, <2>6, LeftIsLess
<1>. QED
  BY <1>3, <1>4, <1>5, <1>6, <1>7, <1>8 DEF RequeueRetries

(* A step of the batch within its stage, or to the next.                     *)
LEMMA BatchWears ==
    ASSUME IInv, IInv', pc \in InGroup, pc' \in InGroup,
           UNCHANGED <<groups, groupIndex, pending>>,
           RetriesLeft' <= RetriesLeft,
           \/ RetriesLeft' < RetriesLeft
           \/ /\ WaitingForABatch' = WaitingForABatch
              /\ Stage' < Stage \/ (Stage' = Stage /\ StepsLeft' < StepsLeft)
    PROVE  <<Left', Left>> \in Less
<1>1. GroupsLeft' = GroupsLeft
  BY DEF GroupsLeft, InGroup, Setup, Merging, Resolving
<1>2. RetriesLeft \in Nat /\ RetriesLeft' \in Nat /\ WaitingForABatch \in Nat
  BY LeftTyped, LeftTypedNext DEF LeftType
<1>3. Stage \in Nat /\ Stage' \in Nat
  BY DEF Stage
<1>4. CASE RetriesLeft' < RetriesLeft
  BY <1>1, <1>4, LeftIsLess
<1>5. CASE ~(RetriesLeft' < RetriesLeft)
  <2>1. RetriesLeft' = RetriesLeft
    BY <1>2, <1>5
  <2>2. StagesLeft' < StagesLeft \/ (StagesLeft' = StagesLeft /\ StepsLeft' < StepsLeft)
    BY <1>2, <1>3, <1>5 DEF StagesLeft
  <2>. QED
    BY <1>1, <2>1, <2>2, LeftIsLess
<1>. QED
  BY <1>4, <1>5

(* The set-up of a batch, its workers, and their end. *)
LEMMA SetupWears ==
    ASSUME IInv, IInv',
           \/ AcquireWorktree \/ InitializeWorker \/ SetupThrows \/ StartWorkers \/ CollectResults
           \/ \E t \in Task : WorkerEnds(t)
    PROVE  <<Left', Left>> \in Less
<1>. USE DEF planVars, groupVars, mergeVars
<1>1. /\ index \in Nat /\ Len(batch) \in Nat /\ Len(pending) \in Nat
      /\ pc \in {"acquire", "initialize"} => index <= Len(batch)
  <2>1. index \in Nat /\ batch \in Seq(Task) /\ pending \in Seq(Task)
    BY DEF IInv, TypeOK
  <2>2. pc \in {"acquire", "initialize"} => index <= Len(batch)
    BY DEF IInv, ListsInv
  <2>. QED
    BY <2>1, <2>2
<1>2. CASE SetupThrows \/ (AcquireWorktree /\ pc' = "cleanup")
  <2>1. pc \in InGroup /\ pc' = "cleanup"
    BY <1>2 DEF SetupThrows, AcquireWorktree, ExecutionFails, InGroup, Setup
  <2>. QED
    BY <2>1, CleanupWears
<1>3. CASE AcquireWorktree /\ pc' # "cleanup"
  <2>1. /\ pc = "acquire" /\ pc' = "initialize"
        /\ UNCHANGED <<asked, requeueCounts, groups, groupIndex, pending, batch, index>>
    BY <1>3 DEF AcquireWorktree, ExecutionFails
  <2>2. WaitingForABatch' = WaitingForABatch /\ Stage' = Stage /\ StepsLeft' < StepsLeft
    BY <1>1, <2>1 DEF WaitingForABatch, Stage, StepsLeft, Step, Merging, Resolving
  <2>3. RetriesLeft' = RetriesLeft /\ RetriesLeft \in Nat
    BY <2>1, RetriesStay, LeftTyped DEF LeftType
  <2>. QED
    BY <2>1, <2>2, <2>3, BatchWears DEF InGroup, Setup
<1>4. CASE InitializeWorker
  <2>1. /\ pc = "initialize" /\ pc' \in {"start", "acquire"}
        /\ index' = index + 1 /\ (pc' = "acquire" => index # Len(batch))
        /\ SetTracker(Current, "in_progress")
        /\ UNCHANGED <<requeueCounts, groups, groupIndex, pending, batch>>
    BY <1>4 DEF InitializeWorker, SetTracker
  <2>2. Current \in Task /\ Current \notin Completed
    BY <2>1, CurrentFacts, Typed DEF IInv, Setup
  <2>3. RetriesLeft' <= RetriesLeft
    BY <2>1, <2>2, RetriesOfOne
  <2>4. WaitingForABatch' = WaitingForABatch
    BY <2>1 DEF WaitingForABatch, Merging, Resolving
  <2>5. Stage' < Stage \/ (Stage' = Stage /\ StepsLeft' < StepsLeft)
    BY <1>1, <2>1 DEF Stage, StepsLeft, Step, Merging, Resolving
  <2>. QED
    BY <2>1, <2>3, <2>4, <2>5, BatchWears DEF InGroup, Setup
<1>5. CASE StartWorkers
  <2>1. /\ pc = "start" /\ pc' = "working"
        /\ UNCHANGED <<asked, requeueCounts, groups, groupIndex, pending>>
    BY <1>5 DEF StartWorkers
  <2>2. WaitingForABatch' = WaitingForABatch /\ Stage' < Stage
    BY <2>1 DEF WaitingForABatch, Stage, Merging, Resolving
  <2>3. RetriesLeft' = RetriesLeft /\ RetriesLeft \in Nat
    BY <2>1, RetriesStay, LeftTyped DEF LeftType
  <2>. QED
    BY <2>1, <2>2, <2>3, BatchWears DEF InGroup, Setup
<1>6. CASE CollectResults
  <2>1. /\ pc = "working" /\ pc' = "merge" /\ retryTasks' = <<>>
        /\ UNCHANGED <<asked, requeueCounts, groups, groupIndex, pending>>
    BY <1>6 DEF CollectResults
  <2>2. WaitingForABatch' = WaitingForABatch
    BY <1>1, <2>1 DEF WaitingForABatch, Merging, Resolving
  <2>3. Stage' < Stage
    BY <2>1 DEF Stage, Merging, Resolving
  <2>4. RetriesLeft' = RetriesLeft /\ RetriesLeft \in Nat
    BY <2>1, RetriesStay, LeftTyped DEF LeftType
  <2>. QED
    BY <2>1, <2>2, <2>3, <2>4, BatchWears DEF InGroup, Setup, Merging
<1>7. CASE \E t \in Task : WorkerEnds(t)
  <2>. PICK t \in Task : WorkerEnds(t)
    BY <1>7
  <2>. DEFINE A == StillActive
              B == StillActive'
  <2>1. /\ Active(t) /\ pc = "working" /\ pc' = pc /\ worker' = [worker EXCEPT ![t] = "ended"]
        /\ UNCHANGED <<asked, requeueCounts, groups, groupIndex, pending, retryTasks>>
    BY DEF WorkerEnds, Active, IInv, WorkerInv
  <2>2. t \in A /\ B = A \ {t}
    BY <2>1 DEF StillActive, Active, IInv, TypeOK
  <2>3. Cardinality(B) < Cardinality(A)
    <3>1. A \subseteq Task
      BY DEF StillActive
    <3>2. IsFiniteSet(A) /\ Cardinality(A) \in Nat /\ Cardinality(B) \in Nat
          /\ Cardinality(B) <= Cardinality(A) /\ Cardinality(B) # Cardinality(A)
      BY <2>2, <3>1, Counted
    <3>. QED
      BY <3>2
  <2>4. StepsLeft = Cardinality(A) /\ StepsLeft' = Cardinality(B)
    <3>1. pc \notin {"acquire", "initialize"} /\ pc' \notin {"acquire", "initialize"}
      BY <2>1
    <3>. QED
      BY <2>1, <3>1 DEF StepsLeft, Merging, Resolving
  <2>5. WaitingForABatch' = WaitingForABatch /\ Stage' = Stage
    BY <2>1 DEF WaitingForABatch, Stage
  <2>6. RetriesLeft' = RetriesLeft /\ RetriesLeft \in Nat
    BY <2>1, RetriesStay, LeftTyped DEF LeftType
  <2>. QED
    BY <2>1, <2>3, <2>4, <2>5, <2>6, BatchWears DEF InGroup, Setup
<1>. QED
  BY <1>2, <1>3, <1>4, <1>5, <1>6, <1>7

(* The merges of a batch. *)
LEMMA MergeWears ==
    ASSUME IInv, IInv', DoNotMerge \/ BeginMerge \/ ExecuteMerge \/ CompleteMerged \/ MergesDone
    PROVE  <<Left', Left>> \in Less
<1>. USE DEF planVars, groupVars, mergeVars
<1>1. /\ pc \in Merging /\ pc \in InGroup /\ pc' \in Merging \cup Resolving /\ pc' \in InGroup
      /\ UNCHANGED <<groups, groupIndex, pending, batch>>
      /\ index \in Nat /\ Len(batch) \in Nat /\ retryTasks \in Seq(Task)
  BY DEF DoNotMerge, BeginMerge, ExecuteMerge, Merged, Conflicted, MergeFailed, CompleteMerged,
         MergesDone, InGroup, Merging, Resolving, IInv, TypeOK
<1>2. RetriesLeft \in Nat
  BY LeftTyped DEF LeftType
<1>3. pc' # "resolve" => index \in DOMAIN batch /\ Current \in Task /\ Current \notin Completed
  <2>1. pc' # "resolve" => index \in DOMAIN batch
    BY Typed DEF IInv, DoNotMerge, BeginMerge, ExecuteMerge, CompleteMerged, MergesDone
  <2>. QED
    BY <1>1, <2>1, MergeFacts
<1>4. CASE MergesDone \/ BeginMerge \/ (ExecuteMerge /\ (Merged \/ Conflicted))
  <2>1. /\ UNCHANGED <<asked, requeueCounts, retryTasks>>
        /\ \/ pc' = "resolve"
           \/ pc = "merge" /\ pc' = "merging" /\ index' = index
           \/ pc = "merging" /\ pc' = "completing" /\ index' = index
           \/ pc = "merging" /\ pc' = "merge" /\ index' = index + 1
    BY <1>4 DEF MergesDone, BeginMerge, ExecuteMerge, Merged, Conflicted
  <2>2. WaitingForABatch' = WaitingForABatch
    BY <1>1, <2>1 DEF WaitingForABatch
  <2>3. Stage' < Stage \/ (Stage' = Stage /\ StepsLeft' < StepsLeft)
    BY <1>1, <2>1 DEF Stage, StepsLeft, Step, Merging, Resolving
  <2>4. RetriesLeft' = RetriesLeft
    BY <2>1, RetriesStay
  <2>. QED
    BY <1>1, <1>2, <2>2, <2>3, <2>4, BatchWears
<1>5. CASE DoNotMerge \/ CompleteMerged
  <2>1. /\ pc \in {"merge", "completing"} /\ pc' = "merge" /\ index' = index + 1
        /\ retryTasks' = retryTasks
        /\ \/ SetTracker(Current, "open") /\ requeueCounts' = requeueCounts
           \/ /\ SetTracker(Current, "completed")
              /\ requeueCounts' = [requeueCounts EXCEPT ![Current] = 0]
    BY <1>5 DEF DoNotMerge, CompleteMerged, GiveUp, Complete
  <2>2. WaitingForABatch' = WaitingForABatch
    BY <1>1, <2>1 DEF WaitingForABatch
  <2>3. Stage' = Stage /\ StepsLeft' < StepsLeft
    BY <1>1, <2>1 DEF Stage, StepsLeft, Step, Merging, Resolving
  <2>4. RetriesLeft' <= RetriesLeft
    BY <1>3, <2>1, RetriesOfOne
  <2>. QED
    BY <1>1, <2>2, <2>3, <2>4, BatchWears
<1>6. CASE ExecuteMerge /\ MergeFailed
  <2>. PICK mark \in {"failed", "rolled-back"} :
          HandleMergeFailure(Current, Append(merges[Current], mark))
    BY <1>6 DEF MergeFailed
  <2>1. pc = "merging" /\ pc' = "merge" /\ index' = index + 1
    BY <1>6 DEF ExecuteMerge, MergeFailed
  <2>2. Stage' = Stage /\ StepsLeft' < StepsLeft
    BY <1>1, <2>1 DEF Stage, StepsLeft, Step, Merging, Resolving
  <2>3. /\ RetriesLeft' <= RetriesLeft
        /\ RetriesLeft' < RetriesLeft \/ retryTasks' = retryTasks
    BY <1>1, <1>3, <2>1, FailureWears
  <2>4. retryTasks' = retryTasks => WaitingForABatch' = WaitingForABatch
    BY <1>1 DEF WaitingForABatch
  <2>. QED
    BY <1>1, <2>2, <2>3, <2>4, BatchWears
<1>. QED
  BY <1>4, <1>5, <1>6 DEF ExecuteMerge

(* The conflicts of a batch. *)
LEMMA ResolveWears ==
    ASSUME IInv, IInv',
           DropConflict \/ BeginResolve \/ Resolved \/ ResolutionRefused \/ CompleteResolved
    PROVE  <<Left', Left>> \in Less
<1>. USE DEF planVars, groupVars, mergeVars
<1>. DEFINE t == Head(conflicts)
<1>1. /\ pc \in Resolving /\ pc \in InGroup /\ pc' \in Resolving /\ pc' \in InGroup
      /\ conflicts # <<>> /\ conflicts \in Seq(Task) /\ retryTasks \in Seq(Task)
      /\ UNCHANGED <<groups, groupIndex, pending>>
  BY DEF DropConflict, BeginResolve, Resolved, ResolutionRefused, CompleteResolved,
         InGroup, Resolving, IInv, TypeOK, ListsInv
<1>2. t \in Task /\ t \notin Completed
  BY <1>1, ResolveFacts
<1>3. RetriesLeft \in Nat /\ Len(conflicts) \in Nat /\ Len(Tail(conflicts)) = Len(conflicts) - 1
  BY <1>1, LeftTyped DEF LeftType
<1>4. Stage' = Stage
  BY <1>1 DEF Stage, Merging, Resolving
<1>5. CASE BeginResolve \/ Resolved
  <2>1. /\ UNCHANGED <<asked, requeueCounts, retryTasks, conflicts>>
        /\ \/ pc = "resolve" /\ pc' = "resolving"
           \/ pc = "resolving" /\ pc' = "completingResolved"
    BY <1>5 DEF BeginResolve, Resolved
  <2>2. WaitingForABatch' = WaitingForABatch
    BY <1>1, <2>1 DEF WaitingForABatch
  <2>3. StepsLeft' < StepsLeft
    BY <1>3, <2>1 DEF StepsLeft, Step, Merging, Resolving
  <2>4. RetriesLeft' = RetriesLeft
    BY <2>1, RetriesStay
  <2>. QED
    BY <1>1, <1>3, <1>4, <2>2, <2>3, <2>4, BatchWears
<1>6. CASE DropConflict \/ ResolutionRefused \/ CompleteResolved
  <2>1. /\ conflicts' = Tail(conflicts) /\ pc' = "resolve"
        /\ pc \in {"resolve", "resolving", "completingResolved"}
    BY <1>6 DEF DropConflict, ResolutionRefused, CompleteResolved
  <2>2. StepsLeft' < StepsLeft
    <3>1. StepsLeft' = 3 * Len(conflicts') + 2 /\ Len(conflicts') = Len(conflicts) - 1
      BY <1>3, <2>1 DEF StepsLeft, Step, Merging, Resolving
    <3>2. StepsLeft = 3 * Len(conflicts) + Step /\ Step \in Nat
      BY <2>1 DEF StepsLeft, Step, Merging, Resolving
    <3>. QED
      BY <1>3, <3>1, <3>2
  <2>3. /\ RetriesLeft' <= RetriesLeft
        /\ RetriesLeft' < RetriesLeft \/ retryTasks' = retryTasks
    <3>1. CASE ResolutionRefused
      <4>1. HandleMergeFailure(t, MarkLast(t, "rolled-back"))
        BY <3>1 DEF ResolutionRefused
      <4>. QED
        BY <1>1, <1>2, <4>1, FailureWears
    <3>2. CASE DropConflict \/ CompleteResolved
      <4>1. /\ retryTasks' = retryTasks
            /\ \/ SetTracker(t, "open") /\ requeueCounts' = requeueCounts
               \/ /\ SetTracker(t, "completed")
                  /\ requeueCounts' = [requeueCounts EXCEPT ![t] = 0]
        BY <3>2 DEF DropConflict, CompleteResolved, GiveUp, Complete
      <4>. QED
        BY <1>2, <4>1, RetriesOfOne
    <3>. QED
      BY <1>6, <3>1, <3>2
  <2>4. retryTasks' = retryTasks => WaitingForABatch' = WaitingForABatch
    BY <1>1 DEF WaitingForABatch
  <2>. QED
    BY <1>1, <1>4, <2>2, <2>3, <2>4, BatchWears
<1>. QED
  BY <1>5, <1>6

LEMMA CleanupStepWears ==
    ASSUME IInv, IInv', Cleanup
    PROVE  <<Left', Left>> \in Less
<1>1. /\ pc = "cleanup" /\ pc' = "done"
      /\ UNCHANGED <<asked, requeueCounts, pending, retryTasks>>
  BY DEF Cleanup, groupVars, mergeVars
<1>2. GroupsLeft' = GroupsLeft
  BY <1>1 DEF GroupsLeft, InGroup, Setup, Merging, Resolving
<1>3. Len(pending) \in Nat
  BY DEF IInv, TypeOK
<1>4. StagesLeft' < StagesLeft
  BY <1>1, <1>3 DEF StagesLeft, WaitingForABatch, Stage, Merging, Resolving
<1>. QED
  BY <1>1, <1>2, <1>4, RetriesStay, LeftIsLess

(* The user's calls neither wear an execution out nor renew it. *)
LEMMA CallsLeave ==
    ASSUME IInv, UserCall
    PROVE  Left' = Left
<1>1. UNCHANGED <<graph, resolves, asked, requeueCounts, groups, groupIndex, pending, batch,
                  index, retryTasks, conflicts, pc>>
  BY DEF UserCall, Stop, StopSettles, Pause, Resume, planVars, groupVars, mergeVars
<1>2. \A t \in Task : Active(t)' <=> Active(t)
  <2>1. worker \in [Task -> WorkerStatus]
    BY DEF IInv, TypeOK
  <2>2. CASE Stop
    BY <2>1, <2>2 DEF Stop, ForActiveWorkers, StopWorker, WorkerStatus, Active
  <2>3. CASE StopSettles
    BY <2>3 DEF StopSettles, workerVars, Active
  <2>4. CASE Pause
    BY <2>1, <2>4 DEF Pause, ForActiveWorkers, PauseWorker, WorkerStatus, Active
  <2>5. CASE Resume
    BY <2>1, <2>5 DEF Resume, ForActiveWorkers, ResumeWorker, WorkerStatus, Active
  <2>. QED
    BY <2>2, <2>3, <2>4, <2>5 DEF UserCall
<1>3. StillActive' = StillActive
  BY <1>2 DEF StillActive
<1>4. GroupsLeft' = GroupsLeft /\ StagesLeft' = StagesLeft
  BY <1>1 DEF GroupsLeft, StagesLeft, WaitingForABatch, Stage
<1>5. StepsLeft' = StepsLeft
  BY <1>1, <1>3 DEF StepsLeft, Step
<1>6. RetriesLeft' = RetriesLeft
  BY <1>1, RetriesStay
<1>. QED
  BY <1>4, <1>5, <1>6 DEF Left

(* The steps an execution takes by itself. *)
OwnStep == ExecutorStep \/ \E t \in Task : WorkerEnds(t)

(* An execution cannot go on for ever: what is left of it, which is a point of a  *)
(* well-founded order, falls with each of its own steps and is untouched by the   *)
(* user's calls, for every graph, outcome, conflict, retry and failure (execute,  *)
(* executeGroup, executeBatch, handleMergeFailure).  Together with the fairness   *)
(* of its awaits this is why ExecutionEnds holds.                               *)
THEOREM ExecutionWearsOut ==
    /\ IsWellFoundedOn(Less, [1..4 -> Nat])
    /\ Spec => [](Left \in [1..4 -> Nat])
    /\ Spec => [][/\ OwnStep => <<Left', Left>> \in Less
                  /\ UserCall => Left' = Left]_vars
<1>1. IInv => Left \in [1..4 -> Nat]
  BY LeftTyped DEF Left, LeftType
<1>2. IInv /\ [Next]_vars => IInv'
  BY InvariantKept
<1>3. IInv /\ IInv' => (OwnStep => <<Left', Left>> \in Less)
  BY PlanWears, SetupWears, MergeWears, ResolveWears, CleanupStepWears DEF OwnStep, ExecutorStep
<1>4. IInv => (UserCall => Left' = Left)
  BY CallsLeave
<1>. QED
  BY <1>1, <1>3, <1>4, LessIsWellFounded, Invariant, PTL DEF Spec
=============================================================================
