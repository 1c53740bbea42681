------------------------------ MODULE SetProofs ------------------------------
(***************************************************************************)
(* Proofs about Tree.tla and SetProgram.tla: what the recursive functions   *)
(* of the tree compute, what rotations, insertions and removals keep, and   *)
(* from that the properties of the program over the set.                    *)
(***************************************************************************)
EXTENDS SetProgram, FiniteSetTheorems, WellFoundedInduction, TLAPS

-----------------------------------------------------------------------------
(* Numbers *)

\* A set of naturals that has an element has a least one.
LEMMA LeastElement ==
  ASSUME NEW T \in SUBSET Nat, T # {}
  PROVE  \E m \in T : \A k \in T : m <= k
<1> DEFINE U == {0..t : t \in T}
<1>1. IsWellFoundedOn(StrictSubsetOrdering(Nat), FiniteSubsetsOf(Nat))
  BY FS_StrictSubsetOrderingWellFounded
<1>2. U \subseteq FiniteSubsetsOf(Nat) /\ U # {}
  <2>1. \A t \in T : 0..t \in SUBSET Nat /\ IsFiniteSet(0..t)
    BY FS_Interval
  <2> QED
    BY <2>1 DEF FiniteSubsetsOf
<1> HIDE DEF U
<1>3. PICK u \in U : \A v \in U : <<v, u>> \notin StrictSubsetOrdering(Nat)
  BY <1>1, <1>2, WFMin
<1>4. PICK m \in T : u = 0..m
  BY <1>3 DEF U
<1>5. ASSUME NEW k \in T, k < m PROVE FALSE
  <2>1. 0..k \in U
    BY DEF U
  <2>2. <<0..k, u>> \in StrictSubsetOrdering(Nat)
    BY <1>4, <1>5 DEF StrictSubsetOrdering
  <2> QED
    BY <1>3, <2>1, <2>2
<1> QED
  BY <1>5

\* Every natural is in a set that holds 0 and with each number the next.
LEMMA ByInduction ==
  ASSUME NEW T \in SUBSET Nat, 0 \in T, \A k \in T : k + 1 \in T
  PROVE  T = Nat
<1> DEFINE U == Nat \ T
<1> SUFFICES ASSUME U # {} PROVE FALSE
  OBVIOUS
<1>1. U \in SUBSET Nat
  OBVIOUS
<1> HIDE DEF U
<1>2. PICK m \in U : \A k \in U : m <= k
  BY <1>1, LeastElement
<1> USE DEF U
<1>3. m \in Nat /\ m \notin T /\ m # 0
  OBVIOUS
<1>4. m - 1 \in Nat /\ ~(m <= m - 1)
  BY <1>3
<1>5. m - 1 \in T
  BY <1>2, <1>4
<1> QED
  BY <1>3, <1>4, <1>5

-----------------------------------------------------------------------------
(* The trees *)

\* The nodes over subtrees of T.
NodesOver(T) == [data : Int, lhs : T, rhs : T, height : Nat]

\* A node is neither of the two pointers that lead to none.
LEMMA NodeNotNull ==
  ASSUME NEW T, NEW n \in NodesOver(T) PROVE n # NULL /\ n # CRASH
<1>1. DOMAIN n = {"data", "lhs", "rhs", "height"}
  BY DEF NodesOver
<1>2. DOMAIN NULL = {"null"} /\ DOMAIN CRASH = {"crash"}
  BY DEF NULL, CRASH
<1>3. "data" \in DOMAIN n /\ "data" \notin DOMAIN NULL /\ "data" \notin DOMAIN CRASH
  BY <1>1, <1>2
<1> QED
  BY <1>3

LEMMA NullNotCrash == NULL # CRASH
<1>1. DOMAIN NULL = {"null"} /\ DOMAIN CRASH = {"crash"}
  BY DEF NULL, CRASH
<1> QED
  BY <1>1

\* g gives the trees up to n levels.
Levels(n, g) ==
    /\ DOMAIN g = 0..n
    /\ g[0] = {NULL}
    /\ \A k \in 0..(n - 1) : g[k + 1] = {NULL} \cup NodesOver(g[k])

LEMMA LevelsExist ==
  ASSUME NEW n \in Nat PROVE \E g : Levels(n, g)
<1> DEFINE T == {k \in Nat : \E g : Levels(k, g)}
<1>1. 0 \in T
  <2>1. Levels(0, [k \in 0..0 |-> {NULL}])
    BY DEF Levels
  <2> QED
    BY <2>1
<1>2. ASSUME NEW k \in T PROVE k + 1 \in T
  <2>1. k \in Nat /\ k + 1 \in Nat
    OBVIOUS
  <2>2. PICK g : Levels(k, g)
    OBVIOUS
  <2> DEFINE new == {NULL} \cup NodesOver(g[k])
  <2> HIDE DEF new
  <2> DEFINE h == [j \in 0..(k + 1) |-> IF j = k + 1 THEN new ELSE g[j]]
  <2>3. h[0] = {NULL}
    BY <2>1, <2>2 DEF Levels
  <2>4. ASSUME NEW j \in 0..k PROVE h[j + 1] = {NULL} \cup NodesOver(h[j])
    <3>1. h[j] = g[j]
      BY <2>1
    <3>2. CASE j = k
      BY <2>1, <3>1, <3>2 DEF new
    <3>3. CASE j # k
      <4>1. j \in 0..(k - 1) /\ j + 1 \in 0..(k + 1) /\ j + 1 # k + 1
        BY <2>1, <3>3
      <4>2. h[j + 1] = g[j + 1]
        BY <4>1
      <4> QED
        BY <2>2, <3>1, <4>1, <4>2 DEF Levels
    <3> QED
      BY <3>2, <3>3
  <2>5. (k + 1) - 1 = k /\ DOMAIN h = 0..(k + 1)
    BY <2>1
  <2> HIDE DEF h
  <2>6. Levels(k + 1, h)
    BY <2>3, <2>4, <2>5 DEF Levels
  <2> QED
    BY <2>1, <2>6
<1>3. T \in SUBSET Nat
  OBVIOUS
<1> HIDE DEF T
<1>4. T = Nat
  BY <1>1, <1>2, <1>3, ByInduction
<1> QED
  BY <1>4 DEF T

LEMMA LevelsAgree ==
  ASSUME NEW n \in Nat, NEW m \in Nat, NEW g, NEW h, Levels(n, g), Levels(m, h)
  PROVE  \A k \in Nat : k <= n /\ k <= m => g[k] = h[k]
<1> DEFINE T == {k \in Nat : k <= n /\ k <= m => g[k] = h[k]}
<1>1. 0 \in T
  BY DEF Levels
<1>2. ASSUME NEW k \in T PROVE k + 1 \in T
  <2> SUFFICES ASSUME k + 1 <= n, k + 1 <= m PROVE g[k + 1] = h[k + 1]
    OBVIOUS
  <2>1. k \in 0..(n - 1) /\ k \in 0..(m - 1) /\ k <= n /\ k <= m
    OBVIOUS
  <2> QED
    BY <2>1 DEF Levels
<1>3. T \in SUBSET Nat
  OBVIOUS
<1> HIDE DEF T
<1>4. T = Nat
  BY <1>1, <1>2, <1>3, ByInduction
<1> QED
  BY <1>4 DEF T

\* What Trees is defined to be.
LEMMA TreesIs ==
  /\ Trees[0] = {NULL}
  /\ \A k \in Nat : Trees[k + 1] = {NULL} \cup NodesOver(Trees[k])
<1> DEFINE f == [k \in Nat |-> (CHOOSE g : Levels(k, g))[k]]
<1>1. \A k \in Nat : Levels(k, CHOOSE g : Levels(k, g))
  BY LevelsExist
<1>2. f[0] = {NULL}
  BY <1>1 DEF Levels
<1>3. ASSUME NEW k \in Nat PROVE f[k + 1] = {NULL} \cup NodesOver(f[k])
  <2>1. PICK g : g = CHOOSE x : Levels(k, x)
    OBVIOUS
  <2>2. PICK h : h = CHOOSE x : Levels(k + 1, x)
    OBVIOUS
  <2>3. k + 1 \in Nat /\ (k + 1) - 1 = k /\ k \in 0..k /\ k <= k + 1
    OBVIOUS
  <2>4. Levels(k, g) /\ Levels(k + 1, h)
    BY <1>1, <2>1, <2>2, <2>3
  <2>5. h[k] = g[k]
    BY <2>3, <2>4, LevelsAgree
  <2>6. h[k + 1] = {NULL} \cup NodesOver(h[k])
    BY <2>3, <2>4 DEF Levels
  <2>7. f[k] = g[k] /\ f[k + 1] = h[k + 1]
    BY <2>1, <2>2, <2>3
  <2> QED
    BY <2>5, <2>6, <2>7
<1>4. f = [k \in Nat |-> IF k = 0 THEN {NULL} ELSE {NULL} \cup NodesOver(f[k - 1])]
  <2>1. ASSUME NEW k \in Nat, k # 0 PROVE f[k] = {NULL} \cup NodesOver(f[k - 1])
    <3>1. PICK j \in Nat : j = k - 1 /\ k = j + 1
      BY <2>1
    <3> HIDE DEF f
    <3> QED
      BY <1>3, <3>1
  <2> HIDE DEF f
  <2>2. f = [k \in Nat |-> f[k]]
    BY DEF f
  <2> QED
    BY <1>2, <2>1, <2>2
<1>5. Trees = [k \in Nat |-> IF k = 0 THEN {NULL} ELSE {NULL} \cup NodesOver(Trees[k - 1])]
  <2> HIDE DEF f
  <2> QED
    BY <1>4 DEF Trees, NodesOver
<1>6. ASSUME NEW k \in Nat PROVE Trees[k + 1] = {NULL} \cup NodesOver(Trees[k])
  <2>1. k + 1 \in Nat /\ k + 1 # 0 /\ (k + 1) - 1 = k
    OBVIOUS
  <2> QED
    BY <1>5, <2>1
<1> QED
  BY <1>5, <1>6

\* The trees of any number of levels, and their nodes.
AnyTree == UNION {Trees[k] : k \in Nat}
AnyNode == NodesOver(AnyTree)

\* The subtrees of a tree of k + 1 levels have k, and k levels are also k + 1.
LEMMA TreesNested ==
  ASSUME NEW k \in Nat
  PROVE  /\ NULL \in Trees[k]
         /\ Trees[k] \subseteq Trees[k + 1]
         /\ \A t \in Trees[k] : t # NULL =>
               t \in AnyNode /\ t.lhs \in Trees[k] /\ t.rhs \in Trees[k]
<1> DEFINE T == {j \in Nat : Trees[j] \subseteq Trees[j + 1]}
<1>1. \A j \in Nat : NULL \in Trees[j]
  <2> DEFINE U == {j \in Nat : NULL \in Trees[j]}
  <2>1. 0 \in U /\ (\A j \in U : j + 1 \in U) /\ U \in SUBSET Nat
    BY TreesIs
  <2> HIDE DEF U
  <2>2. U = Nat
    BY <2>1, ByInduction
  <2> QED
    BY <2>2 DEF U
<1>2. 0 \in T
  BY <1>1, TreesIs
<1>3. ASSUME NEW j \in T PROVE j + 1 \in T
  <2>1. j \in Nat /\ j + 1 \in Nat /\ Trees[j] \subseteq Trees[j + 1]
    OBVIOUS
  <2>2. NodesOver(Trees[j]) \subseteq NodesOver(Trees[j + 1])
    BY <2>1 DEF NodesOver
  <2> QED
    BY <2>1, <2>2, TreesIs
<1>4. T \in SUBSET Nat
  OBVIOUS
<1> HIDE DEF T
<1>5. T = Nat
  BY <1>2, <1>3, <1>4, ByInduction
<1>6. \A j \in Nat : Trees[j] \subseteq Trees[j + 1]
  BY <1>5 DEF T
<1>7. \A t \in Trees[k] : t # NULL => t \in NodesOver(Trees[k])
  BY <1>6, TreesIs
<1>8. NodesOver(Trees[k]) \subseteq AnyNode
  BY DEF NodesOver, AnyNode, AnyTree
<1> QED
  BY <1>1, <1>6, <1>7, <1>8 DEF NodesOver

LEMMA TreesGrow ==
  ASSUME NEW k \in Nat, NEW m \in Nat, k <= m
  PROVE  Trees[k] \subseteq Trees[m]
<1> DEFINE T == {j \in Nat : Trees[k] \subseteq Trees[k + j]}
<1>1. 0 \in T
  OBVIOUS
<1>2. ASSUME NEW j \in T PROVE j + 1 \in T
  <2>1. k + j \in Nat /\ (k + j) + 1 = k + (j + 1) /\ Trees[k] \subseteq Trees[k + j]
    OBVIOUS
  <2>2. Trees[k + j] \subseteq Trees[(k + j) + 1]
    BY <2>1, TreesNested
  <2> QED
    BY <2>1, <2>2
<1>3. T \in SUBSET Nat
  OBVIOUS
<1> HIDE DEF T
<1>4. T = Nat
  BY <1>1, <1>2, <1>3, ByInduction
<1>5. m - k \in T /\ k + (m - k) = m
  BY <1>4
<1> QED
  BY <1>5 DEF T

\* A tree is null or a node over trees.
LEMMA TreeIs ==
  /\ AnyTree = {NULL} \cup AnyNode
  /\ NULL \notin AnyNode /\ CRASH \notin AnyTree /\ NULL # CRASH
<1>1. AnyTree \subseteq {NULL} \cup AnyNode
  BY TreesNested DEF AnyTree
<1>2. NULL \in AnyTree
  BY TreesIs DEF AnyTree
<1>3. ASSUME NEW n \in AnyNode PROVE n \in AnyTree
  <2>1. PICK i \in Nat, j \in Nat : n.lhs \in Trees[i] /\ n.rhs \in Trees[j]
    BY DEF AnyNode, AnyTree, NodesOver
  <2>2. PICK k \in Nat : i <= k /\ j <= k
    <3>1. i <= i + j /\ j <= i + j /\ i + j \in Nat
      OBVIOUS
    <3> QED
      BY <3>1
  <2>3. n.lhs \in Trees[k] /\ n.rhs \in Trees[k]
    BY <2>1, <2>2, TreesGrow
  <2>4. n \in NodesOver(Trees[k])
    BY <2>3 DEF AnyNode, NodesOver
  <2> QED
    BY <2>4, TreesIs DEF AnyTree
<1>4. NULL \notin AnyNode /\ CRASH \notin AnyNode
  BY NodeNotNull DEF AnyNode
<1> QED
  BY <1>1, <1>2, <1>3, <1>4, NullNotCrash

LEMMA NodeParts ==
  ASSUME NEW n \in AnyNode
  PROVE  /\ n.data \in Int /\ n.height \in Nat
         /\ n.lhs \in AnyTree /\ n.rhs \in AnyTree
         /\ n \in AnyTree /\ n # NULL /\ n # CRASH
BY TreeIs DEF AnyNode, NodesOver

\* A set that holds null, and with two trees every node over them, holds all.
LEMMA TreeInduction ==
  ASSUME NEW X, NULL \in X,
         \A n \in AnyNode : n.lhs \in X /\ n.rhs \in X => n \in X
  PROVE  AnyTree \subseteq X
<1> DEFINE T == {k \in Nat : Trees[k] \subseteq X}
<1>1. 0 \in T
  BY TreesIs
<1>2. ASSUME NEW k \in T PROVE k + 1 \in T
  <2>1. k \in Nat /\ k + 1 \in Nat /\ Trees[k] \subseteq X
    OBVIOUS
  <2>2. ASSUME NEW n \in NodesOver(Trees[k]) PROVE n \in X
    <3>1. n \in AnyNode /\ n.lhs \in Trees[k] /\ n.rhs \in Trees[k]
      BY <2>1 DEF NodesOver, AnyNode, AnyTree
    <3> QED
      BY <2>1, <3>1
  <2> QED
    BY <2>1, <2>2, TreesIs
<1>3. T \in SUBSET Nat
  OBVIOUS
<1> HIDE DEF T
<1>4. T = Nat
  BY <1>1, <1>2, <1>3, ByInduction
<1> QED
  BY <1>4 DEF T, AnyTree

\* The same for the trees that calloc has the nodes for.
LEMMA AllTreesAre ==
  /\ AllTrees \subseteq AnyTree /\ NULL \in AllTrees
  /\ \A n \in AllTrees : n # NULL =>
        n \in AnyNode /\ n.lhs \in AllTrees /\ n.rhs \in AllTrees
BY TreesNested, TreeAssumption DEF AllTrees, AnyTree

LEMMA AllTreesInduction ==
  ASSUME NEW X, NULL \in X,
         \A n \in AllTrees \ {NULL} : n.lhs \in X /\ n.rhs \in X => n \in X
  PROVE  AllTrees \subseteq X
<1> DEFINE Y == {t \in AnyTree : t \in AllTrees => t \in X}
<1>1. NULL \in Y
  BY TreeIs
<1>2. ASSUME NEW n \in AnyNode, n.lhs \in Y, n.rhs \in Y PROVE n \in Y
  <2>1. n \in AnyTree /\ n # NULL
    BY NodeParts
  <2> SUFFICES ASSUME n \in AllTrees PROVE n \in X
    BY <2>1
  <2>2. n.lhs \in AllTrees /\ n.rhs \in AllTrees
    BY <2>1, AllTreesAre
  <2> QED
    BY <1>2, <2>1, <2>2
<1> HIDE DEF Y
<1>3. AnyTree \subseteq Y
  BY <1>1, <1>2, TreeInduction
<1> QED
  BY <1>3, AllTreesAre DEF Y

-----------------------------------------------------------------------------
(* Functions defined by recursion over trees *)

\* g computes on the trees of at most k levels what Step says: Step[n][a][b]
\* is the value of a node n whose subtrees have the values a and b.
Computes(g, T, V, base, Step) ==
    /\ g \in [T -> V]
    /\ g[NULL] = base
    /\ \A n \in T \ {NULL} : g[n] = Step[n][g[n.lhs]][g[n.rhs]]

LEMMA LevelComputes ==
  ASSUME NEW V, NEW base \in V, NEW Step \in [AnyNode -> [V -> [V -> V]]],
         NEW k \in Nat
  PROVE  \E g : Computes(g, Trees[k], V, base, Step)
<1> DEFINE T == {j \in Nat : \E g : Computes(g, Trees[j], V, base, Step)}
<1>1. 0 \in T
  <2>1. Computes([t \in Trees[0] |-> base], Trees[0], V, base, Step)
    BY TreesIs DEF Computes
  <2> QED
    BY <2>1
<1>2. ASSUME NEW j \in T PROVE j + 1 \in T
  <2>1. j \in Nat /\ j + 1 \in Nat
    OBVIOUS
  <2>2. PICK g : Computes(g, Trees[j], V, base, Step)
    OBVIOUS
  <2> DEFINE New == Trees[j + 1]
             val(n) == Step[n][g[n.lhs]][g[n.rhs]]
             h == [t \in New |-> IF t = NULL THEN base ELSE val(t)]
  <2>3. ASSUME NEW n \in New \ {NULL}
        PROVE  n \in AnyNode /\ n.lhs \in Trees[j] /\ n.rhs \in Trees[j]
    <3>1. n \in NodesOver(Trees[j])
      BY <2>1, TreesIs
    <3> QED
      BY <2>1, <3>1, TreesNested DEF NodesOver
  <2>4. ASSUME NEW n \in New \ {NULL} PROVE val(n) \in V
    <3>1. g[n.lhs] \in V /\ g[n.rhs] \in V
      BY <2>2, <2>3 DEF Computes
    <3> QED
      BY <2>3, <3>1
  <2>5. NULL \in New /\ Trees[j] \subseteq New
    BY <2>1, TreesNested
  <2>6. ASSUME NEW t \in Trees[j] PROVE h[t] = g[t]
    <3>1. CASE t = NULL
      BY <2>2, <2>5, <3>1 DEF Computes
    <3>2. CASE t # NULL
      <4>1. h[t] = val(t)
        BY <2>5, <3>2
      <4>2. g[t] = val(t)
        BY <2>2, <3>2 DEF Computes
      <4> QED
        BY <4>1, <4>2
    <3> QED
      BY <3>1, <3>2
  <2>7. h \in [New -> V] /\ h[NULL] = base
    <3> HIDE DEF New
    <3>1. \A t \in New : t # NULL => val(t) \in V
      BY <2>4
    <3> HIDE DEF val
    <3> QED
      BY <2>5, <3>1
  <2>8. ASSUME NEW n \in New \ {NULL} PROVE h[n] = Step[n][h[n.lhs]][h[n.rhs]]
    <3>1. h[n] = val(n)
      OBVIOUS
    <3> HIDE DEF h
    <3> QED
      BY <2>3, <2>6, <3>1
  <2> HIDE DEF h
  <2>9. Computes(h, New, V, base, Step)
    BY <2>7, <2>8 DEF Computes
  <2> QED
    BY <2>1, <2>9
<1>3. T \in SUBSET Nat
  OBVIOUS
<1> HIDE DEF T
<1>4. T = Nat
  BY <1>1, <1>2, <1>3, ByInduction
<1> QED
  BY <1>4 DEF T

\* There is one function on all trees that computes it.
LEMMA TreeRecursion ==
  ASSUME NEW V, NEW base \in V, NEW Step \in [AnyNode -> [V -> [V -> V]]]
  PROVE  \E g : Computes(g, AnyTree, V, base, Step)
<1> DEFINE level(k) == CHOOSE g : Computes(g, Trees[k], V, base, Step)
           X == {t \in AnyTree : \A i, j \in Nat :
                    t \in Trees[i] /\ t \in Trees[j] => level(i)[t] = level(j)[t]}
           g == [t \in AnyTree |-> level(CHOOSE k \in Nat : t \in Trees[k])[t]]
<1>1. \A k \in Nat : Computes(level(k), Trees[k], V, base, Step)
  BY LevelComputes
<1> HIDE DEF level
<1>2. NULL \in X
  BY <1>1, TreeIs DEF Computes
<1>3. ASSUME NEW n \in AnyNode, n.lhs \in X, n.rhs \in X PROVE n \in X
  <2>1. n \in AnyTree /\ n # NULL
    BY NodeParts
  <2> SUFFICES ASSUME NEW i \in Nat, NEW j \in Nat, n \in Trees[i], n \in Trees[j]
               PROVE  level(i)[n] = level(j)[n]
    BY <2>1
  <2>2. /\ n.lhs \in Trees[i] /\ n.rhs \in Trees[i]
        /\ n.lhs \in Trees[j] /\ n.rhs \in Trees[j]
    BY <2>1, TreesNested
  <2>3. level(i)[n.lhs] = level(j)[n.lhs] /\ level(i)[n.rhs] = level(j)[n.rhs]
    BY <1>3, <2>2
  <2>4. /\ level(i)[n] = Step[n][level(i)[n.lhs]][level(i)[n.rhs]]
        /\ level(j)[n] = Step[n][level(j)[n.lhs]][level(j)[n.rhs]]
    BY <1>1, <2>1 DEF Computes
  <2> QED
    BY <2>3, <2>4
<1>4. AnyTree \subseteq X
  <2> HIDE DEF X
  <2> QED
    BY <1>2, <1>3, TreeInduction
<1>5. ASSUME NEW k \in Nat, NEW t \in Trees[k] PROVE g[t] = level(k)[t]
  <2>1. t \in AnyTree
    BY DEF AnyTree
  <2>2. PICK m : m = CHOOSE j \in Nat : t \in Trees[j]
    OBVIOUS
  <2>3. m \in Nat /\ t \in Trees[m]
    BY <2>2
  <2>4. level(m)[t] = level(k)[t]
    BY <1>4, <2>1, <2>3
  <2>5. g[t] = level(m)[t]
    BY <2>1, <2>2
  <2> QED
    BY <2>4, <2>5
<1>6. ASSUME NEW t \in AnyTree PROVE g[t] \in V
  <2>1. PICK k \in Nat : t \in Trees[k]
    BY DEF AnyTree
  <2>2. level(k)[t] \in V
    BY <1>1, <2>1 DEF Computes
  <2> HIDE DEF g
  <2> QED
    BY <1>5, <2>1, <2>2
<1>7. ASSUME NEW n \in AnyTree \ {NULL} PROVE g[n] = Step[n][g[n.lhs]][g[n.rhs]]
  <2> HIDE DEF g
  <2>1. PICK k \in Nat : n \in Trees[k]
    BY DEF AnyTree
  <2>2. n.lhs \in Trees[k] /\ n.rhs \in Trees[k]
    BY <2>1, TreesNested
  <2>3. level(k)[n] = Step[n][level(k)[n.lhs]][level(k)[n.rhs]]
    BY <1>1, <2>1 DEF Computes
  <2> QED
    BY <1>5, <2>1, <2>2, <2>3
<1>8. g[NULL] = base
  <2> HIDE DEF g
  <2>1. NULL \in Trees[0] /\ level(0)[NULL] = base
    BY <1>1, TreesIs DEF Computes
  <2> QED
    BY <1>5, <2>1
<1>9. g \in [AnyTree -> V]
  <2>1. g = [t \in AnyTree |-> g[t]]
    OBVIOUS
  <2> HIDE DEF g
  <2> QED
    BY <1>6, <2>1
<1> HIDE DEF g
<1>10. Computes(g, AnyTree, V, base, Step)
  BY <1>7, <1>8, <1>9 DEF Computes
<1> QED
  BY <1>10

-----------------------------------------------------------------------------
(* Measures of a tree: its nodes, numbers, size and depth *)

SubOf == CHOOSE g : Computes(g, AnyTree, SUBSET AnyNode, {},
    [n \in AnyNode |-> [a \in SUBSET AnyNode |-> [b \in SUBSET AnyNode |->
        {n} \cup a \cup b]]])

DataOf == CHOOSE g : Computes(g, AnyTree, SUBSET Int, {},
    [n \in AnyNode |-> [a \in SUBSET Int |-> [b \in SUBSET Int |->
        {n.data} \cup a \cup b]]])

SizeOf == CHOOSE g : Computes(g, AnyTree, Nat, 0,
    [n \in AnyNode |-> [a \in Nat |-> [b \in Nat |-> 1 + a + b]]])

DepOf == CHOOSE g : Computes(g, AnyTree, Nat, 0,
    [n \in AnyNode |-> [a \in Nat |-> [b \in Nat |-> 1 + max(a, b)]]])

LEMMA SubIs ==
  /\ SubOf \in [AnyTree -> SUBSET AnyNode]
  /\ SubOf[NULL] = {}
  /\ \A n \in AnyNode : SubOf[n] = {n} \cup SubOf[n.lhs] \cup SubOf[n.rhs]
<1> DEFINE V == SUBSET AnyNode
           Step == [n \in AnyNode |-> [a \in V |-> [b \in V |-> {n} \cup a \cup b]]]
<1>1. Step \in [AnyNode -> [V -> [V -> V]]] /\ {} \in V
  OBVIOUS
<1>2. \A n \in AnyNode : \A a, b \in V : Step[n][a][b] = {n} \cup a \cup b
  OBVIOUS
<1>3. SubOf = CHOOSE g : Computes(g, AnyTree, V, {}, Step)
  BY DEF SubOf
<1> HIDE DEF V, Step
<1>4. Computes(SubOf, AnyTree, V, {}, Step)
  BY <1>1, <1>3, TreeRecursion
<1> QED
  BY <1>2, <1>4, NodeParts DEF Computes, V

LEMMA DataIs ==
  /\ DataOf \in [AnyTree -> SUBSET Int]
  /\ DataOf[NULL] = {}
  /\ \A n \in AnyNode : DataOf[n] = {n.data} \cup DataOf[n.lhs] \cup DataOf[n.rhs]
<1> DEFINE V == SUBSET Int
           Step == [n \in AnyNode |-> [a \in V |-> [b \in V |-> {n.data} \cup a \cup b]]]
<1>1. Step \in [AnyNode -> [V -> [V -> V]]] /\ {} \in V
  BY NodeParts
<1>2. \A n \in AnyNode : \A a, b \in V : Step[n][a][b] = {n.data} \cup a \cup b
  OBVIOUS
<1>3. DataOf = CHOOSE g : Computes(g, AnyTree, V, {}, Step)
  BY DEF DataOf
<1> HIDE DEF V, Step
<1>4. Computes(DataOf, AnyTree, V, {}, Step)
  BY <1>1, <1>3, TreeRecursion
<1> QED
  BY <1>2, <1>4, NodeParts DEF Computes, V

LEMMA SizeIs ==
  /\ SizeOf \in [AnyTree -> Nat]
  /\ SizeOf[NULL] = 0
  /\ \A n \in AnyNode : SizeOf[n] = 1 + SizeOf[n.lhs] + SizeOf[n.rhs]
<1> DEFINE Step == [n \in AnyNode |-> [a \in Nat |-> [b \in Nat |-> 1 + a + b]]]
<1>1. Step \in [AnyNode -> [Nat -> [Nat -> Nat]]] /\ 0 \in Nat
  OBVIOUS
<1>2. \A n \in AnyNode : \A a, b \in Nat : Step[n][a][b] = 1 + a + b
  OBVIOUS
<1>3. SizeOf = CHOOSE g : Computes(g, AnyTree, Nat, 0, Step)
  BY DEF SizeOf
<1> HIDE DEF Step
<1>4. Computes(SizeOf, AnyTree, Nat, 0, Step)
  BY <1>1, <1>3, TreeRecursion
<1> QED
  BY <1>2, <1>4, NodeParts DEF Computes

LEMMA DepIs ==
  /\ DepOf \in [AnyTree -> Nat]
  /\ DepOf[NULL] = 0
  /\ \A n \in AnyNode : DepOf[n] = 1 + max(DepOf[n.lhs], DepOf[n.rhs])
<1> DEFINE Step == [n \in AnyNode |-> [a \in Nat |-> [b \in Nat |-> 1 + max(a, b)]]]
<1>1. Step \in [AnyNode -> [Nat -> [Nat -> Nat]]] /\ 0 \in Nat
  BY DEF max
<1>2. \A n \in AnyNode : \A a, b \in Nat : Step[n][a][b] = 1 + max(a, b)
  OBVIOUS
<1>3. DepOf = CHOOSE g : Computes(g, AnyTree, Nat, 0, Step)
  BY DEF DepOf
<1> HIDE DEF Step
<1>4. Computes(DepOf, AnyTree, Nat, 0, Step)
  BY <1>1, <1>3, TreeRecursion
<1> QED
  BY <1>2, <1>4, NodeParts DEF Computes

\* Subtrees and Depth give the nodes and the depth of a tree.
LEMMA SubtreesIs ==
  ASSUME NEW t \in AllTrees PROVE Subtrees(t) = SubOf[t]
<1> DEFINE F == CHOOSE f : f = [n \in AllTrees |->
                    IF n = NULL THEN {} ELSE {n} \cup f[n.lhs] \cup f[n.rhs]]
           g == [n \in AllTrees |-> SubOf[n]]
<1>1. g = [n \in AllTrees |-> IF n = NULL THEN {} ELSE {n} \cup g[n.lhs] \cup g[n.rhs]]
  BY AllTreesAre, SubIs
<1> HIDE DEF g
<1>2. F = [n \in AllTrees |-> IF n = NULL THEN {} ELSE {n} \cup F[n.lhs] \cup F[n.rhs]]
  BY <1>1
<1>3. \A n \in AllTrees : Subtrees(n) = F[n]
  BY DEF Subtrees
<1> HIDE DEF F
<1> DEFINE X == {n \in AllTrees : F[n] = SubOf[n]}
<1>4. NULL \in X
  BY <1>2, AllTreesAre, SubIs
<1>5. ASSUME NEW n \in AllTrees \ {NULL}, n.lhs \in X, n.rhs \in X PROVE n \in X
  BY <1>2, <1>5, AllTreesAre, SubIs
<1> HIDE DEF X
<1>6. AllTrees \subseteq X
  BY <1>4, <1>5, AllTreesInduction
<1> QED
  BY <1>3, <1>6 DEF X

LEMMA DepthIs ==
  ASSUME NEW t \in AllTrees PROVE Depth(t) = DepOf[t]
<1> DEFINE F == CHOOSE f : f = [n \in AllTrees |->
                    IF n = NULL THEN 0 ELSE 1 + max(f[n.lhs], f[n.rhs])]
           g == [n \in AllTrees |-> DepOf[n]]
<1>1. g = [n \in AllTrees |-> IF n = NULL THEN 0 ELSE 1 + max(g[n.lhs], g[n.rhs])]
  BY AllTreesAre, DepIs
<1> HIDE DEF g
<1>2. F = [n \in AllTrees |-> IF n = NULL THEN 0 ELSE 1 + max(F[n.lhs], F[n.rhs])]
  BY <1>1
<1>3. \A n \in AllTrees : Depth(n) = F[n]
  BY DEF Depth
<1> HIDE DEF F
<1> DEFINE X == {n \in AllTrees : F[n] = DepOf[n]}
<1>4. NULL \in X
  BY <1>2, AllTreesAre, DepIs
<1>5. ASSUME NEW n \in AllTrees \ {NULL}, n.lhs \in X, n.rhs \in X PROVE n \in X
  BY <1>2, <1>5, AllTreesAre, DepIs
<1> HIDE DEF X
<1>6. AllTrees \subseteq X
  BY <1>4, <1>5, AllTreesInduction
<1> QED
  BY <1>3, <1>6 DEF X

-----------------------------------------------------------------------------
(* What keeping the numbers in order means *)

\* The numbers left of a node are below its own, those right of it above.
Parted(n) ==
    /\ \A x \in DataOf[n.lhs] : x < n.data
    /\ \A x \in DataOf[n.rhs] : n.data < x

Sorted(t) == \A n \in SubOf[t] : Parted(n)

\* The height of a tree is its depth or one less.
Near(t) == height(t) \in {DepOf[t] - 1, DepOf[t]}

Lagging(t) == \A n \in SubOf[t] : Near(n)

\* The height of a node follows from those of its subtrees, which are at most
\* one apart; a leaf may still have the height of its allocation.
Fits(n) ==
    /\ \/ n.height = 1 + max(height(n.lhs), height(n.rhs))
       \/ n.lhs = NULL /\ n.rhs = NULL /\ n.height = 0
    /\ height(n.lhs) - height(n.rhs) \in {-1, 0, 1}

Even(t) == \A n \in SubOf[t] : Fits(n)

LEMMA SortedIs ==
  /\ Sorted(NULL)
  /\ \A n \in AnyNode : Sorted(n) <=> Sorted(n.lhs) /\ Sorted(n.rhs) /\ Parted(n)
<1> SUFFICES ASSUME NEW n \in AnyNode
             PROVE  Sorted(n) <=> Sorted(n.lhs) /\ Sorted(n.rhs) /\ Parted(n)
  BY SubIs DEF Sorted
<1>1. SubOf[n] = {n} \cup SubOf[n.lhs] \cup SubOf[n.rhs]
  BY SubIs
<1> QED
  BY <1>1 DEF Sorted

LEMMA LaggingIs ==
  /\ Lagging(NULL)
  /\ \A n \in AnyNode : Lagging(n) <=> Lagging(n.lhs) /\ Lagging(n.rhs) /\ Near(n)
<1> SUFFICES ASSUME NEW n \in AnyNode
             PROVE  Lagging(n) <=> Lagging(n.lhs) /\ Lagging(n.rhs) /\ Near(n)
  BY SubIs DEF Lagging
<1>1. SubOf[n] = {n} \cup SubOf[n.lhs] \cup SubOf[n.rhs]
  BY SubIs
<1> QED
  BY <1>1 DEF Lagging

LEMMA EvenIs ==
  /\ Even(NULL)
  /\ \A n \in AnyNode : Even(n) <=> Even(n.lhs) /\ Even(n.rhs) /\ Fits(n)
<1> SUFFICES ASSUME NEW n \in AnyNode
             PROVE  Even(n) <=> Even(n.lhs) /\ Even(n.rhs) /\ Fits(n)
  BY SubIs DEF Even
<1>1. SubOf[n] = {n} \cup SubOf[n.lhs] \cup SubOf[n.rhs]
  BY SubIs
<1> QED
  BY <1>1 DEF Even

LEMMA HeightIs ==
  /\ height(NULL) = 0
  /\ \A n \in AnyNode : height(n) = n.height
  /\ \A t \in AnyTree : height(t) \in Nat
BY TreeIs, NodeParts DEF height

\* A tree whose nodes lag is itself near its depth, null as well.
LEMMA LaggingIsNear ==
  ASSUME NEW t \in AnyTree, Lagging(t) PROVE Near(t)
BY TreeIs, HeightIs, DepIs, LaggingIs DEF Near

-----------------------------------------------------------------------------
(* Nodes made anew *)

Node(d, l, r, h) == [data |-> d, lhs |-> l, rhs |-> r, height |-> h]

\* A node whose height is 1 more than the greater height of its subtrees.
Above(d, l, r) == Node(d, l, r, 1 + max(height(l), height(r)))

LEMMA NodeIs ==
  ASSUME NEW d \in Int, NEW l \in AnyTree, NEW r \in AnyTree, NEW h \in Nat
  PROVE  /\ Node(d, l, r, h) \in AnyNode
         /\ Node(d, l, r, h).data = d /\ Node(d, l, r, h).height = h
         /\ Node(d, l, r, h).lhs = l /\ Node(d, l, r, h).rhs = r
BY DEF Node, AnyNode, NodesOver

LEMMA AboveIs ==
  ASSUME NEW d \in Int, NEW l \in AnyTree, NEW r \in AnyTree
  PROVE  /\ Above(d, l, r) \in AnyNode
         /\ Above(d, l, r).data = d
         /\ Above(d, l, r).lhs = l /\ Above(d, l, r).rhs = r
         /\ Above(d, l, r).height = 1 + max(height(l), height(r))
         /\ height(Above(d, l, r)) = 1 + max(height(l), height(r))
<1>1. 1 + max(height(l), height(r)) \in Nat
  BY HeightIs DEF max
<1> QED
  BY <1>1, NodeIs, HeightIs DEF Above

LEMMA ExceptIs ==
  ASSUME NEW n \in AnyNode, NEW t
  PROVE  /\ [n EXCEPT !.lhs = t] = Node(n.data, t, n.rhs, n.height)
         /\ [n EXCEPT !.rhs = t] = Node(n.data, n.lhs, t, n.height)
         /\ [n EXCEPT !.height = t] = Node(n.data, n.lhs, n.rhs, t)
BY DEF Node, AnyNode, NodesOver

LEMMA RaisedIs ==
  ASSUME NEW n \in AnyNode
  PROVE  Raised(n) = Above(n.data, n.lhs, n.rhs)
BY ExceptIs DEF Raised, Above

LEMMA RaisedNode ==
  ASSUME NEW d \in Int, NEW l \in AnyTree, NEW r \in AnyTree, NEW h \in Nat
  PROVE  Raised(Node(d, l, r, h)) = Above(d, l, r)
BY NodeIs, RaisedIs

\* The rotations, written out.
LEMMA RightRotateIs ==
  ASSUME NEW n \in AnyNode, n.lhs # NULL
  PROVE  /\ n.lhs \in AnyNode
         /\ right_rotate(n) =
              Above(n.lhs.data, n.lhs.lhs, Above(n.data, n.lhs.rhs, n.rhs))
<1> DEFINE l == n.lhs
           low == [n EXCEPT !.lhs = l.rhs]
<1>1. l \in AnyNode
  BY NodeParts, TreeIs
<1> HIDE DEF l
<1>2. low = Node(n.data, l.rhs, n.rhs, n.height)
  BY ExceptIs
<1> HIDE DEF low
<1>3. low \in AnyNode /\ Raised(low) = Above(n.data, l.rhs, n.rhs)
  <2>1. n.data \in Int /\ l.rhs \in AnyTree /\ n.rhs \in AnyTree /\ n.height \in Nat
    BY <1>1, NodeParts
  <2> QED
    BY <1>2, <2>1, NodeIs, RaisedNode
<1>4. Raised(low) \in AnyTree
  <2>1. n.data \in Int /\ l.rhs \in AnyTree /\ n.rhs \in AnyTree
    BY <1>1, NodeParts
  <2>2. Above(n.data, l.rhs, n.rhs) \in AnyNode
    BY <2>1, AboveIs
  <2> QED
    BY <1>3, <2>2, NodeParts
<1> DEFINE top == [l EXCEPT !.rhs = Raised(low)]
<1>5. top = Node(l.data, l.lhs, Raised(low), l.height)
  BY <1>1, ExceptIs
<1>6. right_rotate(n) = Raised(top)
  BY DEF right_rotate, l, low
<1> HIDE DEF top
<1>7. top \in AnyNode /\ Raised(top) = Above(l.data, l.lhs, Raised(low))
  <2>1. l.data \in Int /\ l.lhs \in AnyTree /\ l.height \in Nat
    BY <1>1, NodeParts
  <2> QED
    BY <1>4, <1>5, <2>1, NodeIs, RaisedNode
<1> QED
  BY <1>1, <1>3, <1>6, <1>7 DEF l

LEMMA LeftRotateIs ==
  ASSUME NEW n \in AnyNode, n.rhs # NULL
  PROVE  /\ n.rhs \in AnyNode
         /\ left_rotate(n) =
              Above(n.rhs.data, Above(n.data, n.lhs, n.rhs.lhs), n.rhs.rhs)
<1> DEFINE r == n.rhs
           low == [n EXCEPT !.rhs = r.lhs]
<1>1. r \in AnyNode
  BY NodeParts, TreeIs
<1> HIDE DEF r
<1>2. low = Node(n.data, n.lhs, r.lhs, n.height)
  BY ExceptIs
<1> HIDE DEF low
<1>3. low \in AnyNode /\ Raised(low) = Above(n.data, n.lhs, r.lhs)
  <2>1. n.data \in Int /\ r.lhs \in AnyTree /\ n.lhs \in AnyTree /\ n.height \in Nat
    BY <1>1, NodeParts
  <2> QED
    BY <1>2, <2>1, NodeIs, RaisedNode
<1>4. Raised(low) \in AnyTree
  <2>1. n.data \in Int /\ r.lhs \in AnyTree /\ n.lhs \in AnyTree
    BY <1>1, NodeParts
  <2>2. Above(n.data, n.lhs, r.lhs) \in AnyNode
    BY <2>1, AboveIs
  <2> QED
    BY <1>3, <2>2, NodeParts
<1> DEFINE top == [r EXCEPT !.lhs = Raised(low)]
<1>5. top = Node(r.data, Raised(low), r.rhs, r.height)
  BY <1>1, ExceptIs
<1>6. left_rotate(n) = Raised(top)
  BY DEF left_rotate, r, low
<1> HIDE DEF top
<1>7. top \in AnyNode /\ Raised(top) = Above(r.data, Raised(low), r.rhs)
  <2>1. r.data \in Int /\ r.rhs \in AnyTree /\ r.height \in Nat
    BY <1>1, NodeParts
  <2> QED
    BY <1>4, <1>5, <2>1, NodeIs, RaisedNode
<1> QED
  BY <1>1, <1>3, <1>6, <1>7 DEF r

\* What a node made anew holds, whatever its height.
LEMMA NodeHolds ==
  ASSUME NEW d \in Int, NEW l \in AnyTree, NEW r \in AnyTree, NEW h \in Nat
  PROVE  /\ DataOf[Node(d, l, r, h)] = {d} \cup DataOf[l] \cup DataOf[r]
         /\ SizeOf[Node(d, l, r, h)] = 1 + SizeOf[l] + SizeOf[r]
         /\ Sorted(Node(d, l, r, h)) <=>
               /\ Sorted(l) /\ Sorted(r)
               /\ \A x \in DataOf[l] : x < d
               /\ \A x \in DataOf[r] : d < x
<1> DEFINE n == Node(d, l, r, h)
<1>1. n \in AnyNode /\ n.data = d /\ n.lhs = l /\ n.rhs = r
  BY NodeIs
<1> HIDE DEF n
<1>2. /\ DataOf[n] = {d} \cup DataOf[l] \cup DataOf[r]
      /\ SizeOf[n] = 1 + SizeOf[l] + SizeOf[r]
      /\ Sorted(n) <=> Sorted(l) /\ Sorted(r) /\ Parted(n)
  BY <1>1, DataIs, SizeIs, SortedIs
<1>3. Parted(n) <=> (\A x \in DataOf[l] : x < d) /\ (\A x \in DataOf[r] : d < x)
  BY <1>1 DEF Parted
<1> QED
  BY <1>2, <1>3 DEF n

LEMMA AboveHolds ==
  ASSUME NEW d \in Int, NEW l \in AnyTree, NEW r \in AnyTree
  PROVE  /\ DataOf[Above(d, l, r)] = {d} \cup DataOf[l] \cup DataOf[r]
         /\ SizeOf[Above(d, l, r)] = 1 + SizeOf[l] + SizeOf[r]
         /\ Sorted(Above(d, l, r)) <=>
               /\ Sorted(l) /\ Sorted(r)
               /\ \A x \in DataOf[l] : x < d
               /\ \A x \in DataOf[r] : d < x
         /\ Lagging(l) /\ Lagging(r) => Lagging(Above(d, l, r))
         /\ Even(Above(d, l, r)) <=>
               Even(l) /\ Even(r) /\ height(l) - height(r) \in {-1, 0, 1}
<1> DEFINE h == 1 + max(height(l), height(r))
           n == Above(d, l, r)
<1>1. h \in Nat
  BY HeightIs DEF max
<1>2. n = Node(d, l, r, h)
  BY DEF Above
<1>3. n \in AnyNode /\ n.lhs = l /\ n.rhs = r /\ n.height = h
  BY AboveIs
<1> HIDE DEF n
<1>4. ASSUME Lagging(l), Lagging(r) PROVE Lagging(n)
  <2>1. Near(l) /\ Near(r) /\ DepOf[l] \in Nat /\ DepOf[r] \in Nat
    BY <1>4, LaggingIsNear, DepIs
  <2>2. DepOf[n] = 1 + max(DepOf[l], DepOf[r]) /\ height(n) = h
    BY <1>3, DepIs, HeightIs
  <2>3. Near(n)
    BY <2>1, <2>2, HeightIs DEF Near, max
  <2> QED
    BY <1>3, <1>4, <2>3, LaggingIs
<1>5. Even(n) <=> Even(l) /\ Even(r) /\ height(l) - height(r) \in {-1, 0, 1}
  <2>1. Fits(n) <=> height(l) - height(r) \in {-1, 0, 1}
    BY <1>3 DEF Fits
  <2> QED
    BY <1>3, <2>1, EvenIs
<1> HIDE DEF h
<1>6. /\ DataOf[n] = {d} \cup DataOf[l] \cup DataOf[r]
      /\ SizeOf[n] = 1 + SizeOf[l] + SizeOf[r]
      /\ Sorted(n) <=>
            /\ Sorted(l) /\ Sorted(r)
            /\ \A x \in DataOf[l] : x < d
            /\ \A x \in DataOf[r] : d < x
  <2>1. /\ DataOf[Node(d, l, r, h)] = {d} \cup DataOf[l] \cup DataOf[r]
        /\ SizeOf[Node(d, l, r, h)] = 1 + SizeOf[l] + SizeOf[r]
        /\ Sorted(Node(d, l, r, h)) <=>
              /\ Sorted(l) /\ Sorted(r)
              /\ \A x \in DataOf[l] : x < d
              /\ \A x \in DataOf[r] : d < x
    BY <1>1, NodeHolds
  <2> QED
    BY <1>2, <2>1
<1> QED
  BY <1>4, <1>5, <1>6 DEF n

LEMMA AboveCounts ==
  ASSUME NEW d \in Int, NEW l \in AnyTree, NEW r \in AnyTree
  PROVE  /\ DataOf[Above(d, l, r)] = {d} \cup DataOf[l] \cup DataOf[r]
         /\ SizeOf[Above(d, l, r)] = 1 + SizeOf[l] + SizeOf[r]
BY AboveHolds

LEMMA AboveSorted ==
  ASSUME NEW d \in Int, NEW l \in AnyTree, NEW r \in AnyTree,
         Sorted(l), Sorted(r),
         \A x \in DataOf[l] : x < d, \A x \in DataOf[r] : d < x
  PROVE  Sorted(Above(d, l, r))
BY AboveHolds

-----------------------------------------------------------------------------
(* What the rotations keep *)

\* b has the numbers of n in as many nodes, in order when n is; its heights
\* lag by at most one when those of n do below its top.
Kept(n, b) ==
    /\ b \in AnyNode
    /\ DataOf[b] = DataOf[n] /\ SizeOf[b] = SizeOf[n]
    /\ Sorted(n) => Sorted(b)
    /\ Lagging(n.lhs) /\ Lagging(n.rhs) => Lagging(b)

LEMMA RightRotateKeeps ==
  ASSUME NEW n \in AnyNode, n.lhs # NULL
  PROVE  Kept(n, right_rotate(n))
<1> DEFINE l == n.lhs
           low == Above(n.data, l.rhs, n.rhs)
           b == right_rotate(n)
<1>1. l \in AnyNode /\ b = Above(l.data, l.lhs, low)
  BY RightRotateIs
<1>2. /\ n.data \in Int /\ n.lhs \in AnyTree /\ n.rhs \in AnyTree
      /\ l.data \in Int /\ l.lhs \in AnyTree /\ l.rhs \in AnyTree
  BY <1>1, NodeParts
<1>3. low \in AnyTree
  BY <1>2, AboveIs, NodeParts
<1>4. /\ DataOf[n] = {n.data} \cup DataOf[l] \cup DataOf[n.rhs]
      /\ DataOf[l] = {l.data} \cup DataOf[l.lhs] \cup DataOf[l.rhs]
      /\ DataOf[low] = {n.data} \cup DataOf[l.rhs] \cup DataOf[n.rhs]
  BY <1>1, <1>2, DataIs, AboveHolds
<1>5. /\ SizeOf[n] = 1 + SizeOf[l] + SizeOf[n.rhs]
      /\ SizeOf[l] = 1 + SizeOf[l.lhs] + SizeOf[l.rhs]
      /\ SizeOf[low] = 1 + SizeOf[l.rhs] + SizeOf[n.rhs]
      /\ SizeOf[l.lhs] \in Nat /\ SizeOf[l.rhs] \in Nat /\ SizeOf[n.rhs] \in Nat
  BY <1>1, <1>2, SizeIs, AboveHolds
<1>6. ASSUME Sorted(n) PROVE Sorted(low) /\ \A x \in DataOf[low] : l.data < x
  <2>1. Sorted(l) /\ Sorted(n.rhs) /\ Parted(n) /\ Sorted(l.lhs) /\ Sorted(l.rhs) /\ Parted(l)
    BY <1>1, <1>6, SortedIs
  <2>2. \A x \in DataOf[l.rhs] : x < n.data /\ l.data < x
    BY <1>4, <2>1 DEF Parted
  <2>3. \A x \in DataOf[n.rhs] : n.data < x
    BY <2>1 DEF Parted
  <2>4. l.data < n.data
    BY <1>4, <2>1 DEF Parted
  <2>5. DataOf[n.rhs] \subseteq Int
    BY <1>2, DataIs
  <2>6. Sorted(low)
    BY <1>2, <2>1, <2>2, <2>3, AboveSorted
  <2>7. \A x \in DataOf[n.rhs] : l.data < x
    BY <1>2, <2>3, <2>4, <2>5
  <2> QED
    BY <1>4, <2>2, <2>4, <2>6, <2>7
<1>7. ASSUME Lagging(n.lhs), Lagging(n.rhs) PROVE Lagging(low) /\ Lagging(l.lhs)
  <2>1. Lagging(l.lhs) /\ Lagging(l.rhs)
    BY <1>1, <1>7, LaggingIs
  <2> QED
    BY <1>2, <1>7, <2>1, AboveHolds
<1> HIDE DEF low, b
<1>8. b \in AnyNode
  BY <1>1, <1>2, <1>3, AboveIs
<1>9. DataOf[b] = DataOf[n] /\ SizeOf[b] = SizeOf[n]
  <2>1. /\ DataOf[b] = {l.data} \cup DataOf[l.lhs] \cup DataOf[low]
        /\ SizeOf[b] = 1 + SizeOf[l.lhs] + SizeOf[low]
    BY <1>1, <1>2, <1>3, AboveHolds
  <2> QED
    BY <1>4, <1>5, <2>1
<1>10. ASSUME Sorted(n) PROVE Sorted(b)
  <2>1. Sorted(l.lhs) /\ \A x \in DataOf[l.lhs] : x < l.data
    BY <1>1, <1>10, SortedIs DEF Parted
  <2> QED
    BY <1>1, <1>2, <1>3, <1>6, <1>10, <2>1, AboveSorted
<1>11. ASSUME Lagging(n.lhs), Lagging(n.rhs) PROVE Lagging(b)
  BY <1>1, <1>2, <1>3, <1>7, <1>11, AboveHolds
<1> QED
  BY <1>8, <1>9, <1>10, <1>11 DEF Kept, b

LEMMA LeftRotateKeeps ==
  ASSUME NEW n \in AnyNode, n.rhs # NULL
  PROVE  Kept(n, left_rotate(n))
<1> DEFINE r == n.rhs
           low == Above(n.data, n.lhs, r.lhs)
           b == left_rotate(n)
<1>1. r \in AnyNode /\ b = Above(r.data, low, r.rhs)
  BY LeftRotateIs
<1>2. /\ n.data \in Int /\ n.lhs \in AnyTree /\ n.rhs \in AnyTree
      /\ r.data \in Int /\ r.lhs \in AnyTree /\ r.rhs \in AnyTree
  BY <1>1, NodeParts
<1>3. low \in AnyTree
  BY <1>2, AboveIs, NodeParts
<1>4. /\ DataOf[n] = {n.data} \cup DataOf[n.lhs] \cup DataOf[r]
      /\ DataOf[r] = {r.data} \cup DataOf[r.lhs] \cup DataOf[r.rhs]
      /\ DataOf[low] = {n.data} \cup DataOf[n.lhs] \cup DataOf[r.lhs]
  BY <1>1, <1>2, DataIs, AboveHolds
<1>5. /\ SizeOf[n] = 1 + SizeOf[n.lhs] + SizeOf[r]
      /\ SizeOf[r] = 1 + SizeOf[r.lhs] + SizeOf[r.rhs]
      /\ SizeOf[low] = 1 + SizeOf[n.lhs] + SizeOf[r.lhs]
      /\ SizeOf[r.lhs] \in Nat /\ SizeOf[r.rhs] \in Nat /\ SizeOf[n.lhs] \in Nat
  BY <1>1, <1>2, SizeIs, AboveHolds
<1>6. ASSUME Sorted(n) PROVE Sorted(low) /\ \A x \in DataOf[low] : x < r.data
  <2>1. Sorted(r) /\ Sorted(n.lhs) /\ Parted(n) /\ Sorted(r.lhs) /\ Sorted(r.rhs) /\ Parted(r)
    BY <1>1, <1>6, SortedIs
  <2>2. \A x \in DataOf[r.lhs] : n.data < x /\ x < r.data
    BY <1>4, <2>1 DEF Parted
  <2>3. \A x \in DataOf[n.lhs] : x < n.data
    BY <2>1 DEF Parted
  <2>4. n.data < r.data
    BY <1>4, <2>1 DEF Parted
  <2>5. DataOf[n.lhs] \subseteq Int
    BY <1>2, DataIs
  <2>6. Sorted(low)
    BY <1>2, <2>1, <2>2, <2>3, AboveSorted
  <2>7. \A x \in DataOf[n.lhs] : x < r.data
    BY <1>2, <2>3, <2>4, <2>5
  <2> QED
    BY <1>4, <2>2, <2>4, <2>6, <2>7
<1>7. ASSUME Lagging(n.lhs), Lagging(n.rhs) PROVE Lagging(low) /\ Lagging(r.rhs)
  <2>1. Lagging(r.lhs) /\ Lagging(r.rhs)
    BY <1>1, <1>7, LaggingIs
  <2> QED
    BY <1>2, <1>7, <2>1, AboveHolds
<1> HIDE DEF low, b
<1>8. b \in AnyNode
  BY <1>1, <1>2, <1>3, AboveIs
<1>9. DataOf[b] = DataOf[n] /\ SizeOf[b] = SizeOf[n]
  <2>1. /\ DataOf[b] = {r.data} \cup DataOf[low] \cup DataOf[r.rhs]
        /\ SizeOf[b] = 1 + SizeOf[low] + SizeOf[r.rhs]
    BY <1>1, <1>2, <1>3, AboveHolds
  <2> QED
    BY <1>4, <1>5, <2>1
<1>10. ASSUME Sorted(n) PROVE Sorted(b)
  <2>1. Sorted(r.rhs) /\ \A x \in DataOf[r.rhs] : r.data < x
    BY <1>1, <1>10, SortedIs DEF Parted
  <2> QED
    BY <1>1, <1>2, <1>3, <1>6, <1>10, <2>1, AboveSorted
<1>11. ASSUME Lagging(n.lhs), Lagging(n.rhs) PROVE Lagging(b)
  BY <1>1, <1>2, <1>3, <1>7, <1>11, AboveHolds
<1> QED
  BY <1>8, <1>9, <1>10, <1>11 DEF Kept, b

\* A node that takes a subtree from a call, unless the call crashed.
LEMMA JoinedIs ==
  ASSUME NEW n \in AnyNode, NEW t \in AnyTree \cup {CRASH}
  PROVE  /\ Joined([n EXCEPT !.lhs = t]) =
              IF t = CRASH THEN CRASH ELSE Node(n.data, t, n.rhs, n.height)
         /\ Joined([n EXCEPT !.rhs = t]) =
              IF t = CRASH THEN CRASH ELSE Node(n.data, n.lhs, t, n.height)
<1>1. n.lhs # CRASH /\ n.rhs # CRASH
  BY NodeParts, TreeIs
<1>2. /\ Node(n.data, t, n.rhs, n.height).lhs = t
      /\ Node(n.data, t, n.rhs, n.height).rhs = n.rhs
      /\ Node(n.data, n.lhs, t, n.height).lhs = n.lhs
      /\ Node(n.data, n.lhs, t, n.height).rhs = t
  BY DEF Node
<1> QED
  BY <1>1, <1>2, ExceptIs DEF Joined

LEMMA JoinedType ==
  ASSUME NEW n \in AnyNode, NEW t \in AnyTree \cup {CRASH}
  PROVE  /\ Joined([n EXCEPT !.lhs = t]) \in AnyTree \cup {CRASH}
         /\ Joined([n EXCEPT !.rhs = t]) \in AnyTree \cup {CRASH}
<1>1. n.data \in Int /\ n.height \in Nat /\ n.lhs \in AnyTree /\ n.rhs \in AnyTree
  BY NodeParts
<1>2. CASE t \in AnyTree
  <2>1. /\ Node(n.data, t, n.rhs, n.height) \in AnyTree
        /\ Node(n.data, n.lhs, t, n.height) \in AnyTree
    BY <1>1, <1>2, NodeIs, NodeParts
  <2> QED
    BY <2>1, JoinedIs
<1>3. CASE t = CRASH
  BY <1>3, JoinedIs
<1> QED
  BY <1>2, <1>3

\* A node with another subtree of the same numbers keeps what it held.
LEMMA ReplacedKeeps ==
  ASSUME NEW n \in AnyNode, NEW l \in AnyTree, NEW r \in AnyTree,
         DataOf[l] = DataOf[n.lhs], SizeOf[l] = SizeOf[n.lhs],
         DataOf[r] = DataOf[n.rhs], SizeOf[r] = SizeOf[n.rhs],
         Sorted(n.lhs) => Sorted(l), Sorted(n.rhs) => Sorted(r)
  PROVE  /\ Node(n.data, l, r, n.height) \in AnyNode
         /\ DataOf[Node(n.data, l, r, n.height)] = DataOf[n]
         /\ SizeOf[Node(n.data, l, r, n.height)] = SizeOf[n]
         /\ Sorted(n) => Sorted(Node(n.data, l, r, n.height))
<1>1. n.data \in Int /\ n.height \in Nat
  BY NodeParts
<1>2. /\ DataOf[n] = {n.data} \cup DataOf[n.lhs] \cup DataOf[n.rhs]
      /\ SizeOf[n] = 1 + SizeOf[n.lhs] + SizeOf[n.rhs]
  BY DataIs, SizeIs
<1>3. Sorted(n) <=> Sorted(n.lhs) /\ Sorted(n.rhs) /\ Parted(n)
  BY SortedIs
<1> DEFINE m == Node(n.data, l, r, n.height)
<1>4. /\ DataOf[m] = {n.data} \cup DataOf[l] \cup DataOf[r]
      /\ SizeOf[m] = 1 + SizeOf[l] + SizeOf[r]
      /\ Sorted(m) <=> /\ Sorted(l) /\ Sorted(r)
                       /\ \A x \in DataOf[l] : x < n.data
                       /\ \A x \in DataOf[r] : n.data < x
  BY <1>1, NodeHolds
<1>5. m \in AnyNode
  BY <1>1, NodeIs
<1> HIDE DEF m
<1>6. ASSUME Sorted(n) PROVE Sorted(m)
  BY <1>3, <1>4, <1>6 DEF Parted
<1> QED
  BY <1>2, <1>4, <1>5, <1>6 DEF m

\* The double rotations: the subtree is turned first, then the node.
LEMMA LeftRightKeeps ==
  ASSUME NEW n \in AnyNode, n.lhs \in AnyNode, n.lhs.rhs # NULL
  PROVE  Kept(n, right_rotate(Node(n.data, left_rotate(n.lhs), n.rhs, n.height)))
<1> DEFINE l == left_rotate(n.lhs)
           m == Node(n.data, l, n.rhs, n.height)
<1>1. Kept(n.lhs, l)
  BY LeftRotateKeeps
<1>2. n.data \in Int /\ n.height \in Nat /\ n.rhs \in AnyTree
  BY NodeParts
<1> HIDE DEF l
<1>3. l \in AnyNode /\ l \in AnyTree
  BY <1>1, NodeParts DEF Kept
<1>4. m \in AnyNode /\ m.lhs = l /\ m.rhs = n.rhs
  BY <1>2, <1>3, NodeIs
<1>5. DataOf[m] = DataOf[n] /\ SizeOf[m] = SizeOf[n] /\ (Sorted(n) => Sorted(m))
  BY <1>1, <1>2, <1>3, ReplacedKeeps DEF Kept
<1>6. ASSUME Lagging(n.lhs) PROVE Lagging(l)
  BY <1>1, <1>6, LaggingIs DEF Kept
<1> HIDE DEF m
<1>7. Kept(m, right_rotate(m))
  BY <1>3, <1>4, NodeParts, RightRotateKeeps
<1>8. Kept(n, right_rotate(m))
  BY <1>4, <1>5, <1>6, <1>7 DEF Kept
<1> QED
  BY <1>8 DEF m, l

LEMMA RightLeftKeeps ==
  ASSUME NEW n \in AnyNode, n.rhs \in AnyNode, n.rhs.lhs # NULL
  PROVE  Kept(n, left_rotate(Node(n.data, n.lhs, right_rotate(n.rhs), n.height)))
<1> DEFINE r == right_rotate(n.rhs)
           m == Node(n.data, n.lhs, r, n.height)
<1>1. Kept(n.rhs, r)
  BY RightRotateKeeps
<1>2. n.data \in Int /\ n.height \in Nat /\ n.lhs \in AnyTree
  BY NodeParts
<1> HIDE DEF r
<1>3. r \in AnyNode /\ r \in AnyTree
  BY <1>1, NodeParts DEF Kept
<1>4. m \in AnyNode /\ m.rhs = r /\ m.lhs = n.lhs
  BY <1>2, <1>3, NodeIs
<1>5. DataOf[m] = DataOf[n] /\ SizeOf[m] = SizeOf[n] /\ (Sorted(n) => Sorted(m))
  BY <1>1, <1>2, <1>3, ReplacedKeeps DEF Kept
<1>6. ASSUME Lagging(n.rhs) PROVE Lagging(r)
  BY <1>1, <1>6, LaggingIs DEF Kept
<1> HIDE DEF m
<1>7. Kept(m, left_rotate(m))
  BY <1>3, <1>4, NodeParts, LeftRotateKeeps
<1>8. Kept(n, left_rotate(m))
  BY <1>4, <1>5, <1>6, <1>7 DEF Kept
<1> QED
  BY <1>8 DEF m, r

\* A leaning node has a subtree on the side it leans to.
LEMMA LeaningIs ==
  ASSUME NEW n \in AnyNode
  PROVE  /\ get_balance(n) \in Int
         /\ get_balance(n) > 1 => n.lhs \in AnyNode
         /\ get_balance(n) < -1 => n.rhs \in AnyNode
<1>1. height(n.lhs) \in Nat /\ height(n.rhs) \in Nat
  BY NodeParts, HeightIs
<1>2. /\ n.lhs \notin AnyNode => height(n.lhs) = 0
      /\ n.rhs \notin AnyNode => height(n.rhs) = 0
  BY NodeParts, TreeIs, HeightIs
<1> QED
  BY <1>1, <1>2 DEF get_balance

\* What balance_node does, by the way the node leans and where d lies.
LEMMA BalanceIs ==
  ASSUME NEW n \in AnyNode, NEW d \in Int
  PROVE  /\ get_balance(n) > 1 /\ d < n.lhs.data =>
              n.lhs # NULL /\ balance_node(n, d) = right_rotate(n)
         /\ get_balance(n) < -1 /\ d > n.rhs.data =>
              n.rhs # NULL /\ balance_node(n, d) = left_rotate(n)
         /\ get_balance(n) > 1 /\ d > n.lhs.data =>
              /\ n.lhs \in AnyNode
              /\ balance_node(n, d) =
                    IF n.lhs.rhs = NULL THEN CRASH
                    ELSE right_rotate(Node(n.data, left_rotate(n.lhs), n.rhs, n.height))
         /\ get_balance(n) < -1 /\ d < n.rhs.data =>
              /\ n.rhs \in AnyNode
              /\ balance_node(n, d) =
                    IF n.rhs.lhs = NULL THEN CRASH
                    ELSE left_rotate(Node(n.data, n.lhs, right_rotate(n.rhs), n.height))
         /\ /\ ~(get_balance(n) > 1 /\ d # n.lhs.data)
            /\ ~(get_balance(n) < -1 /\ d # n.rhs.data)
            => balance_node(n, d) = n
<1> DEFINE balance == get_balance(n)
           left == Joined([n EXCEPT !.lhs = left_rotate(@)])
           right == Joined([n EXCEPT !.rhs = right_rotate(@)])
<1>1. balance \in Int
  BY LeaningIs
<1>2. ASSUME balance > 1 PROVE n.lhs \in AnyNode /\ n.lhs # NULL /\ n.lhs.data \in Int
  BY <1>2, LeaningIs, NodeParts
<1>3. ASSUME balance < -1 PROVE n.rhs \in AnyNode /\ n.rhs # NULL /\ n.rhs.data \in Int
  BY <1>3, LeaningIs, NodeParts
<1>4. ASSUME balance > 1, d < n.lhs.data
      PROVE  n.lhs # NULL /\ balance_node(n, d) = right_rotate(n)
  <2>1. ~(balance < -1)
    BY <1>1, <1>4
  <2> QED
    BY <1>2, <1>4, <2>1 DEF balance_node
<1>5. ASSUME balance < -1, d > n.rhs.data
      PROVE  n.rhs # NULL /\ balance_node(n, d) = left_rotate(n)
  <2>1. ~(balance > 1)
    BY <1>1, <1>5
  <2> QED
    BY <1>3, <1>5, <2>1 DEF balance_node
<1>6. ASSUME balance > 1, d > n.lhs.data
      PROVE  /\ n.lhs \in AnyNode
             /\ balance_node(n, d) =
                   IF n.lhs.rhs = NULL THEN CRASH
                   ELSE right_rotate(Node(n.data, left_rotate(n.lhs), n.rhs, n.height))
  <2>1. n.lhs \in AnyNode /\ n.lhs.data \in Int
    BY <1>2, <1>6
  <2>2. balance_node(n, d) = IF left = CRASH THEN CRASH ELSE right_rotate(left)
    <3>1. ~(balance < -1) /\ ~(d < n.lhs.data)
      BY <1>1, <1>6, <2>1
    <3> QED
      BY <1>6, <3>1 DEF balance_node
  <2>3. CASE n.lhs.rhs = NULL
    <3>1. left_rotate(n.lhs) = CRASH
      BY <2>3 DEF left_rotate
    <3>2. left = CRASH
      BY <3>1, JoinedIs
    <3> QED
      BY <2>1, <2>2, <2>3, <3>2
  <2>4. CASE n.lhs.rhs # NULL
    <3>1. left_rotate(n.lhs) \in AnyTree
      BY <2>1, <2>4, LeftRotateKeeps, NodeParts DEF Kept
    <3>2. left_rotate(n.lhs) # CRASH
      BY <3>1, TreeIs
    <3>3. left = Node(n.data, left_rotate(n.lhs), n.rhs, n.height)
      BY <3>1, <3>2, JoinedIs
    <3>4. left # CRASH
      BY <3>1, <3>3, NodeParts, NodeIs
    <3> QED
      BY <2>1, <2>2, <2>4, <3>3, <3>4
  <2> QED
    BY <2>3, <2>4
<1>7. ASSUME balance < -1, d < n.rhs.data
      PROVE  /\ n.rhs \in AnyNode
             /\ balance_node(n, d) =
                   IF n.rhs.lhs = NULL THEN CRASH
                   ELSE left_rotate(Node(n.data, n.lhs, right_rotate(n.rhs), n.height))
  <2>1. n.rhs \in AnyNode /\ n.rhs.data \in Int
    BY <1>3, <1>7
  <2>2. balance_node(n, d) = IF right = CRASH THEN CRASH ELSE left_rotate(right)
    <3>1. ~(balance > 1) /\ ~(d > n.rhs.data)
      BY <1>1, <1>7, <2>1
    <3> QED
      BY <1>7, <3>1 DEF balance_node
  <2>3. CASE n.rhs.lhs = NULL
    <3>1. right_rotate(n.rhs) = CRASH
      BY <2>3 DEF right_rotate
    <3>2. right = CRASH
      BY <3>1, JoinedIs
    <3> QED
      BY <2>1, <2>2, <2>3, <3>2
  <2>4. CASE n.rhs.lhs # NULL
    <3>1. right_rotate(n.rhs) \in AnyTree
      BY <2>1, <2>4, RightRotateKeeps, NodeParts DEF Kept
    <3>2. right_rotate(n.rhs) # CRASH
      BY <3>1, TreeIs
    <3>3. right = Node(n.data, n.lhs, right_rotate(n.rhs), n.height)
      BY <3>1, <3>2, JoinedIs
    <3>4. right # CRASH
      BY <3>1, <3>3, NodeParts, NodeIs
    <3> QED
      BY <2>1, <2>2, <2>4, <3>3, <3>4
  <2> QED
    BY <2>3, <2>4
<1>8. ASSUME ~(balance > 1 /\ d # n.lhs.data), ~(balance < -1 /\ d # n.rhs.data)
      PROVE  balance_node(n, d) = n
  <2>1. /\ ~(balance > 1 /\ d < n.lhs.data) /\ ~(balance > 1 /\ d > n.lhs.data)
        /\ ~(balance < -1 /\ d < n.rhs.data) /\ ~(balance < -1 /\ d > n.rhs.data)
    BY <1>2, <1>3, <1>8
  <2> QED
    BY <2>1 DEF balance_node
<1> HIDE DEF left, right
<1> QED
  BY <1>4, <1>5, <1>6, <1>7, <1>8

\* balance_node follows a null pointer, or keeps what the node held.
LEMMA BalanceKeeps ==
  ASSUME NEW n \in AnyNode, NEW d \in Int, Kept(n, n)
  PROVE  balance_node(n, d) = CRASH \/ Kept(n, balance_node(n, d))
<1> DEFINE balance == get_balance(n)
<1>1. CASE balance > 1 /\ d < n.lhs.data
  BY <1>1, BalanceIs, RightRotateKeeps
<1>2. CASE balance < -1 /\ d > n.rhs.data
  BY <1>2, BalanceIs, LeftRotateKeeps
<1>3. CASE balance > 1 /\ d > n.lhs.data
  BY <1>3, BalanceIs, LeftRightKeeps
<1>4. CASE balance < -1 /\ d < n.rhs.data
  BY <1>4, BalanceIs, RightLeftKeeps
<1>5. CASE ~(balance > 1 /\ d # n.lhs.data) /\ ~(balance < -1 /\ d # n.rhs.data)
  <2>1. balance_node(n, d) = n
    BY <1>5, BalanceIs
  <2> QED
    BY <2>1
<1>6. /\ balance > 1 => n.lhs.data \in Int
      /\ balance < -1 => n.rhs.data \in Int
  BY LeaningIs, NodeParts
<1> HIDE DEF balance
<1> QED
  BY <1>1, <1>2, <1>3, <1>4, <1>5, <1>6

\* The end of insert_node and delete_node: it crashes only when it balances.
LEMMA SettledKeeps ==
  ASSUME NEW n \in AnyNode, NEW d \in Int, NEW tb \in BOOLEAN
  PROVE  \/ tb /\ Settled(n, d, tb) = CRASH
         \/ Kept(n, Settled(n, d, tb))
<1> DEFINE m == Above(n.data, n.lhs, n.rhs)
<1>1. n \notin {NULL, CRASH} /\ Raised(n) = m
  BY NodeParts, RaisedIs
<1>2. /\ n.data \in Int /\ n.lhs \in AnyTree /\ n.rhs \in AnyTree /\ n.height \in Nat
      /\ m \in AnyNode /\ m.lhs = n.lhs /\ m.rhs = n.rhs
  <2>1. n.data \in Int /\ n.lhs \in AnyTree /\ n.rhs \in AnyTree /\ n.height \in Nat
    BY NodeParts
  <2> QED
    BY <2>1, AboveIs
<1>3. DataOf[m] = DataOf[n] /\ SizeOf[m] = SizeOf[n]
  <2>1. /\ DataOf[m] = {n.data} \cup DataOf[n.lhs] \cup DataOf[n.rhs]
        /\ SizeOf[m] = 1 + SizeOf[n.lhs] + SizeOf[n.rhs]
    BY <1>2, AboveCounts
  <2> QED
    BY <2>1, DataIs, SizeIs
<1>4. Sorted(n) => Sorted(m)
  BY <1>2, AboveSorted, SortedIs DEF Parted
<1>5. Lagging(n.lhs) /\ Lagging(n.rhs) => Lagging(m)
  BY <1>2, AboveHolds
<1> HIDE DEF m
<1>6. Kept(m, m) /\ Kept(n, m)
  BY <1>2, <1>3, <1>4, <1>5 DEF Kept
<1>7. ASSUME NEW b, Kept(m, b) PROVE Kept(n, b)
  BY <1>2, <1>3, <1>4, <1>7 DEF Kept
<1>8. CASE tb
  <2>1. Settled(n, d, tb) = balance_node(m, d)
    BY <1>1, <1>8 DEF Settled
  <2> QED
    BY <1>2, <1>6, <1>7, <1>8, <2>1, BalanceKeeps
<1>9. CASE ~tb
  <2>1. Settled(n, d, tb) = m
    BY <1>1, <1>9 DEF Settled
  <2> QED
    BY <1>6, <2>1
<1> QED
  BY <1>8, <1>9

LEMMA SettledOthers ==
  ASSUME NEW d, NEW tb
  PROVE  Settled(NULL, d, tb) = NULL /\ Settled(CRASH, d, tb) = CRASH
BY DEF Settled

LEMMA SettledType ==
  ASSUME NEW t \in AnyTree \cup {CRASH}, NEW d \in Int, NEW tb \in BOOLEAN
  PROVE  Settled(t, d, tb) \in AnyTree \cup {CRASH}
<1>1. CASE t \in AnyNode
  BY <1>1, SettledKeeps, NodeParts DEF Kept
<1>2. CASE t = NULL \/ t = CRASH
  BY <1>2, SettledOthers, TreeIs
<1> QED
  BY <1>1, <1>2, TreeIs

-----------------------------------------------------------------------------
(* The functions of tree.c, unfolded once *)

LEMMA InsertIs ==
  ASSUME NEW d \in Int, NEW tb \in BOOLEAN, NEW memory \in BOOLEAN
  PROVE  /\ insert_node(NULL, d, tb, memory) = IF memory THEN make_node(d) ELSE NULL
         /\ \A n \in AllTrees : n # NULL =>
              insert_node(n, d, tb, memory) =
                IF d = n.data THEN n
                ELSE Settled(
                       Joined(IF d < n.data
                              THEN [n EXCEPT !.lhs = insert_node(n.lhs, d, tb, memory)]
                              ELSE [n EXCEPT !.rhs = insert_node(n.rhs, d, tb, memory)]),
                       d, tb)
<1> DEFINE leaf == IF memory THEN make_node(d) ELSE NULL
           V == AnyTree \cup {CRASH}
           put(n, a, b) == IF d = n.data THEN n
                           ELSE Settled(Joined(IF d < n.data THEN [n EXCEPT !.lhs = a]
                                                             ELSE [n EXCEPT !.rhs = b]), d, tb)
           Step == [n \in AnyNode |-> [a \in V |-> [b \in V |-> put(n, a, b)]]]
           F == CHOOSE f : f = [n \in AllTrees |-> IF n = NULL THEN leaf
                                                   ELSE put(n, f[n.lhs], f[n.rhs])]
<1>1. \A n \in AllTrees : insert_node(n, d, tb, memory) = F[n]
  BY DEF insert_node
<1>2. ASSUME NEW n \in AnyNode, NEW a \in V, NEW b \in V PROVE put(n, a, b) \in V
  <2>1. /\ Joined([n EXCEPT !.lhs = a]) \in V
        /\ Joined([n EXCEPT !.rhs = b]) \in V
    BY JoinedType
  <2>2. CASE d = n.data
    BY <2>2, NodeParts
  <2>3. CASE d # n.data /\ d < n.data
    BY <2>1, <2>3, SettledType
  <2>4. CASE d # n.data /\ ~(d < n.data)
    BY <2>1, <2>4, SettledType
  <2> QED
    BY <2>2, <2>3, <2>4
<1>3. leaf \in V
  <2>1. make_node(d) \in AnyNode
    BY TreeIs DEF make_node, AnyNode, NodesOver
  <2> QED
    BY <2>1, TreeIs
<1> HIDE DEF leaf, put, V
<1>4. Step \in [AnyNode -> [V -> [V -> V]]]
  BY <1>2
<1>5. \A n \in AnyNode : \A a, b \in V : Step[n][a][b] = put(n, a, b)
  OBVIOUS
<1> HIDE DEF Step
<1>6. PICK g : Computes(g, AnyTree, V, leaf, Step)
  BY <1>3, <1>4, TreeRecursion
<1> DEFINE h == [n \in AllTrees |-> g[n]]
<1>7. h = [n \in AllTrees |-> IF n = NULL THEN leaf ELSE put(n, h[n.lhs], h[n.rhs])]
  <2>1. ASSUME NEW n \in AllTrees
        PROVE  g[n] = IF n = NULL THEN leaf ELSE put(n, h[n.lhs], h[n.rhs])
    <3>1. CASE n = NULL
      BY <1>6, <3>1 DEF Computes
    <3>2. CASE n # NULL
      <4>1. n \in AnyNode /\ n.lhs \in AllTrees /\ n.rhs \in AllTrees /\ n \in AnyTree
        BY <3>2, AllTreesAre
      <4>2. g[n] = Step[n][g[n.lhs]][g[n.rhs]] /\ g[n.lhs] \in V /\ g[n.rhs] \in V
        BY <1>6, <3>2, <4>1, AllTreesAre DEF Computes
      <4>3. h[n.lhs] = g[n.lhs] /\ h[n.rhs] = g[n.rhs]
        BY <4>1
      <4> HIDE DEF h
      <4> QED
        BY <1>5, <3>2, <4>1, <4>2, <4>3
    <3> QED
      BY <3>1, <3>2
  <2> QED
    BY <2>1
<1> HIDE DEF h
<1>8. F = [n \in AllTrees |-> IF n = NULL THEN leaf ELSE put(n, F[n.lhs], F[n.rhs])]
  BY <1>7
<1> HIDE DEF F
<1>9. F[NULL] = leaf /\ \A n \in AllTrees : n # NULL => F[n] = put(n, F[n.lhs], F[n.rhs])
  BY <1>8, AllTreesAre
<1>10. ASSUME NEW n \in AllTrees, n # NULL
       PROVE  insert_node(n, d, tb, memory) =
                 put(n, insert_node(n.lhs, d, tb, memory), insert_node(n.rhs, d, tb, memory))
  <2>1. n.lhs \in AllTrees /\ n.rhs \in AllTrees
    BY <1>10, AllTreesAre
  <2> QED
    BY <1>1, <1>9, <1>10, <2>1
<1>11. insert_node(NULL, d, tb, memory) = leaf
  BY <1>1, <1>9, AllTreesAre
<1> QED
  BY <1>10, <1>11 DEF leaf, put

-----------------------------------------------------------------------------
(* Insertion *)

\* A node made anew and settled.
LEMMA SettledNode ==
  ASSUME NEW e \in Int, NEW l \in AnyTree, NEW r \in AnyTree, NEW h \in Nat,
         NEW d \in Int, NEW tb \in BOOLEAN, NEW s, s = Settled(Node(e, l, r, h), d, tb),
         s # CRASH
  PROVE  /\ s \in AnyNode
         /\ DataOf[s] = {e} \cup DataOf[l] \cup DataOf[r]
         /\ SizeOf[s] = 1 + SizeOf[l] + SizeOf[r]
         /\ /\ Sorted(l) /\ Sorted(r)
            /\ \A x \in DataOf[l] : x < e
            /\ \A x \in DataOf[r] : e < x
            => Sorted(s)
         /\ Lagging(l) /\ Lagging(r) => Lagging(s)
<1> DEFINE m == Node(e, l, r, h)
<1>1. m \in AnyNode /\ m.lhs = l /\ m.rhs = r
  BY NodeIs
<1>2. /\ DataOf[m] = {e} \cup DataOf[l] \cup DataOf[r]
      /\ SizeOf[m] = 1 + SizeOf[l] + SizeOf[r]
      /\ Sorted(m) <=> /\ Sorted(l) /\ Sorted(r)
                       /\ \A x \in DataOf[l] : x < e
                       /\ \A x \in DataOf[r] : e < x
  BY NodeHolds
<1> HIDE DEF m
<1>3. s = Settled(m, d, tb)
  BY DEF m
<1>4. Kept(m, s)
  BY <1>1, <1>3, SettledKeeps
<1> QED
  BY <1>1, <1>2, <1>4 DEF Kept

\* u is t after the insertion of d, or of nothing when there was no memory.
Inserted(t, u, d, memory) ==
    /\ u \in AnyTree
    /\ DataOf[u] = IF memory THEN DataOf[t] \cup {d} ELSE DataOf[t]
    /\ SizeOf[u] = IF memory THEN SizeOf[t] + 1 ELSE SizeOf[t]
    /\ Sorted(u)
    /\ Lagging(t) => Lagging(u)

LEMMA LeafIs ==
  ASSUME NEW d \in Int
  PROVE  /\ make_node(d) \in AnyNode /\ make_node(d).height = 0
         /\ make_node(d).data = d
         /\ make_node(d).lhs = NULL /\ make_node(d).rhs = NULL
         /\ DataOf[make_node(d)] = {d} /\ SizeOf[make_node(d)] = 1
         /\ Sorted(make_node(d)) /\ Lagging(make_node(d)) /\ Even(make_node(d))
<1> DEFINE n == make_node(d)
<1>1. /\ n \in AnyNode /\ n.height = 0 /\ n.data = d
      /\ n.lhs = NULL /\ n.rhs = NULL
  BY TreeIs DEF make_node, AnyNode, NodesOver
<1> HIDE DEF n
<1>2. DataOf[n] = {d} /\ SizeOf[n] = 1
  BY <1>1, DataIs, SizeIs
<1>3. Sorted(n)
  BY <1>1, SortedIs, DataIs DEF Parted
<1>4. Lagging(n)
  <2>1. DepOf[n] = 1 /\ height(n) = 0
    BY <1>1, DepIs, HeightIs DEF max
  <2> QED
    BY <1>1, <2>1, LaggingIs DEF Near
<1>5. Even(n)
  BY <1>1, EvenIs, HeightIs DEF Fits
<1> QED
  BY <1>1, <1>2, <1>3, <1>4, <1>5 DEF n

LEMMA InsertKeeps ==
  ASSUME NEW d \in Int, NEW tb \in BOOLEAN, NEW memory \in BOOLEAN
  PROVE  \A t \in AllTrees : Sorted(t) /\ d \notin DataOf[t] =>
            \/ tb /\ insert_node(t, d, tb, memory) = CRASH
            \/ Inserted(t, insert_node(t, d, tb, memory), d, memory)
<1> DEFINE put(t) == insert_node(t, d, tb, memory)
           X == {t \in AllTrees : Sorted(t) /\ d \notin DataOf[t] =>
                    (tb /\ put(t) = CRASH) \/ Inserted(t, put(t), d, memory)}
<1>1. NULL \in X
  <2>1. put(NULL) = IF memory THEN make_node(d) ELSE NULL
    BY InsertIs
  <2>2. DataOf[NULL] = {} /\ SizeOf[NULL] = 0 /\ Sorted(NULL) /\ Lagging(NULL)
    BY DataIs, SizeIs, SortedIs, LaggingIs
  <2>3. CASE memory
    <3>1. make_node(d) \in AnyTree
      BY LeafIs, NodeParts
    <3> HIDE DEF X, put
    <3>2. Inserted(NULL, make_node(d), d, memory)
      BY <2>2, <2>3, <3>1, LeafIs DEF Inserted
    <3> QED
      BY <2>1, <2>3, <3>2, AllTreesAre DEF X
  <2>4. CASE ~memory
    BY <2>1, <2>2, <2>4, TreeIs, AllTreesAre DEF Inserted
  <2> QED
    BY <2>3, <2>4
<1>2. ASSUME NEW n \in AllTrees \ {NULL}, n.lhs \in X, n.rhs \in X PROVE n \in X
  <2> SUFFICES ASSUME Sorted(n), d \notin DataOf[n]
               PROVE  (tb /\ put(n) = CRASH) \/ Inserted(n, put(n), d, memory)
    OBVIOUS
  <2> DEFINE e == n.data
             l == n.lhs
             r == n.rhs
  <2>1. /\ n \in AnyNode /\ l \in AnyTree /\ r \in AnyTree
        /\ e \in Int /\ n.height \in Nat
    BY AllTreesAre, NodeParts
  <2>2. /\ DataOf[n] = {e} \cup DataOf[l] \cup DataOf[r]
        /\ SizeOf[n] = 1 + SizeOf[l] + SizeOf[r]
        /\ SizeOf[l] \in Nat /\ SizeOf[r] \in Nat
    BY <2>1, DataIs, SizeIs
  <2>3. Sorted(l) /\ Sorted(r) /\ (\A x \in DataOf[l] : x < e) /\ (\A x \in DataOf[r] : e < x)
    BY <2>1, SortedIs DEF Parted
  <2>4. d # e /\ d \notin DataOf[l] /\ d \notin DataOf[r]
    BY <2>2
  <2>5. put(n) = Settled(Joined(IF d < e THEN [n EXCEPT !.lhs = put(l)]
                                         ELSE [n EXCEPT !.rhs = put(r)]), d, tb)
    BY <2>4, InsertIs
  <2>6. /\ (tb /\ put(l) = CRASH) \/ Inserted(l, put(l), d, memory)
        /\ (tb /\ put(r) = CRASH) \/ Inserted(r, put(r), d, memory)
    BY <1>2, <2>3, <2>4
  <2>7. Lagging(n) => Lagging(l) /\ Lagging(r)
    BY <2>1, LaggingIs
  <2> HIDE DEF X, put, e, l, r
  <2>8. CASE d < e
    <3>1. put(n) = Settled(Joined([n EXCEPT !.lhs = put(l)]), d, tb)
      BY <2>5, <2>8
    <3>2. CASE put(l) = CRASH
      <4>1. Joined([n EXCEPT !.lhs = put(l)]) = CRASH
        BY <2>1, <3>2, JoinedIs
      <4> QED
        BY <2>6, <3>1, <3>2, <4>1, SettledOthers, TreeIs DEF Inserted
    <3>3. CASE put(l) # CRASH
      <4>1. Inserted(l, put(l), d, memory) /\ put(l) \in AnyTree
        BY <2>6, <3>3 DEF Inserted
      <4>2. Joined([n EXCEPT !.lhs = put(l)]) = Node(e, put(l), r, n.height)
        BY <2>1, <3>3, <4>1, JoinedIs DEF e, r
      <4>3. \A x \in DataOf[put(l)] : x < e
        BY <2>3, <2>8, <4>1 DEF Inserted
      <4>4. CASE put(n) = CRASH
        <5>1. Node(e, put(l), r, n.height) \in AnyNode
          BY <2>1, <4>1, NodeIs
        <5>2. ~Kept(Node(e, put(l), r, n.height), put(n))
          BY <4>4, NodeParts DEF Kept
        <5> QED
          BY <3>1, <4>2, <4>4, <5>1, <5>2, SettledKeeps
      <4>5. CASE put(n) # CRASH
        <5>1. /\ put(n) \in AnyNode
              /\ DataOf[put(n)] = {e} \cup DataOf[put(l)] \cup DataOf[r]
              /\ SizeOf[put(n)] = 1 + SizeOf[put(l)] + SizeOf[r]
              /\ /\ Sorted(put(l)) /\ Sorted(r)
                 /\ \A x \in DataOf[put(l)] : x < e
                 /\ \A x \in DataOf[r] : e < x
                 => Sorted(put(n))
              /\ Lagging(put(l)) /\ Lagging(r) => Lagging(put(n))
          BY <2>1, <3>1, <4>1, <4>2, <4>5, SettledNode
        <5>2. put(n) \in AnyTree
          BY <5>1, NodeParts
        <5> QED
          BY <2>2, <2>3, <2>7, <4>1, <4>3, <5>1, <5>2 DEF Inserted
      <4> QED
        BY <4>4, <4>5
    <3> QED
      BY <3>2, <3>3
  <2>9. CASE ~(d < e)
    <3>1. put(n) = Settled(Joined([n EXCEPT !.rhs = put(r)]), d, tb)
      BY <2>5, <2>9
    <3>2. CASE put(r) = CRASH
      <4>1. Joined([n EXCEPT !.rhs = put(r)]) = CRASH
        BY <2>1, <3>2, JoinedIs
      <4> QED
        BY <2>6, <3>1, <3>2, <4>1, SettledOthers, TreeIs DEF Inserted
    <3>3. CASE put(r) # CRASH
      <4>1. Inserted(r, put(r), d, memory) /\ put(r) \in AnyTree
        BY <2>6, <3>3 DEF Inserted
      <4>2. Joined([n EXCEPT !.rhs = put(r)]) = Node(e, l, put(r), n.height)
        BY <2>1, <3>3, <4>1, JoinedIs DEF e, l
      <4>3. \A x \in DataOf[put(r)] : e < x
        <5>1. e < d
          BY <2>1, <2>4, <2>9
        <5> QED
          BY <2>3, <4>1, <5>1 DEF Inserted
      <4>4. CASE put(n) = CRASH
        <5>1. Node(e, l, put(r), n.height) \in AnyNode
          BY <2>1, <4>1, NodeIs
        <5>2. ~Kept(Node(e, l, put(r), n.height), put(n))
          BY <4>4, NodeParts DEF Kept
        <5> QED
          BY <3>1, <4>2, <4>4, <5>1, <5>2, SettledKeeps
      <4>5. CASE put(n) # CRASH
        <5>1. /\ put(n) \in AnyNode
              /\ DataOf[put(n)] = {e} \cup DataOf[l] \cup DataOf[put(r)]
              /\ SizeOf[put(n)] = 1 + SizeOf[l] + SizeOf[put(r)]
              /\ /\ Sorted(l) /\ Sorted(put(r))
                 /\ \A x \in DataOf[l] : x < e
                 /\ \A x \in DataOf[put(r)] : e < x
                 => Sorted(put(n))
              /\ Lagging(l) /\ Lagging(put(r)) => Lagging(put(n))
          BY <2>1, <3>1, <4>1, <4>2, <4>5, SettledNode
        <5>2. put(n) \in AnyTree
          BY <5>1, NodeParts
        <5> QED
          BY <2>2, <2>3, <2>7, <4>1, <4>3, <5>1, <5>2 DEF Inserted
      <4> QED
        BY <4>4, <4>5
    <3> QED
      BY <3>2, <3>3
  <2> QED
    BY <2>8, <2>9
<1> HIDE DEF X
<1>3. AllTrees \subseteq X
  BY <1>1, <1>2, AllTreesInduction
<1> QED
  BY <1>3 DEF X

-----------------------------------------------------------------------------
(* Insertions that find a balanced tree *)

\* The two subtrees of u are one apart, and d lies on the higher side.
Leans(u, d) ==
    \/ d < u.data /\ height(u.lhs) = height(u.rhs) + 1
    \/ d > u.data /\ height(u.rhs) = height(u.lhs) + 1

\* u is balanced as t was, and higher by at most one, towards d.
Grown(t, u, d) ==
    /\ u \in AnyTree /\ Even(u)
    /\ t = NULL => height(u) = 0
    /\ \/ height(u) = height(t)
       \/ /\ height(u) = height(t) + 1
          /\ height(u) >= 2 => Leans(u, d)

\* The two double rotations, written out.
LEMMA LeftRightIs ==
  ASSUME NEW n \in AnyNode, n.lhs \in AnyNode, n.lhs.rhs # NULL
  PROVE  /\ n.lhs.rhs \in AnyNode
         /\ right_rotate(Node(n.data, left_rotate(n.lhs), n.rhs, n.height)) =
              Above(n.lhs.rhs.data,
                    Above(n.lhs.data, n.lhs.lhs, n.lhs.rhs.lhs),
                    Above(n.data, n.lhs.rhs.rhs, n.rhs))
<1> DEFINE l == n.lhs
           x == l.rhs
           low == Above(l.data, l.lhs, x.lhs)
           m == Node(n.data, left_rotate(l), n.rhs, n.height)
<1>1. x \in AnyNode /\ left_rotate(l) = Above(x.data, low, x.rhs)
  BY LeftRotateIs
<1>2. /\ n.data \in Int /\ n.height \in Nat /\ n.rhs \in AnyTree
      /\ l.data \in Int /\ l.lhs \in AnyTree
      /\ x.data \in Int /\ x.lhs \in AnyTree /\ x.rhs \in AnyTree
  BY <1>1, NodeParts
<1> HIDE DEF x, l
<1>3. low \in AnyTree
  BY <1>2, AboveIs, NodeParts
<1> HIDE DEF low
<1>4. /\ left_rotate(l) \in AnyNode /\ left_rotate(l) \in AnyTree
      /\ left_rotate(l).data = x.data
      /\ left_rotate(l).lhs = low /\ left_rotate(l).rhs = x.rhs
  <2> DEFINE u == Above(x.data, low, x.rhs)
  <2>1. u \in AnyNode /\ u.data = x.data /\ u.lhs = low /\ u.rhs = x.rhs
    BY <1>2, <1>3, AboveIs
  <2> HIDE DEF u
  <2>2. u \in AnyTree
    BY <2>1, NodeParts
  <2> QED
    BY <1>1, <2>1, <2>2 DEF u
<1>5. m \in AnyNode /\ m.data = n.data /\ m.lhs = left_rotate(l) /\ m.rhs = n.rhs
  BY <1>2, <1>4, NodeIs
<1> HIDE DEF m
<1>6. right_rotate(m) = Above(x.data, low, Above(n.data, x.rhs, n.rhs))
  BY <1>4, <1>5, NodeParts, RightRotateIs
<1> QED
  BY <1>1, <1>6 DEF m, low, l, x

LEMMA RightLeftIs ==
  ASSUME NEW n \in AnyNode, n.rhs \in AnyNode, n.rhs.lhs # NULL
  PROVE  /\ n.rhs.lhs \in AnyNode
         /\ left_rotate(Node(n.data, n.lhs, right_rotate(n.rhs), n.height)) =
              Above(n.rhs.lhs.data,
                    Above(n.data, n.lhs, n.rhs.lhs.lhs),
                    Above(n.rhs.data, n.rhs.lhs.rhs, n.rhs.rhs))
<1> DEFINE r == n.rhs
           x == r.lhs
           low == Above(r.data, x.rhs, r.rhs)
           m == Node(n.data, n.lhs, right_rotate(r), n.height)
<1>1. x \in AnyNode /\ right_rotate(r) = Above(x.data, x.lhs, low)
  BY RightRotateIs
<1>2. /\ n.data \in Int /\ n.height \in Nat /\ n.lhs \in AnyTree
      /\ r.data \in Int /\ r.rhs \in AnyTree
      /\ x.data \in Int /\ x.lhs \in AnyTree /\ x.rhs \in AnyTree
  BY <1>1, NodeParts
<1> HIDE DEF x, r
<1>3. low \in AnyTree
  BY <1>2, AboveIs, NodeParts
<1> HIDE DEF low
<1>4. /\ right_rotate(r) \in AnyNode /\ right_rotate(r) \in AnyTree
      /\ right_rotate(r).data = x.data
      /\ right_rotate(r).rhs = low /\ right_rotate(r).lhs = x.lhs
  <2> DEFINE u == Above(x.data, x.lhs, low)
  <2>1. u \in AnyNode /\ u.data = x.data /\ u.rhs = low /\ u.lhs = x.lhs
    BY <1>2, <1>3, AboveIs
  <2> HIDE DEF u
  <2>2. u \in AnyTree
    BY <2>1, NodeParts
  <2> QED
    BY <1>1, <2>1, <2>2 DEF u
<1>5. m \in AnyNode /\ m.data = n.data /\ m.rhs = right_rotate(r) /\ m.lhs = n.lhs
  BY <1>2, <1>4, NodeIs
<1> HIDE DEF m
<1>6. left_rotate(m) = Above(x.data, Above(n.data, n.lhs, x.lhs), low)
  BY <1>4, <1>5, NodeParts, LeftRotateIs
<1> QED
  BY <1>1, <1>6 DEF m, low, r, x

\* What a balanced node of height 2 or more knows of its subtrees.
LEMMA EvenHeights ==
  ASSUME NEW n \in AnyNode, Even(n), n.height >= 1, NEW k \in Nat, n.height = k + 1
  PROVE  /\ Even(n.lhs) /\ Even(n.rhs)
         /\ height(n.lhs) \in {k, k - 1} /\ height(n.rhs) \in {k, k - 1}
         /\ height(n.lhs) = k \/ height(n.rhs) = k
<1>1. Even(n.lhs) /\ Even(n.rhs) /\ Fits(n)
  BY EvenIs
<1>2. height(n.lhs) \in Nat /\ height(n.rhs) \in Nat
  BY NodeParts, HeightIs
<1>3. n.height = 1 + max(height(n.lhs), height(n.rhs))
  BY <1>1, <1>2 DEF Fits
<1>4. height(n.lhs) - height(n.rhs) \in {-1, 0, 1}
  BY <1>1 DEF Fits
<1> QED
  BY <1>1, <1>2, <1>3, <1>4 DEF max

\* A node whose left subtree is two higher than its right one, towards d.
LEMMA LeftHeavyBalances ==
  ASSUME NEW n \in AnyNode, NEW d \in Int, Even(n.lhs), Even(n.rhs),
         NEW k \in Nat, height(n.rhs) = k, height(n.lhs) = k + 2, Leans(n.lhs, d)
  PROVE  /\ balance_node(n, d) \in AnyNode
         /\ Even(balance_node(n, d)) /\ height(balance_node(n, d)) = k + 2
<1> DEFINE l == n.lhs
           b == balance_node(n, d)
<1>1. get_balance(n) = 2
  BY DEF get_balance
<1>2. l \in AnyNode /\ l.data \in Int /\ n.data \in Int /\ n.rhs \in AnyTree
  BY <1>1, LeaningIs, NodeParts
<1>3. /\ l.lhs \in AnyTree /\ l.rhs \in AnyTree /\ l.height = k + 2
      /\ height(l.lhs) \in Nat /\ height(l.rhs) \in Nat
  BY <1>2, NodeParts, HeightIs
<1>4. /\ Even(l.lhs) /\ Even(l.rhs)
      /\ height(l.lhs) \in {k + 1, k} /\ height(l.rhs) \in {k + 1, k}
  <2>1. k + 1 \in Nat /\ l.height = (k + 1) + 1 /\ l.height >= 1 /\ (k + 1) - 1 = k
    BY <1>3
  <2> HIDE DEF l
  <2>2. Even(l)
    BY DEF l
  <2> QED
    BY <1>2, <2>1, <2>2, EvenHeights
<1>5. CASE d < l.data
  <2>1. b = Above(l.data, l.lhs, Above(n.data, l.rhs, n.rhs))
    <3>1. n.lhs # NULL /\ b = right_rotate(n)
      BY <1>1, <1>5, BalanceIs
    <3> QED
      BY <3>1, RightRotateIs
  <2>2. height(l.lhs) = k + 1 /\ height(l.rhs) = k
    BY <1>2, <1>3, <1>4, <1>5 DEF Leans
  <2> DEFINE low == Above(n.data, l.rhs, n.rhs)
  <2>3. low \in AnyNode /\ low \in AnyTree /\ height(low) = k + 1 /\ Even(low)
    <3>1. low \in AnyNode /\ height(low) = 1 + max(height(l.rhs), height(n.rhs))
      BY <1>2, <1>3, AboveIs
    <3>2. Even(low)
      BY <1>2, <1>3, <1>4, <2>2, AboveHolds
    <3> HIDE DEF low
    <3> QED
      BY <2>2, <3>1, <3>2, NodeParts DEF max
  <2> HIDE DEF low, b
  <2>4. b = Above(l.data, l.lhs, low)
    BY <2>1 DEF low
  <2>5. b \in AnyNode /\ height(b) = 1 + max(height(l.lhs), height(low))
    BY <1>2, <1>3, <2>3, <2>4, AboveIs
  <2>6. Even(b)
    BY <1>2, <1>3, <1>4, <2>2, <2>3, <2>4, AboveHolds
  <2> QED
    BY <2>2, <2>3, <2>5, <2>6 DEF max, b
<1>6. CASE d > l.data
  <2> DEFINE x == l.rhs
             low == Above(l.data, l.lhs, x.lhs)
             high == Above(n.data, x.rhs, n.rhs)
  <2>1. height(x) = k + 1 /\ height(l.lhs) = k
    BY <1>2, <1>3, <1>4, <1>6 DEF Leans
  <2>2. x # NULL
    BY <2>1, HeightIs
  <2>3. x \in AnyNode /\ b = Above(x.data, low, high)
    <3>1. b = right_rotate(Node(n.data, left_rotate(n.lhs), n.rhs, n.height))
      BY <1>1, <1>6, <2>2, BalanceIs
    <3> QED
      BY <1>2, <2>2, <3>1, LeftRightIs
  <2>4. /\ x.data \in Int /\ x.lhs \in AnyTree /\ x.rhs \in AnyTree
        /\ height(x.lhs) \in Nat /\ height(x.rhs) \in Nat /\ x.height = k + 1
    BY <2>1, <2>3, NodeParts, HeightIs
  <2>5. /\ Even(x.lhs) /\ Even(x.rhs)
        /\ height(x.lhs) \in {k, k - 1} /\ height(x.rhs) \in {k, k - 1}
    <3>1. Even(x) /\ x.height >= 1
      BY <1>4, <2>4
    <3> HIDE DEF x
    <3> QED
      BY <2>3, <2>4, <3>1, EvenHeights
  <2>6. low \in AnyTree /\ height(low) = k + 1 /\ Even(low)
    <3>1. low \in AnyNode /\ height(low) = 1 + max(height(l.lhs), height(x.lhs))
      <4>1. l.data \in Int /\ l.lhs \in AnyTree /\ x.lhs \in AnyTree
        BY <1>2, <1>3, <2>4
      <4> HIDE DEF l, x
      <4> QED
        BY <4>1, AboveIs
    <3>2. height(l.lhs) - height(x.lhs) \in {-1, 0, 1}
      BY <2>1, <2>4, <2>5
    <3>3. Even(low)
      BY <1>2, <1>3, <1>4, <2>4, <2>5, <3>2, AboveHolds
    <3> HIDE DEF low
    <3> QED
      BY <2>1, <2>4, <2>5, <3>1, <3>3, NodeParts DEF max
  <2>7. high \in AnyTree /\ height(high) = k + 1 /\ Even(high)
    <3>1. high \in AnyNode /\ height(high) = 1 + max(height(x.rhs), height(n.rhs))
      BY <1>2, <2>4, AboveIs
    <3>2. height(x.rhs) - height(n.rhs) \in {-1, 0, 1}
      BY <2>4, <2>5
    <3>3. Even(high)
      BY <1>2, <2>4, <2>5, <3>2, AboveHolds
    <3> HIDE DEF high
    <3> QED
      BY <2>4, <2>5, <3>1, <3>3, NodeParts DEF max
  <2> HIDE DEF low, high, b
  <2>8. b \in AnyNode /\ height(b) = 1 + max(height(low), height(high))
    BY <2>3, <2>4, <2>6, <2>7, AboveIs
  <2>9. Even(b)
    BY <2>3, <2>4, <2>6, <2>7, AboveHolds
  <2> QED
    BY <2>6, <2>7, <2>8, <2>9 DEF max, b
<1> QED
  BY <1>2, <1>5, <1>6 DEF Leans

LEMMA RightHeavyBalances ==
  ASSUME NEW n \in AnyNode, NEW d \in Int, Even(n.lhs), Even(n.rhs),
         NEW k \in Nat, height(n.lhs) = k, height(n.rhs) = k + 2, Leans(n.rhs, d)
  PROVE  /\ balance_node(n, d) \in AnyNode
         /\ Even(balance_node(n, d)) /\ height(balance_node(n, d)) = k + 2
<1> DEFINE r == n.rhs
           b == balance_node(n, d)
<1>1. get_balance(n) = -2
  BY DEF get_balance
<1>2. r \in AnyNode /\ r.data \in Int /\ n.data \in Int /\ n.lhs \in AnyTree
  BY <1>1, LeaningIs, NodeParts
<1>3. /\ r.lhs \in AnyTree /\ r.rhs \in AnyTree /\ r.height = k + 2
      /\ height(r.lhs) \in Nat /\ height(r.rhs) \in Nat
  BY <1>2, NodeParts, HeightIs
<1>4. /\ Even(r.lhs) /\ Even(r.rhs)
      /\ height(r.lhs) \in {k + 1, k} /\ height(r.rhs) \in {k + 1, k}
  <2>1. k + 1 \in Nat /\ r.height = (k + 1) + 1 /\ r.height >= 1 /\ (k + 1) - 1 = k
    BY <1>3
  <2> HIDE DEF r
  <2>2. Even(r)
    BY DEF r
  <2> QED
    BY <1>2, <2>1, <2>2, EvenHeights
<1>5. CASE d > r.data
  <2>1. b = Above(r.data, Above(n.data, n.lhs, r.lhs), r.rhs)
    <3>1. n.rhs # NULL /\ b = left_rotate(n)
      BY <1>1, <1>5, BalanceIs
    <3> QED
      BY <3>1, LeftRotateIs
  <2>2. height(r.rhs) = k + 1 /\ height(r.lhs) = k
    BY <1>2, <1>3, <1>4, <1>5 DEF Leans
  <2> DEFINE low == Above(n.data, n.lhs, r.lhs)
  <2>3. low \in AnyNode /\ low \in AnyTree /\ height(low) = k + 1 /\ Even(low)
    <3>1. low \in AnyNode /\ height(low) = 1 + max(height(n.lhs), height(r.lhs))
      BY <1>2, <1>3, AboveIs
    <3>2. Even(low)
      BY <1>2, <1>3, <1>4, <2>2, AboveHolds
    <3> HIDE DEF low
    <3> QED
      BY <2>2, <3>1, <3>2, NodeParts DEF max
  <2> HIDE DEF low, b
  <2>4. b = Above(r.data, low, r.rhs)
    BY <2>1 DEF low
  <2>5. b \in AnyNode /\ height(b) = 1 + max(height(low), height(r.rhs))
    BY <1>2, <1>3, <2>3, <2>4, AboveIs
  <2>6. Even(b)
    BY <1>2, <1>3, <1>4, <2>2, <2>3, <2>4, AboveHolds
  <2> QED
    BY <2>2, <2>3, <2>5, <2>6 DEF max, b
<1>6. CASE d < r.data
  <2> DEFINE x == r.lhs
             low == Above(n.data, n.lhs, x.lhs)
             high == Above(r.data, x.rhs, r.rhs)
  <2>1. height(x) = k + 1 /\ height(r.rhs) = k
    BY <1>2, <1>3, <1>4, <1>6 DEF Leans
  <2>2. x # NULL
    BY <2>1, HeightIs
  <2>3. x \in AnyNode /\ b = Above(x.data, low, high)
    <3>1. b = left_rotate(Node(n.data, n.lhs, right_rotate(n.rhs), n.height))
      BY <1>1, <1>6, <2>2, BalanceIs
    <3> QED
      BY <1>2, <2>2, <3>1, RightLeftIs
  <2>4. /\ x.data \in Int /\ x.lhs \in AnyTree /\ x.rhs \in AnyTree
        /\ height(x.lhs) \in Nat /\ height(x.rhs) \in Nat /\ x.height = k + 1
    BY <2>1, <2>3, NodeParts, HeightIs
  <2>5. /\ Even(x.lhs) /\ Even(x.rhs)
        /\ height(x.lhs) \in {k, k - 1} /\ height(x.rhs) \in {k, k - 1}
    <3>1. Even(x) /\ x.height >= 1
      BY <1>4, <2>4
    <3> HIDE DEF x
    <3> QED
      BY <2>3, <2>4, <3>1, EvenHeights
  <2>6. low \in AnyTree /\ height(low) = k + 1 /\ Even(low)
    <3>1. low \in AnyNode /\ height(low) = 1 + max(height(n.lhs), height(x.lhs))
      BY <1>2, <2>4, AboveIs
    <3>2. height(n.lhs) - height(x.lhs) \in {-1, 0, 1}
      BY <2>4, <2>5
    <3>3. Even(low)
      BY <1>2, <2>4, <2>5, <3>2, AboveHolds
    <3> HIDE DEF low
    <3> QED
      BY <2>4, <2>5, <3>1, <3>3, NodeParts DEF max
  <2>7. high \in AnyTree /\ height(high) = k + 1 /\ Even(high)
    <3>1. high \in AnyNode /\ height(high) = 1 + max(height(x.rhs), height(r.rhs))
      <4>1. r.data \in Int /\ r.rhs \in AnyTree /\ x.rhs \in AnyTree
        BY <1>2, <1>3, <2>4
      <4> HIDE DEF r, x
      <4> QED
        BY <4>1, AboveIs
    <3>2. height(x.rhs) - height(r.rhs) \in {-1, 0, 1}
      BY <2>1, <2>4, <2>5
    <3>3. Even(high)
      BY <1>2, <1>3, <1>4, <2>4, <2>5, <3>2, AboveHolds
    <3> HIDE DEF high
    <3> QED
      BY <2>1, <2>4, <2>5, <3>1, <3>3, NodeParts DEF max
  <2> HIDE DEF low, high, b
  <2>8. b \in AnyNode /\ height(b) = 1 + max(height(low), height(high))
    BY <2>3, <2>4, <2>6, <2>7, AboveIs
  <2>9. Even(b)
    BY <2>3, <2>4, <2>6, <2>7, AboveHolds
  <2> QED
    BY <2>6, <2>7, <2>8, <2>9 DEF max, b
<1> QED
  BY <1>2, <1>5, <1>6 DEF Leans

\* One level of an insertion, on the left and on the right.
LEMMA GrowsLeft ==
  ASSUME NEW n \in AnyNode, NEW d \in Int, NEW tb \in BOOLEAN, tb, NEW u, Even(n), d < n.data,
         Grown(n.lhs, u, d)
  PROVE  LET s == Settled(Node(n.data, u, n.rhs, n.height), d, tb)
         IN  s # CRASH /\ Grown(n, s, d)
<1> DEFINE l == n.lhs
           r == n.rhs
           a == Above(n.data, u, r)
           s == Settled(Node(n.data, u, r, n.height), d, tb)
<1>1. /\ n.data \in Int /\ n.height \in Nat /\ l \in AnyTree /\ r \in AnyTree
      /\ height(n) = n.height /\ n # NULL
  BY NodeParts, HeightIs
<1>2. /\ u \in AnyTree /\ Even(u) /\ Even(l) /\ Even(r) /\ Fits(n)
      /\ height(u) \in Nat /\ height(l) \in Nat /\ height(r) \in Nat
  BY <1>1, EvenIs, HeightIs DEF Grown
<1>3. s = balance_node(a, d)
  <2>1. Node(n.data, u, r, n.height) \in AnyNode
    BY <1>1, <1>2, NodeIs
  <2>2. Node(n.data, u, r, n.height) \notin {NULL, CRASH}
    BY <2>1, NodeParts
  <2>3. Raised(Node(n.data, u, r, n.height)) = a
    BY <1>1, <1>2, RaisedNode
  <2> QED
    BY <2>2, <2>3 DEF Settled
<1>4. /\ a \in AnyNode /\ a \in AnyTree /\ a.lhs = u /\ a.rhs = r /\ a.data = n.data
      /\ height(a) = 1 + max(height(u), height(r))
  <2>1. /\ a \in AnyNode /\ a.lhs = u /\ a.rhs = r /\ a.data = n.data
        /\ height(a) = 1 + max(height(u), height(r))
    BY <1>1, <1>2, AboveIs
  <2> HIDE DEF a
  <2> QED
    BY <2>1, NodeParts
<1>5. /\ height(l) - height(r) \in {-1, 0, 1}
      /\ \/ n.height = 1 + max(height(l), height(r))
         \/ l = NULL /\ r = NULL /\ n.height = 0
  BY <1>2 DEF Fits
<1>6. /\ l = NULL => height(u) = 0 /\ height(l) = 0
      /\ \/ height(u) = height(l)
         \/ height(u) = height(l) + 1 /\ (height(u) >= 2 => Leans(u, d))
  BY HeightIs DEF Grown
<1>7. Even(a) <=> height(u) - height(r) \in {-1, 0, 1}
  BY <1>1, <1>2, AboveHolds
<1> HIDE DEF a, s, l, r
<1>8. CASE height(u) - height(r) \in {-1, 0, 1}
  <2>1. s = a
    <3>1. get_balance(a) \in {-1, 0, 1}
      BY <1>4, <1>8 DEF get_balance
    <3> QED
      BY <1>3, <1>4, <3>1, BalanceIs
  <2>2. \/ height(a) = height(n)
        \/ height(a) = height(n) + 1 /\ (height(a) >= 2 => Leans(a, d))
    <3>1. CASE l = NULL /\ r = NULL /\ n.height = 0
      BY <1>1, <1>4, <1>6, <3>1, HeightIs DEF max
    <3>2. CASE n.height = 1 + max(height(l), height(r))
      <4>1. CASE height(u) = height(l)
        BY <1>1, <1>4, <3>2, <4>1
      <4>2. CASE height(u) = height(l) + 1 /\ height(u) <= height(r)
        BY <1>1, <1>2, <1>4, <3>2, <4>2 DEF max
      <4>3. CASE height(u) = height(l) + 1 /\ height(u) = height(r) + 1
        <5>1. Leans(a, d)
          BY <1>4, <4>3 DEF Leans
        <5> QED
          BY <1>1, <1>2, <1>4, <3>2, <4>3, <5>1 DEF max
      <4> QED
        BY <1>2, <1>6, <1>8, <4>1, <4>2, <4>3
    <3> QED
      BY <1>5, <3>1, <3>2
  <2>3. Grown(n, a, d)
    BY <1>1, <1>4, <1>7, <1>8, <2>2 DEF Grown
  <2> QED
    BY <1>4, <2>1, <2>3, NodeParts DEF s, r
<1>9. CASE height(u) - height(r) \notin {-1, 0, 1}
  <2>1. height(u) = height(l) + 1 /\ height(l) = height(r) + 1 /\ Leans(u, d)
    BY <1>2, <1>5, <1>6, <1>9
  <2>2. height(u) = height(r) + 2 /\ n.height = height(r) + 2
    <3>1. l # NULL
      BY <1>2, <1>6, <2>1
    <3> QED
      BY <1>2, <1>5, <2>1, <3>1 DEF max
  <2>3. s \in AnyNode /\ Even(s) /\ height(s) = height(r) + 2
    BY <1>2, <1>3, <1>4, <2>1, <2>2, LeftHeavyBalances
  <2>4. Grown(n, s, d)
    BY <1>1, <2>2, <2>3, NodeParts DEF Grown
  <2> QED
    BY <2>3, <2>4, NodeParts DEF s, r
<1> QED
  BY <1>8, <1>9

LEMMA GrowsRight ==
  ASSUME NEW n \in AnyNode, NEW d \in Int, NEW tb \in BOOLEAN, tb, NEW u, Even(n), d > n.data,
         Grown(n.rhs, u, d)
  PROVE  LET s == Settled(Node(n.data, n.lhs, u, n.height), d, tb)
         IN  s # CRASH /\ Grown(n, s, d)
<1> DEFINE l == n.lhs
           r == n.rhs
           a == Above(n.data, l, u)
           s == Settled(Node(n.data, l, u, n.height), d, tb)
<1>1. /\ n.data \in Int /\ n.height \in Nat /\ l \in AnyTree /\ r \in AnyTree
      /\ height(n) = n.height /\ n # NULL
  BY NodeParts, HeightIs
<1>2. /\ u \in AnyTree /\ Even(u) /\ Even(l) /\ Even(r) /\ Fits(n)
      /\ height(u) \in Nat /\ height(l) \in Nat /\ height(r) \in Nat
  BY <1>1, EvenIs, HeightIs DEF Grown
<1>3. s = balance_node(a, d)
  <2>1. Node(n.data, l, u, n.height) \in AnyNode
    BY <1>1, <1>2, NodeIs
  <2>2. Node(n.data, l, u, n.height) \notin {NULL, CRASH}
    BY <2>1, NodeParts
  <2>3. Raised(Node(n.data, l, u, n.height)) = a
    BY <1>1, <1>2, RaisedNode
  <2> QED
    BY <2>2, <2>3 DEF Settled
<1>4. /\ a \in AnyNode /\ a \in AnyTree /\ a.lhs = l /\ a.rhs = u /\ a.data = n.data
      /\ height(a) = 1 + max(height(l), height(u))
  <2>1. /\ a \in AnyNode /\ a.lhs = l /\ a.rhs = u /\ a.data = n.data
        /\ height(a) = 1 + max(height(l), height(u))
    BY <1>1, <1>2, AboveIs
  <2> HIDE DEF a
  <2> QED
    BY <2>1, NodeParts
<1>5. /\ height(l) - height(r) \in {-1, 0, 1}
      /\ \/ n.height = 1 + max(height(l), height(r))
         \/ l = NULL /\ r = NULL /\ n.height = 0
  BY <1>2 DEF Fits
<1>6. /\ r = NULL => height(u) = 0 /\ height(r) = 0
      /\ \/ height(u) = height(r)
         \/ height(u) = height(r) + 1 /\ (height(u) >= 2 => Leans(u, d))
  BY HeightIs DEF Grown
<1>7. Even(a) <=> height(l) - height(u) \in {-1, 0, 1}
  BY <1>1, <1>2, AboveHolds
<1> HIDE DEF a, s, l, r
<1>8. CASE height(l) - height(u) \in {-1, 0, 1}
  <2>1. s = a
    <3>1. get_balance(a) \in {-1, 0, 1}
      BY <1>4, <1>8 DEF get_balance
    <3> QED
      BY <1>3, <1>4, <3>1, BalanceIs
  <2>2. \/ height(a) = height(n)
        \/ height(a) = height(n) + 1 /\ (height(a) >= 2 => Leans(a, d))
    <3>1. CASE l = NULL /\ r = NULL /\ n.height = 0
      BY <1>1, <1>4, <1>6, <3>1, HeightIs DEF max
    <3>2. CASE n.height = 1 + max(height(l), height(r))
      <4>1. CASE height(u) = height(r)
        BY <1>1, <1>4, <3>2, <4>1
      <4>2. CASE height(u) = height(r) + 1 /\ height(u) <= height(l)
        BY <1>1, <1>2, <1>4, <3>2, <4>2 DEF max
      <4>3. CASE height(u) = height(r) + 1 /\ height(u) = height(l) + 1
        <5>1. Leans(a, d)
          BY <1>4, <4>3 DEF Leans
        <5> QED
          BY <1>1, <1>2, <1>4, <3>2, <4>3, <5>1 DEF max
      <4> QED
        BY <1>2, <1>6, <1>8, <4>1, <4>2, <4>3
    <3> QED
      BY <1>5, <3>1, <3>2
  <2>3. Grown(n, a, d)
    BY <1>1, <1>4, <1>7, <1>8, <2>2 DEF Grown
  <2> QED
    BY <1>4, <2>1, <2>3, NodeParts DEF s, l
<1>9. CASE height(l) - height(u) \notin {-1, 0, 1}
  <2>1. height(u) = height(r) + 1 /\ height(r) = height(l) + 1 /\ Leans(u, d)
    BY <1>2, <1>5, <1>6, <1>9
  <2>2. height(u) = height(l) + 2 /\ n.height = height(l) + 2
    <3>1. r # NULL
      BY <1>2, <1>6, <2>1
    <3> QED
      BY <1>2, <1>5, <2>1, <3>1 DEF max
  <2>3. s \in AnyNode /\ Even(s) /\ height(s) = height(l) + 2
    BY <1>2, <1>3, <1>4, <2>1, <2>2, RightHeavyBalances
  <2>4. Grown(n, s, d)
    BY <1>1, <2>2, <2>3, NodeParts DEF Grown
  <2> QED
    BY <2>3, <2>4, NodeParts DEF s, l
<1> QED
  BY <1>8, <1>9

\* An insertion into a balanced tree follows no null pointer and leaves the
\* tree balanced, whether or not there was memory.
LEMMA InsertGrows ==
  ASSUME NEW d \in Int, NEW tb \in BOOLEAN, NEW memory \in BOOLEAN
  PROVE  \A t \in AllTrees : tb /\ Even(t) /\ d \notin DataOf[t] =>
            /\ insert_node(t, d, tb, memory) # CRASH
            /\ Grown(t, insert_node(t, d, tb, memory), d)
<1> DEFINE put(t) == insert_node(t, d, tb, memory)
           X == {t \in AllTrees : tb /\ Even(t) /\ d \notin DataOf[t] =>
                    put(t) # CRASH /\ Grown(t, put(t), d)}
<1>0. ASSUME NEW n \in AllTrees \ {NULL}, d # n.data
      PROVE  put(n) = Settled(Joined(IF d < n.data THEN [n EXCEPT !.lhs = put(n.lhs)]
                                                   ELSE [n EXCEPT !.rhs = put(n.rhs)]), d, tb)
  BY <1>0, InsertIs
<1>1. NULL \in X
  <2>1. put(NULL) = IF memory THEN make_node(d) ELSE NULL
    BY InsertIs
  <2>2. Grown(NULL, make_node(d), d) /\ make_node(d) # CRASH
    <3>1. height(make_node(d)) = 0 /\ make_node(d) \in AnyTree
      BY LeafIs, HeightIs, NodeParts
    <3> QED
      BY <3>1, LeafIs, HeightIs, TreeIs DEF Grown
  <2>3. Grown(NULL, NULL, d) /\ NULL # CRASH
    BY HeightIs, TreeIs, EvenIs DEF Grown
  <2> HIDE DEF put
  <2> QED
    BY <2>1, <2>2, <2>3, AllTreesAre
<1>2. ASSUME NEW n \in AllTrees \ {NULL}, n.lhs \in X, n.rhs \in X PROVE n \in X
  <2> SUFFICES ASSUME tb, Even(n), d \notin DataOf[n]
               PROVE  put(n) # CRASH /\ Grown(n, put(n), d)
    OBVIOUS
  <2>1. /\ n \in AnyNode /\ n.lhs \in AnyTree /\ n.rhs \in AnyTree
        /\ n.data \in Int /\ n.height \in Nat
    BY AllTreesAre, NodeParts
  <2>2. DataOf[n] = {n.data} \cup DataOf[n.lhs] \cup DataOf[n.rhs]
    BY <2>1, DataIs
  <2>3. Even(n.lhs) /\ Even(n.rhs)
    BY <2>1, EvenIs
  <2>4. put(n) = Settled(Joined(IF d < n.data THEN [n EXCEPT !.lhs = put(n.lhs)]
                                              ELSE [n EXCEPT !.rhs = put(n.rhs)]), d, tb)
    <3>1. d # n.data
      BY <2>2
    <3> HIDE DEF put, X
    <3> QED
      BY <1>0, <3>1
  <2>5. /\ put(n.lhs) # CRASH /\ Grown(n.lhs, put(n.lhs), d)
        /\ put(n.rhs) # CRASH /\ Grown(n.rhs, put(n.rhs), d)
    BY <1>2, <2>2, <2>3
  <2>6. put(n.lhs) \in AnyTree /\ put(n.rhs) \in AnyTree
    BY <2>5 DEF Grown
  <2> HIDE DEF X, put
  <2>7. CASE d < n.data
    <3>1. Joined([n EXCEPT !.lhs = put(n.lhs)]) = Node(n.data, put(n.lhs), n.rhs, n.height)
      BY <2>1, <2>5, <2>6, JoinedIs
    <3> QED
      BY <2>1, <2>4, <2>5, <2>7, <3>1, GrowsLeft
  <2>8. CASE d > n.data
    <3>1. Joined([n EXCEPT !.rhs = put(n.rhs)]) = Node(n.data, n.lhs, put(n.rhs), n.height)
      BY <2>1, <2>5, <2>6, JoinedIs
    <3>2. ~(d < n.data)
      BY <2>1, <2>8
    <3> QED
      BY <2>1, <2>4, <2>5, <2>8, <3>1, <3>2, GrowsRight
  <2> QED
    BY <2>1, <2>2, <2>7, <2>8
<1> HIDE DEF X
<1>3. AllTrees \subseteq X
  BY <1>1, <1>2, AllTreesInduction
<1> QED
  BY <1>3 DEF X

-----------------------------------------------------------------------------
(* The loop for the least number, the search, the walk and the removal *)

LEMMA LeftmostIs ==
  ASSUME NEW n \in AllTrees, n # NULL
  PROVE  leftmost(n) = IF n.lhs = NULL THEN n.data ELSE leftmost(n.lhs)
<1> DEFINE Step == [m \in AnyNode |-> [a \in Int |-> [b \in Int |->
                        IF m.lhs = NULL THEN m.data ELSE a]]]
           F == CHOOSE f : f = [m \in AllTrees \ {NULL} |->
                        IF m.lhs = NULL THEN m.data ELSE f[m.lhs]]
<1>1. \A m \in AllTrees \ {NULL} : leftmost(m) = F[m]
  BY DEF leftmost
<1>2. Step \in [AnyNode -> [Int -> [Int -> Int]]]
  BY NodeParts
<1>3. \A m \in AnyNode : \A a, b \in Int : Step[m][a][b] = IF m.lhs = NULL THEN m.data ELSE a
  OBVIOUS
<1> HIDE DEF Step
<1>4. PICK g : Computes(g, AnyTree, Int, 0, Step)
  <2>1. 0 \in Int
    OBVIOUS
  <2> QED
    BY <1>2, <2>1, TreeRecursion
<1> DEFINE h == [m \in AllTrees \ {NULL} |-> g[m]]
<1>5. h = [m \in AllTrees \ {NULL} |-> IF m.lhs = NULL THEN m.data ELSE h[m.lhs]]
  <2>1. ASSUME NEW m \in AllTrees \ {NULL}
        PROVE  g[m] = IF m.lhs = NULL THEN m.data ELSE h[m.lhs]
    <3>1. m \in AnyNode /\ m.lhs \in AllTrees /\ m.rhs \in AllTrees /\ m \in AnyTree
      BY AllTreesAre
    <3>2. g[m] = Step[m][g[m.lhs]][g[m.rhs]] /\ g[m.lhs] \in Int /\ g[m.rhs] \in Int
      BY <1>4, <3>1, AllTreesAre DEF Computes
    <3>3. m.lhs # NULL => h[m.lhs] = g[m.lhs]
      BY <3>1
    <3> HIDE DEF h
    <3> QED
      BY <1>3, <3>1, <3>2, <3>3
  <2> QED
    BY <2>1
<1> HIDE DEF h
<1>6. F = [m \in AllTrees \ {NULL} |-> IF m.lhs = NULL THEN m.data ELSE F[m.lhs]]
  BY <1>5
<1> HIDE DEF F
<1>7. n.lhs \in AllTrees
  BY AllTreesAre
<1> QED
  BY <1>1, <1>6, <1>7

LEMMA FindIs ==
  ASSUME NEW d \in Int
  PROVE  /\ ~tree_find(NULL, d)
         /\ \A n \in AllTrees : n # NULL =>
              tree_find(n, d) <=> \/ n.data = d
                                  \/ tree_find(IF d > n.data THEN n.rhs ELSE n.lhs, d)
         /\ \A n \in AllTrees : tree_find(n, d) \in BOOLEAN
<1> DEFINE next(m) == IF d > m.data THEN m.rhs ELSE m.lhs
           Step == [m \in AnyNode |-> [a \in BOOLEAN |-> [b \in BOOLEAN |->
                        m.data = d \/ (IF d > m.data THEN b ELSE a)]]]
           F == CHOOSE f : f = [m \in AllTrees |->
                        m # NULL /\ (m.data = d \/ f[next(m)])]
<1>1. \A m \in AllTrees : tree_find(m, d) = F[m]
  BY DEF tree_find
<1>2. Step \in [AnyNode -> [BOOLEAN -> [BOOLEAN -> BOOLEAN]]]
  OBVIOUS
<1>3. \A m \in AnyNode : \A a, b \in BOOLEAN :
         Step[m][a][b] = (m.data = d \/ (IF d > m.data THEN b ELSE a))
  OBVIOUS
<1> HIDE DEF Step
<1>4. PICK g : Computes(g, AnyTree, BOOLEAN, FALSE, Step)
  BY <1>2, TreeRecursion
<1> DEFINE h == [m \in AllTrees |-> g[m]]
<1>5. h = [m \in AllTrees |-> m # NULL /\ (m.data = d \/ h[next(m)])]
  <2>1. ASSUME NEW m \in AllTrees
        PROVE  g[m] = (m # NULL /\ (m.data = d \/ h[next(m)]))
    <3>1. CASE m = NULL
      BY <1>4, <3>1 DEF Computes
    <3>2. CASE m # NULL
      <4>1. m \in AnyNode /\ m.lhs \in AllTrees /\ m.rhs \in AllTrees /\ m \in AnyTree
        BY <3>2, AllTreesAre
      <4>2. /\ g[m] = Step[m][g[m.lhs]][g[m.rhs]]
            /\ g[m.lhs] \in BOOLEAN /\ g[m.rhs] \in BOOLEAN
        BY <1>4, <3>2, <4>1, AllTreesAre DEF Computes
      <4>3. h[m.lhs] = g[m.lhs] /\ h[m.rhs] = g[m.rhs]
        BY <4>1
      <4> HIDE DEF h
      <4>4. g[m] = (m.data = d \/ (IF d > m.data THEN g[m.rhs] ELSE g[m.lhs]))
        BY <1>3, <4>1, <4>2
      <4>5. CASE d > m.data
        BY <3>2, <4>3, <4>4, <4>5
      <4>6. CASE ~(d > m.data)
        BY <3>2, <4>3, <4>4, <4>6
      <4> QED
        BY <4>5, <4>6
    <3> QED
      BY <3>1, <3>2
  <2> QED
    BY <2>1
<1> HIDE DEF h
<1>6. F = [m \in AllTrees |-> m # NULL /\ (m.data = d \/ F[next(m)])]
  BY <1>5
<1> HIDE DEF F
<1>7. \A m \in AllTrees : F[m] = (m # NULL /\ (m.data = d \/ F[next(m)]))
  BY <1>6
<1>8. \A m \in AllTrees : m # NULL => next(m) \in AllTrees
  BY AllTreesAre
<1>9. \A m \in AllTrees : F[m] \in BOOLEAN
  BY <1>7
<1> HIDE DEF next
<1>10. \A m \in AllTrees : m # NULL => tree_find(m, d) = (m.data = d \/ tree_find(next(m), d))
  <2> SUFFICES ASSUME NEW m \in AllTrees, m # NULL
               PROVE  tree_find(m, d) = (m.data = d \/ tree_find(next(m), d))
    OBVIOUS
  <2>1. tree_find(m, d) = F[m] /\ tree_find(next(m), d) = F[next(m)]
    BY <1>1, <1>8
  <2>2. F[m] = (m.data = d \/ F[next(m)])
    BY <1>7
  <2> QED
    BY <2>1, <2>2
<1>11. tree_find(NULL, d) = FALSE
  BY <1>1, <1>7, AllTreesAre
<1> QED
  BY <1>1, <1>9, <1>10, <1>11 DEF next

LEMMA PrintIs ==
  /\ tree_print(NULL) = <<>>
  /\ \A n \in AllTrees : n # NULL =>
        tree_print(n) = tree_print(n.lhs) \o <<n.data>> \o tree_print(n.rhs)
  /\ \A n \in AllTrees : tree_print(n) \in Seq(Int)
<1> DEFINE V == Seq(Int)
           Step == [m \in AnyNode |-> [a \in V |-> [b \in V |-> a \o <<m.data>> \o b]]]
           F == CHOOSE f : f = [m \in AllTrees |->
                    IF m = NULL THEN <<>> ELSE f[m.lhs] \o <<m.data>> \o f[m.rhs]]
<1>1. \A m \in AllTrees : tree_print(m) = F[m]
  BY DEF tree_print
<1>2. ASSUME NEW m \in AnyNode, NEW a \in V, NEW b \in V
      PROVE  a \o <<m.data>> \o b \in V
  BY NodeParts
<1>3. <<>> \in V
  OBVIOUS
<1> HIDE DEF V
<1>4. Step \in [AnyNode -> [V -> [V -> V]]]
  BY <1>2
<1>5. \A m \in AnyNode : \A a, b \in V : Step[m][a][b] = a \o <<m.data>> \o b
  OBVIOUS
<1> HIDE DEF Step
<1>6. PICK g : Computes(g, AnyTree, V, <<>>, Step)
  BY <1>3, <1>4, TreeRecursion
<1> DEFINE h == [m \in AllTrees |-> g[m]]
<1>7. h = [m \in AllTrees |-> IF m = NULL THEN <<>> ELSE h[m.lhs] \o <<m.data>> \o h[m.rhs]]
  <2>1. ASSUME NEW m \in AllTrees
        PROVE  g[m] = IF m = NULL THEN <<>> ELSE h[m.lhs] \o <<m.data>> \o h[m.rhs]
    <3>1. CASE m = NULL
      BY <1>6, <3>1 DEF Computes
    <3>2. CASE m # NULL
      <4>1. m \in AnyNode /\ m.lhs \in AllTrees /\ m.rhs \in AllTrees /\ m \in AnyTree
        BY <3>2, AllTreesAre
      <4>2. /\ g[m] = Step[m][g[m.lhs]][g[m.rhs]]
            /\ g[m.lhs] \in V /\ g[m.rhs] \in V
        BY <1>6, <3>2, <4>1, AllTreesAre DEF Computes
      <4>3. h[m.lhs] = g[m.lhs] /\ h[m.rhs] = g[m.rhs]
        BY <4>1
      <4> HIDE DEF h
      <4> QED
        BY <1>5, <3>2, <4>1, <4>2, <4>3
    <3> QED
      BY <3>1, <3>2
  <2> QED
    BY <2>1
<1> HIDE DEF h
<1>8. F = [m \in AllTrees |-> IF m = NULL THEN <<>> ELSE F[m.lhs] \o <<m.data>> \o F[m.rhs]]
  BY <1>7
<1> HIDE DEF F
<1> DEFINE X == {m \in AllTrees : F[m] \in V}
<1>9. NULL \in X
  BY <1>3, <1>8, AllTreesAre
<1>10. ASSUME NEW m \in AllTrees \ {NULL}, m.lhs \in X, m.rhs \in X PROVE m \in X
  <2>1. m \in AnyNode /\ F[m] = F[m.lhs] \o <<m.data>> \o F[m.rhs]
    BY <1>8, AllTreesAre
  <2>2. F[m.lhs] \in V /\ F[m.rhs] \in V
    BY <1>10
  <2> QED
    BY <1>2, <2>1, <2>2
<1>11. AllTrees \subseteq X
  <2> HIDE DEF X
  <2> QED
    BY <1>9, <1>10, AllTreesInduction
<1>12. ASSUME NEW n \in AllTrees, n # NULL
       PROVE  tree_print(n) = tree_print(n.lhs) \o <<n.data>> \o tree_print(n.rhs)
  <2>1. n.lhs \in AllTrees /\ n.rhs \in AllTrees
    BY <1>12, AllTreesAre
  <2>2. F[n] = F[n.lhs] \o <<n.data>> \o F[n.rhs]
    BY <1>8, <1>12
  <2> QED
    BY <1>1, <2>1, <2>2
<1>13. tree_print(NULL) = <<>>
  BY <1>1, <1>8, AllTreesAre
<1>14. \A n \in AllTrees : tree_print(n) \in V
  BY <1>1, <1>11
<1> QED
  BY <1>12, <1>13, <1>14 DEF V

LEMMA LeftmostInt ==
  \A t \in AllTrees : t # NULL => leftmost(t) \in Int
<1> DEFINE X == {t \in AllTrees : t # NULL => leftmost(t) \in Int}
<1>1. NULL \in X
  BY AllTreesAre
<1>2. ASSUME NEW n \in AllTrees \ {NULL}, n.lhs \in X, n.rhs \in X PROVE n \in X
  BY <1>2, LeftmostIs, AllTreesAre, NodeParts
<1> HIDE DEF X
<1>3. AllTrees \subseteq X
  BY <1>1, <1>2, AllTreesInduction
<1> QED
  BY <1>3 DEF X

\* The least number of a tree is the first of it, and one of its own.
LEMMA LeftmostLeast ==
  \A t \in AllTrees : t # NULL /\ Sorted(t) =>
     leftmost(t) \in DataOf[t] /\ \A x \in DataOf[t] : leftmost(t) <= x
<1> DEFINE X == {t \in AllTrees : t # NULL /\ Sorted(t) =>
                    leftmost(t) \in DataOf[t] /\ \A x \in DataOf[t] : leftmost(t) <= x}
<1>1. NULL \in X
  BY AllTreesAre
<1>2. ASSUME NEW n \in AllTrees \ {NULL}, n.lhs \in X, n.rhs \in X PROVE n \in X
  <2> SUFFICES ASSUME Sorted(n)
               PROVE  leftmost(n) \in DataOf[n] /\ \A x \in DataOf[n] : leftmost(n) <= x
    OBVIOUS
  <2>1. /\ n \in AnyNode /\ n.data \in Int
        /\ DataOf[n] = {n.data} \cup DataOf[n.lhs] \cup DataOf[n.rhs]
        /\ DataOf[n.lhs] \subseteq Int /\ DataOf[n.rhs] \subseteq Int
    BY AllTreesAre, NodeParts, DataIs
  <2>2. /\ Sorted(n.lhs)
        /\ \A x \in DataOf[n.lhs] : x < n.data
        /\ \A x \in DataOf[n.rhs] : n.data < x
    BY <2>1, SortedIs DEF Parted
  <2>3. CASE n.lhs = NULL
    BY <2>1, <2>2, <2>3, LeftmostIs, DataIs
  <2>4. CASE n.lhs # NULL
    <3>1. leftmost(n) = leftmost(n.lhs)
      BY <2>4, LeftmostIs
    <3>2. leftmost(n.lhs) \in DataOf[n.lhs] /\ \A x \in DataOf[n.lhs] : leftmost(n.lhs) <= x
      BY <1>2, <2>2, <2>4
    <3> QED
      BY <2>1, <2>2, <3>1, <3>2
  <2> QED
    BY <2>3, <2>4
<1> HIDE DEF X
<1>3. AllTrees \subseteq X
  BY <1>1, <1>2, AllTreesInduction
<1> QED
  BY <1>3 DEF X

\* In a sorted tree the search finds exactly what the tree holds.
LEMMA FindFinds ==
  ASSUME NEW d \in Int
  PROVE  \A t \in AllTrees : Sorted(t) => (tree_find(t, d) <=> d \in DataOf[t])
<1> DEFINE X == {t \in AllTrees : Sorted(t) => (tree_find(t, d) <=> d \in DataOf[t])}
<1>1. NULL \in X
  BY AllTreesAre, FindIs, DataIs
<1>2. ASSUME NEW n \in AllTrees \ {NULL}, n.lhs \in X, n.rhs \in X PROVE n \in X
  <2> SUFFICES ASSUME Sorted(n) PROVE tree_find(n, d) <=> d \in DataOf[n]
    OBVIOUS
  <2>1. /\ n \in AnyNode /\ n.data \in Int
        /\ DataOf[n] = {n.data} \cup DataOf[n.lhs] \cup DataOf[n.rhs]
        /\ DataOf[n.lhs] \subseteq Int /\ DataOf[n.rhs] \subseteq Int
    BY AllTreesAre, NodeParts, DataIs
  <2>2. /\ Sorted(n.lhs) /\ Sorted(n.rhs)
        /\ \A x \in DataOf[n.lhs] : x < n.data
        /\ \A x \in DataOf[n.rhs] : n.data < x
    BY <2>1, SortedIs DEF Parted
  <2>3. /\ tree_find(n.lhs, d) <=> d \in DataOf[n.lhs]
        /\ tree_find(n.rhs, d) <=> d \in DataOf[n.rhs]
    BY <1>2, <2>2
  <2>4. CASE d > n.data
    <3>1. tree_find(n, d) <=> tree_find(n.rhs, d)
      BY <2>1, <2>4, FindIs
    <3> QED
      BY <2>1, <2>2, <2>3, <2>4, <3>1
  <2>5. CASE d < n.data
    <3>1. tree_find(n, d) <=> tree_find(n.lhs, d)
      BY <2>1, <2>5, FindIs
    <3> QED
      BY <2>1, <2>2, <2>3, <2>5, <3>1
  <2>6. CASE d = n.data
    BY <2>1, <2>6, FindIs
  <2> QED
    BY <2>1, <2>4, <2>5, <2>6
<1> HIDE DEF X
<1>3. AllTrees \subseteq X
  BY <1>1, <1>2, AllTreesInduction
<1> QED
  BY <1>3 DEF X

-----------------------------------------------------------------------------
(* Removal *)

\* A node that takes its successor's number.
LEMMA ReplacedIs ==
  ASSUME NEW n \in AnyNode, NEW e \in Int, NEW t \in AnyTree \cup {CRASH}
  PROVE  replaced(n, e, t) = IF t = CRASH THEN CRASH ELSE Node(e, n.lhs, t, n.height)
<1>1. n.lhs # CRASH
  BY NodeParts, TreeIs
<1>2. [n EXCEPT !.data = e, !.rhs = t] = Node(e, n.lhs, t, n.height)
  <2> DEFINE m == [n EXCEPT !.data = e]
  <2>1. m = Node(e, n.lhs, n.rhs, n.height)
    BY DEF Node, AnyNode, NodesOver
  <2>2. [n EXCEPT !.data = e, !.rhs = t] = [m EXCEPT !.rhs = t]
    OBVIOUS
  <2> HIDE DEF m
  <2>3. n.height \in Nat /\ n.lhs \in AnyTree /\ n.rhs \in AnyTree
    BY NodeParts
  <2>4. m \in AnyNode /\ m.lhs = n.lhs /\ m.data = e /\ m.height = n.height
    BY <2>1, <2>3, NodeIs
  <2>5. [m EXCEPT !.rhs = t] = Node(m.data, m.lhs, t, m.height)
    BY <2>4, ExceptIs
  <2> QED
    BY <2>2, <2>4, <2>5
<1>3. /\ Node(e, n.lhs, t, n.height).lhs = n.lhs
      /\ Node(e, n.lhs, t, n.height).rhs = t
  BY DEF Node
<1> QED
  BY <1>1, <1>2, <1>3 DEF replaced, Joined

LEMMA ReplacedType ==
  ASSUME NEW n \in AnyNode, NEW e \in Int, NEW t \in AnyTree \cup {CRASH}
  PROVE  replaced(n, e, t) \in AnyTree \cup {CRASH}
<1>1. n.height \in Nat /\ n.lhs \in AnyTree
  BY NodeParts
<1>2. CASE t \in AnyTree
  <2>1. Node(e, n.lhs, t, n.height) \in AnyTree
    BY <1>1, <1>2, NodeIs, NodeParts
  <2> QED
    BY <2>1, ReplacedIs
<1>3. CASE t = CRASH
  BY <1>3, ReplacedIs
<1> QED
  BY <1>2, <1>3

LEMMA DeleteIs ==
  ASSUME NEW tb \in BOOLEAN, NEW x \in Int
  PROVE  /\ delete_node(NULL, x, tb) = NULL
         /\ \A n \in AllTrees : n # NULL =>
              delete_node(n, x, tb) =
                Settled(
                  CASE x < n.data -> Joined([n EXCEPT !.lhs = delete_node(n.lhs, x, tb)])
                    [] x > n.data -> Joined([n EXCEPT !.rhs = delete_node(n.rhs, x, tb)])
                    [] x = n.data /\ n.lhs = NULL -> n.rhs
                    [] x = n.data /\ n.lhs # NULL /\ n.rhs = NULL -> n.lhs
                    [] OTHER -> replaced(n, leftmost(n.rhs),
                                         delete_node(n.rhs, leftmost(n.rhs), tb)),
                  x, tb)
<1> DEFINE W == AnyTree \cup {CRASH}
           V == [Int -> W]
           temp(n) == IF leftmost(n.rhs) \in Int THEN leftmost(n.rhs) ELSE 0
           part(n, y, a, b, e) ==
              CASE y < n.data -> Joined([n EXCEPT !.lhs = a[y]])
                [] y > n.data -> Joined([n EXCEPT !.rhs = b[y]])
                [] y = n.data /\ n.lhs = NULL -> n.rhs
                [] y = n.data /\ n.lhs # NULL /\ n.rhs = NULL -> n.lhs
                [] OTHER -> replaced(n, e, b[e])
           cut(n, y, a, b) == Settled(part(n, y, a, b, leftmost(n.rhs)), y, tb)
           cut0(n, y, a, b) == Settled(part(n, y, a, b, temp(n)), y, tb)
           Step == [n \in AnyNode |-> [a \in V |-> [b \in V |->
                        [y \in Int |-> cut0(n, y, a, b)]]]]
           none == [y \in Int |-> NULL]
           F == CHOOSE f : f = [n \in AllTrees |-> [y \in Int |->
                        IF n = NULL THEN NULL ELSE cut(n, y, f[n.lhs], f[n.rhs])]]
<1>1. \A n \in AllTrees : \A y \in Int : delete_node(n, y, tb) = F[n][y]
  BY DEF delete_node
<1>2. \A n \in AnyNode : temp(n) \in Int
  OBVIOUS
<1> HIDE DEF temp
<1>3. ASSUME NEW n \in AnyNode, NEW y \in Int, NEW a \in V, NEW b \in V
      PROVE  cut0(n, y, a, b) \in W
  <2>1. a[y] \in W /\ b[y] \in W /\ b[temp(n)] \in W /\ temp(n) \in Int /\ n.data \in Int
    BY <1>2, NodeParts
  <2>2. n.lhs \in W /\ n.rhs \in W
    BY NodeParts
  <2>3. /\ Joined([n EXCEPT !.lhs = a[y]]) \in W
        /\ Joined([n EXCEPT !.rhs = b[y]]) \in W
    BY <2>1, JoinedType
  <2>4. replaced(n, temp(n), b[temp(n)]) \in W
    BY <2>1, ReplacedType
  <2>5. part(n, y, a, b, temp(n)) \in W
    <3> HIDE DEF W, V
    <3>1. y < n.data \/ y > n.data \/ y = n.data
      BY <2>1
    <3>2. CASE y < n.data
      <4>1. ~(y > n.data) /\ y # n.data
        BY <2>1, <3>2
      <4> QED
        BY <2>3, <3>2, <4>1
    <3>3. CASE y > n.data
      <4>1. ~(y < n.data) /\ y # n.data
        BY <2>1, <3>3
      <4> QED
        BY <2>3, <3>3, <4>1
    <3>4. CASE y = n.data
      <4>1. ~(y < n.data) /\ ~(y > n.data)
        BY <2>1, <3>4
      <4>2. CASE n.lhs = NULL
        BY <2>2, <3>4, <4>1, <4>2
      <4>3. CASE n.lhs # NULL /\ n.rhs = NULL
        BY <2>2, <3>4, <4>1, <4>3
      <4>4. CASE n.lhs # NULL /\ n.rhs # NULL
        BY <2>4, <3>4, <4>1, <4>4
      <4> QED
        BY <4>2, <4>3, <4>4
    <3> QED
      BY <3>1, <3>2, <3>3, <3>4
  <2> HIDE DEF part
  <2> QED
    BY <2>5, SettledType
<1>4. none \in V
  BY TreeIs
<1> HIDE DEF part, cut0, cut
<1>5. Step \in [AnyNode -> [V -> [V -> V]]]
  <2>1. \A n \in AnyNode : \A a, b \in V : [y \in Int |-> cut0(n, y, a, b)] \in V
    BY <1>3
  <2> HIDE DEF V
  <2> QED
    BY <2>1
<1>6. \A n \in AnyNode : \A a, b \in V : Step[n][a][b] = [y \in Int |-> cut0(n, y, a, b)]
  OBVIOUS
<1> HIDE DEF Step, V, none
<1>7. PICK g : Computes(g, AnyTree, V, none, Step)
  BY <1>4, <1>5, TreeRecursion
<1> DEFINE h == [n \in AllTrees |-> g[n]]
<1>8. ASSUME NEW n \in AllTrees, n # NULL, NEW y \in Int, NEW a, NEW b
      PROVE  cut0(n, y, a, b) = cut(n, y, a, b)
  <2>1. /\ n \in AnyNode /\ n.data \in Int /\ n.rhs \in AllTrees
        /\ n.lhs \in AnyTree /\ n.rhs \in AnyTree
    BY <1>8, AllTreesAre, NodeParts
  <2>2. CASE leftmost(n.rhs) \in Int
    <3>1. temp(n) = leftmost(n.rhs)
      BY <2>2 DEF temp
    <3> QED
      BY <3>1 DEF cut0, cut
  <2>3. CASE leftmost(n.rhs) \notin Int
    <3>1. n.rhs = NULL
      BY <2>1, <2>3, LeftmostInt
    <3>2. part(n, y, a, b, temp(n)) = part(n, y, a, b, leftmost(n.rhs))
      <4>1. y < n.data \/ y > n.data \/ y = n.data
        BY <2>1
      <4> QED
        BY <3>1, <4>1 DEF part
    <3> QED
      BY <3>2 DEF cut0, cut
  <2> QED
    BY <2>2, <2>3
<1>9. h = [n \in AllTrees |-> [y \in Int |->
               IF n = NULL THEN NULL ELSE cut(n, y, h[n.lhs], h[n.rhs])]]
  <2>1. ASSUME NEW n \in AllTrees
        PROVE  g[n] = [y \in Int |->
                          IF n = NULL THEN NULL ELSE cut(n, y, h[n.lhs], h[n.rhs])]
    <3>1. CASE n = NULL
      <4>1. g[n] = none
        BY <1>7, <3>1 DEF Computes
      <4> QED
        BY <3>1, <4>1 DEF none
    <3>2. CASE n # NULL
      <4>1. n \in AnyNode /\ n.lhs \in AllTrees /\ n.rhs \in AllTrees /\ n \in AnyTree
        BY <3>2, AllTreesAre
      <4>2. g[n] = Step[n][g[n.lhs]][g[n.rhs]] /\ g[n.lhs] \in V /\ g[n.rhs] \in V
        BY <1>7, <3>2, <4>1, AllTreesAre DEF Computes
      <4>3. h[n.lhs] = g[n.lhs] /\ h[n.rhs] = g[n.rhs]
        BY <4>1
      <4> HIDE DEF h
      <4>4. g[n] = [y \in Int |-> cut0(n, y, h[n.lhs], h[n.rhs])]
        BY <1>6, <4>1, <4>2, <4>3
      <4>5. \A y \in Int : cut0(n, y, h[n.lhs], h[n.rhs]) = cut(n, y, h[n.lhs], h[n.rhs])
        BY <1>8, <3>2
      <4> QED
        BY <3>2, <4>4, <4>5
    <3> QED
      BY <3>1, <3>2
  <2> QED
    BY <2>1
<1> HIDE DEF h
<1>10. F = [n \in AllTrees |-> [y \in Int |->
               IF n = NULL THEN NULL ELSE cut(n, y, F[n.lhs], F[n.rhs])]]
  BY <1>9
<1> HIDE DEF F
<1>11. F[NULL][x] = NULL
  BY <1>10, AllTreesAre
<1>12. \A n \in AllTrees : n # NULL => F[n][x] = cut(n, x, F[n.lhs], F[n.rhs])
  BY <1>10
<1>13. ASSUME NEW n \in AllTrees, n # NULL
       PROVE  delete_node(n, x, tb) =
                Settled(
                  CASE x < n.data -> Joined([n EXCEPT !.lhs = delete_node(n.lhs, x, tb)])
                    [] x > n.data -> Joined([n EXCEPT !.rhs = delete_node(n.rhs, x, tb)])
                    [] x = n.data /\ n.lhs = NULL -> n.rhs
                    [] x = n.data /\ n.lhs # NULL /\ n.rhs = NULL -> n.lhs
                    [] OTHER -> replaced(n, leftmost(n.rhs),
                                         delete_node(n.rhs, leftmost(n.rhs), tb)),
                  x, tb)
  <2>1. n \in AnyNode /\ n.lhs \in AllTrees /\ n.rhs \in AllTrees /\ n.data \in Int
    BY <1>13, AllTreesAre, NodeParts
  <2>2. /\ delete_node(n, x, tb) = F[n][x]
        /\ delete_node(n.lhs, x, tb) = F[n.lhs][x]
        /\ delete_node(n.rhs, x, tb) = F[n.rhs][x]
    BY <1>1, <2>1
  <2>3. n.rhs # NULL =>
           delete_node(n.rhs, leftmost(n.rhs), tb) = F[n.rhs][leftmost(n.rhs)]
    BY <1>1, <2>1, LeftmostInt
  <2>4. F[n][x] = Settled(part(n, x, F[n.lhs], F[n.rhs], leftmost(n.rhs)), x, tb)
    BY <1>12, <1>13 DEF cut
  <2>5. part(n, x, F[n.lhs], F[n.rhs], leftmost(n.rhs)) =
           CASE x < n.data -> Joined([n EXCEPT !.lhs = delete_node(n.lhs, x, tb)])
             [] x > n.data -> Joined([n EXCEPT !.rhs = delete_node(n.rhs, x, tb)])
             [] x = n.data /\ n.lhs = NULL -> n.rhs
             [] x = n.data /\ n.lhs # NULL /\ n.rhs = NULL -> n.lhs
             [] OTHER -> replaced(n, leftmost(n.rhs),
                                  delete_node(n.rhs, leftmost(n.rhs), tb))
    <3>1. x < n.data \/ x > n.data \/ x = n.data
      BY <2>1
    <3> QED
      BY <2>2, <2>3, <3>1 DEF part
  <2> QED
    BY <2>2, <2>4, <2>5
<1>14. delete_node(NULL, x, tb) = NULL
  BY <1>1, <1>11, AllTreesAre
<1> QED
  BY <1>13, <1>14

\* u is t after the removal of x, if it held that.
Removed(t, u, x) ==
    /\ u \in AnyTree
    /\ DataOf[u] = DataOf[t] \ {x}
    /\ SizeOf[u] = IF x \in DataOf[t] THEN SizeOf[t] - 1 ELSE SizeOf[t]
    /\ Sorted(u)
    /\ Lagging(t) => Lagging(u)

\* A tree that a removal settles keeps what it held.
LEMMA SettledTree ==
  ASSUME NEW t \in AnyTree, NEW d \in Int, NEW tb \in BOOLEAN, NEW s,
         s = Settled(t, d, tb)
  PROVE  \/ tb /\ s = CRASH
         \/ /\ s \in AnyTree /\ DataOf[s] = DataOf[t] /\ SizeOf[s] = SizeOf[t]
            /\ Sorted(t) => Sorted(s)
            /\ Lagging(t) => Lagging(s)
<1>1. CASE t \in AnyNode
  <2>1. (tb /\ s = CRASH) \/ Kept(t, s)
    BY <1>1, SettledKeeps
  <2>2. Lagging(t) => Lagging(t.lhs) /\ Lagging(t.rhs)
    BY <1>1, LaggingIs
  <2> QED
    BY <2>1, <2>2, NodeParts DEF Kept
<1>2. CASE t = NULL
  BY <1>2, SettledOthers, TreeIs
<1> QED
  BY <1>1, <1>2, TreeIs

\* A sorted node made anew and settled.
LEMMA SettledSorted ==
  ASSUME NEW e \in Int, NEW l \in AnyTree, NEW r \in AnyTree, NEW h \in Nat,
         NEW d \in Int, NEW tb \in BOOLEAN, NEW s, s = Settled(Node(e, l, r, h), d, tb),
         Sorted(l), Sorted(r),
         \A x \in DataOf[l] : x < e, \A x \in DataOf[r] : e < x
  PROVE  \/ tb /\ s = CRASH
         \/ /\ s \in AnyTree /\ Sorted(s)
            /\ DataOf[s] = {e} \cup DataOf[l] \cup DataOf[r]
            /\ SizeOf[s] = 1 + SizeOf[l] + SizeOf[r]
            /\ Lagging(l) /\ Lagging(r) => Lagging(s)
<1> DEFINE m == Node(e, l, r, h)
<1>1. m \in AnyNode
  BY NodeIs
<1> HIDE DEF m
<1>2. s = Settled(m, d, tb)
  BY DEF m
<1>3. (tb /\ s = CRASH) \/ Kept(m, s)
  BY <1>1, <1>2, SettledKeeps
<1>4. CASE s # CRASH
  <2>1. s \in AnyTree
    BY <1>3, <1>4, NodeParts DEF Kept
  <2>2. /\ DataOf[s] = {e} \cup DataOf[l] \cup DataOf[r]
        /\ SizeOf[s] = 1 + SizeOf[l] + SizeOf[r]
        /\ Sorted(s)
        /\ Lagging(l) /\ Lagging(r) => Lagging(s)
    BY <1>4, SettledNode
  <2> QED
    BY <2>1, <2>2
<1>5. CASE s = CRASH
  <2>1. ~Kept(m, s)
    BY <1>5, NodeParts DEF Kept
  <2> QED
    BY <1>3, <1>5, <2>1
<1> QED
  BY <1>4, <1>5

\* A removal crashes, which it does only in a balanced tree, or takes exactly
\* its number from a sorted tree and leaves it sorted.
LEMMA DeleteKeeps ==
  ASSUME NEW tb \in BOOLEAN
  PROVE  \A t \in AllTrees : Sorted(t) => \A x \in Int :
            \/ tb /\ delete_node(t, x, tb) = CRASH
            \/ Removed(t, delete_node(t, x, tb), x)
<1> DEFINE cut(t, x) == delete_node(t, x, tb)
           X == {t \in AllTrees : Sorted(t) => \A x \in Int :
                    (tb /\ cut(t, x) = CRASH) \/ Removed(t, cut(t, x), x)}
<1>1. NULL \in X
  <2> SUFFICES ASSUME NEW x \in Int PROVE Removed(NULL, cut(NULL, x), x)
    BY AllTreesAre
  <2>1. cut(NULL, x) = NULL
    BY DeleteIs
  <2>2. DataOf[NULL] = {} /\ Sorted(NULL) /\ NULL \in AnyTree
    BY DataIs, SortedIs, TreeIs
  <2> HIDE DEF cut
  <2> QED
    BY <2>1, <2>2 DEF Removed
<1>2. ASSUME NEW n \in AllTrees \ {NULL}, n.lhs \in X, n.rhs \in X PROVE n \in X
  <2> SUFFICES ASSUME Sorted(n), NEW x \in Int
               PROVE  (tb /\ cut(n, x) = CRASH) \/ Removed(n, cut(n, x), x)
    OBVIOUS
  <2> DEFINE e == n.data
             l == n.lhs
             r == n.rhs
             first == leftmost(r)
  <2>1. /\ n \in AnyNode /\ l \in AnyTree /\ r \in AnyTree
        /\ e \in Int /\ n.height \in Nat
        /\ l \in AllTrees /\ r \in AllTrees
    BY AllTreesAre, NodeParts
  <2>2. /\ DataOf[n] = {e} \cup DataOf[l] \cup DataOf[r]
        /\ SizeOf[n] = 1 + SizeOf[l] + SizeOf[r]
        /\ SizeOf[l] \in Nat /\ SizeOf[r] \in Nat
        /\ DataOf[l] \subseteq Int /\ DataOf[r] \subseteq Int
    BY <2>1, DataIs, SizeIs
  <2>3. Sorted(l) /\ Sorted(r) /\ (\A y \in DataOf[l] : y < e) /\ (\A y \in DataOf[r] : e < y)
    BY <2>1, SortedIs DEF Parted
  <2>4. cut(n, x) = Settled(
           CASE x < e -> Joined([n EXCEPT !.lhs = cut(l, x)])
             [] x > e -> Joined([n EXCEPT !.rhs = cut(r, x)])
             [] x = e /\ l = NULL -> r
             [] x = e /\ l # NULL /\ r = NULL -> l
             [] OTHER -> replaced(n, first, cut(r, first)), x, tb)
    BY DeleteIs
  <2>5. \A y \in Int : /\ (tb /\ cut(l, y) = CRASH) \/ Removed(l, cut(l, y), y)
                       /\ (tb /\ cut(r, y) = CRASH) \/ Removed(r, cut(r, y), y)
    BY <1>2, <2>3
  <2>6. Lagging(n) => Lagging(l) /\ Lagging(r)
    BY <2>1, LaggingIs
  <2>7. r # NULL => /\ first \in Int /\ first \in DataOf[r]
                    /\ \A y \in DataOf[r] : first <= y
    BY <2>1, <2>3, LeftmostLeast, LeftmostInt
  <2>8. \A u \in AnyTree \cup {CRASH} :
              /\ Joined([n EXCEPT !.lhs = u]) = IF u = CRASH THEN CRASH ELSE Node(e, u, r, n.height)
              /\ Joined([n EXCEPT !.rhs = u]) = IF u = CRASH THEN CRASH ELSE Node(e, l, u, n.height)
              /\ \A y \in Int : replaced(n, y, u) = IF u = CRASH THEN CRASH ELSE Node(y, l, u, n.height)
    BY <2>1, JoinedIs, ReplacedIs
  <2>9. \A d : Settled(CRASH, d, tb) = CRASH
    BY SettledOthers
  <2> HIDE DEF X, cut, e, l, r, first
  <2>10. CASE x < e
    <3>1. cut(n, x) = Settled(Joined([n EXCEPT !.lhs = cut(l, x)]), x, tb)
      <4>1. ~(x > e) /\ x # e
        BY <2>1, <2>10
      <4> QED
        BY <2>4, <2>10, <4>1
    <3>2. CASE cut(l, x) = CRASH
      BY <2>5, <2>8, <2>9, <3>1, <3>2, TreeIs DEF Removed
    <3>3. CASE cut(l, x) # CRASH
      <4> DEFINE u == cut(l, x)
      <4>1. Removed(l, u, x) /\ u \in AnyTree
        BY <2>5, <3>3 DEF Removed
      <4>2. cut(n, x) = Settled(Node(e, u, r, n.height), x, tb)
        BY <2>8, <3>1, <3>3, <4>1
      <4> HIDE DEF u
      <4>3. Sorted(u) /\ \A y \in DataOf[u] : y < e
        BY <2>3, <4>1 DEF Removed
      <4>4. \/ tb /\ cut(n, x) = CRASH
            \/ /\ cut(n, x) \in AnyTree /\ Sorted(cut(n, x))
               /\ DataOf[cut(n, x)] = {e} \cup DataOf[u] \cup DataOf[r]
               /\ SizeOf[cut(n, x)] = 1 + SizeOf[u] + SizeOf[r]
               /\ Lagging(u) /\ Lagging(r) => Lagging(cut(n, x))
        BY <2>1, <2>3, <4>1, <4>2, <4>3, SettledSorted
      <4>5. x # e /\ x \notin DataOf[r]
        BY <2>1, <2>2, <2>3, <2>10
      <4> QED
        BY <2>2, <2>6, <4>1, <4>4, <4>5 DEF Removed
    <3> QED
      BY <3>2, <3>3
  <2>11. CASE x > e
    <3>1. cut(n, x) = Settled(Joined([n EXCEPT !.rhs = cut(r, x)]), x, tb)
      <4>1. ~(x < e) /\ x # e
        BY <2>1, <2>11
      <4> QED
        BY <2>4, <2>11, <4>1
    <3>2. CASE cut(r, x) = CRASH
      BY <2>5, <2>8, <2>9, <3>1, <3>2, TreeIs DEF Removed
    <3>3. CASE cut(r, x) # CRASH
      <4> DEFINE u == cut(r, x)
      <4>1. Removed(r, u, x) /\ u \in AnyTree
        BY <2>5, <3>3 DEF Removed
      <4>2. cut(n, x) = Settled(Node(e, l, u, n.height), x, tb)
        BY <2>8, <3>1, <3>3, <4>1
      <4> HIDE DEF u
      <4>3. Sorted(u) /\ \A y \in DataOf[u] : e < y
        BY <2>3, <4>1 DEF Removed
      <4>4. \/ tb /\ cut(n, x) = CRASH
            \/ /\ cut(n, x) \in AnyTree /\ Sorted(cut(n, x))
               /\ DataOf[cut(n, x)] = {e} \cup DataOf[l] \cup DataOf[u]
               /\ SizeOf[cut(n, x)] = 1 + SizeOf[l] + SizeOf[u]
               /\ Lagging(l) /\ Lagging(u) => Lagging(cut(n, x))
        BY <2>1, <2>3, <4>1, <4>2, <4>3, SettledSorted
      <4>5. x # e /\ x \notin DataOf[l]
        BY <2>1, <2>2, <2>3, <2>11
      <4> QED
        BY <2>2, <2>6, <4>1, <4>4, <4>5 DEF Removed
    <3> QED
      BY <3>2, <3>3
  <2>12. CASE x = e
    <3>1. ~(x < e) /\ ~(x > e) /\ e \notin DataOf[l] /\ e \notin DataOf[r]
      BY <2>1, <2>2, <2>3, <2>12
    <3>2. CASE l = NULL \/ r = NULL
      <4>1. PICK t \in AnyTree : /\ cut(n, x) = Settled(t, x, tb) /\ (t = l \/ t = r)
                                 /\ (t = l => r = NULL) /\ (t # l => t = r /\ l = NULL)
        <5>1. CASE l = NULL
          <6>1. cut(n, x) = Settled(r, x, tb)
            BY <2>4, <2>12, <3>1, <5>1
          <6>2. r = l => r = NULL
            BY <5>1
          <6> QED
            BY <2>1, <5>1, <6>1, <6>2
        <5>2. CASE l # NULL /\ r = NULL
          <6>1. cut(n, x) = Settled(l, x, tb)
            BY <2>4, <2>12, <3>1, <5>2
          <6> QED
            BY <2>1, <5>2, <6>1
        <5> QED
          BY <3>2, <5>1, <5>2
      <4>2. DataOf[NULL] = {} /\ SizeOf[NULL] = 0
        BY DataIs, SizeIs
      <4>3. DataOf[t] = DataOf[n] \ {x} /\ SizeOf[t] = SizeOf[n] - 1
        BY <2>2, <2>12, <3>1, <4>1, <4>2
      <4>4. Sorted(t) /\ (Lagging(n) => Lagging(t)) /\ x \in DataOf[n]
        BY <2>2, <2>3, <2>6, <2>12, <4>1
      <4>5. \/ tb /\ cut(n, x) = CRASH
            \/ /\ cut(n, x) \in AnyTree
               /\ DataOf[cut(n, x)] = DataOf[t] /\ SizeOf[cut(n, x)] = SizeOf[t]
               /\ Sorted(t) => Sorted(cut(n, x))
               /\ Lagging(t) => Lagging(cut(n, x))
        BY <4>1, SettledTree
      <4> QED
        BY <4>3, <4>4, <4>5 DEF Removed
    <3>3. CASE l # NULL /\ r # NULL
      <4> DEFINE u == cut(r, first)
      <4>1. cut(n, x) = Settled(replaced(n, first, u), x, tb)
        BY <2>4, <2>12, <3>1, <3>3
      <4>2. first \in Int /\ first \in DataOf[r] /\ \A y \in DataOf[r] : first <= y
        BY <2>7, <3>3
      <4>3. (tb /\ u = CRASH) \/ Removed(r, u, first)
        BY <2>5, <4>2
      <4> HIDE DEF u
      <4>4. CASE u = CRASH
        <5>1. replaced(n, first, u) = CRASH
          BY <2>8, <4>2, <4>4
        <5> QED
          BY <2>9, <4>1, <4>3, <4>4, <5>1, TreeIs DEF Removed
      <4>5. CASE u # CRASH
        <5>1. Removed(r, u, first) /\ u \in AnyTree
          BY <4>3, <4>5 DEF Removed
        <5>2. cut(n, x) = Settled(Node(first, l, u, n.height), x, tb)
          BY <2>8, <4>1, <4>2, <4>5, <5>1
        <5>3. DataOf[u] = DataOf[r] \ {first} /\ Sorted(u) /\ SizeOf[u] = SizeOf[r] - 1
          BY <4>2, <5>1 DEF Removed
        <5>4. \A y \in DataOf[u] : first < y
          BY <2>2, <4>2, <5>3
        <5>5. \A y \in DataOf[l] : y < first
          BY <2>1, <2>2, <2>3, <4>2
        <5>6. \/ tb /\ cut(n, x) = CRASH
              \/ /\ cut(n, x) \in AnyTree /\ Sorted(cut(n, x))
                 /\ DataOf[cut(n, x)] = {first} \cup DataOf[l] \cup DataOf[u]
                 /\ SizeOf[cut(n, x)] = 1 + SizeOf[l] + SizeOf[u]
                 /\ Lagging(l) /\ Lagging(u) => Lagging(cut(n, x))
          BY <2>1, <2>3, <4>2, <5>1, <5>2, <5>3, <5>4, <5>5, SettledSorted
        <5>7. {first} \cup DataOf[l] \cup DataOf[u] = DataOf[n] \ {x} /\ x \in DataOf[n]
          BY <2>2, <2>12, <3>1, <4>2, <5>3
        <5>8. 1 + SizeOf[l] + SizeOf[u] = SizeOf[n] - 1
          BY <2>1, <2>2, <5>3, SizeIs
        <5>9. Lagging(n) => Lagging(l) /\ Lagging(u)
          BY <2>6, <5>1 DEF Removed
        <5> QED
          BY <5>6, <5>7, <5>8, <5>9 DEF Removed
      <4> QED
        BY <4>4, <4>5
    <3> QED
      BY <3>2, <3>3
  <2> QED
    BY <2>1, <2>10, <2>11, <2>12
<1> HIDE DEF X
<1>3. AllTrees \subseteq X
  BY <1>1, <1>2, AllTreesInduction
<1> QED
  BY <1>3 DEF X

-----------------------------------------------------------------------------
(* Numbers of nodes, and the walk *)

\* A tree has at most as many levels as nodes.
LEMMA SizeBounds ==
  \A t \in AnyTree : t \in Trees[DepOf[t]] /\ DepOf[t] <= SizeOf[t]
<1> DEFINE X == {t \in AnyTree : t \in Trees[DepOf[t]] /\ DepOf[t] <= SizeOf[t]}
<1>1. NULL \in X
  BY TreesIs, TreeIs, DepIs, SizeIs
<1>2. ASSUME NEW n \in AnyNode, n.lhs \in X, n.rhs \in X PROVE n \in X
  <2> DEFINE l == n.lhs
             r == n.rhs
             k == max(DepOf[l], DepOf[r])
  <2>1. /\ l \in AnyTree /\ r \in AnyTree /\ n \in AnyTree
        /\ DepOf[l] \in Nat /\ DepOf[r] \in Nat /\ SizeOf[l] \in Nat /\ SizeOf[r] \in Nat
        /\ DepOf[n] = 1 + k /\ SizeOf[n] = 1 + SizeOf[l] + SizeOf[r]
    BY NodeParts, DepIs, SizeIs
  <2>2. k \in Nat /\ DepOf[l] <= k /\ DepOf[r] <= k
    BY <2>1 DEF max
  <2>3. k <= SizeOf[l] + SizeOf[r]
    BY <1>2, <2>1 DEF max
  <2> HIDE DEF k
  <2>4. l \in Trees[k] /\ r \in Trees[k]
    BY <1>2, <2>1, <2>2, TreesGrow
  <2>5. n \in Trees[k + 1]
    <3>1. n \in NodesOver(Trees[k])
      BY <2>4 DEF AnyNode, NodesOver
    <3> QED
      BY <2>2, <3>1, TreesIs
  <2>6. DepOf[n] = k + 1 /\ DepOf[n] <= SizeOf[n]
    BY <2>1, <2>2, <2>3
  <2> QED
    BY <2>1, <2>5, <2>6
<1> HIDE DEF X
<1>3. AnyTree \subseteq X
  BY <1>1, <1>2, TreeInduction
<1> QED
  BY <1>3 DEF X

\* calloc has the nodes for a tree of at most MAX_NODES.
LEMMA SmallTrees ==
  ASSUME NEW t \in AnyTree, SizeOf[t] <= MAX_NODES
  PROVE  t \in AllTrees
<1>1. DepOf[t] \in Nat /\ SizeOf[t] \in Nat /\ MAX_NODES \in Nat
  BY DepIs, SizeIs, TreeAssumption
<1>2. t \in Trees[DepOf[t]] /\ DepOf[t] <= MAX_NODES
  BY <1>1, SizeBounds
<1> QED
  BY <1>1, <1>2, TreesGrow DEF AllTrees

\* The nodes of a sorted tree are all different, and so are their numbers.
LEMMA SortedCounts ==
  \A t \in AnyTree :
     /\ {m.data : m \in SubOf[t]} = DataOf[t]
     /\ Sorted(t) => IsFiniteSet(SubOf[t]) /\ Cardinality(SubOf[t]) = SizeOf[t]
<1> DEFINE X == {t \in AnyTree :
                   /\ {m.data : m \in SubOf[t]} = DataOf[t]
                   /\ Sorted(t) => IsFiniteSet(SubOf[t]) /\ Cardinality(SubOf[t]) = SizeOf[t]}
<1>1. NULL \in X
  <2>1. /\ NULL \in AnyTree /\ SubOf[NULL] = {} /\ DataOf[NULL] = {} /\ SizeOf[NULL] = 0
    BY TreeIs, SubIs, DataIs, SizeIs
  <2>2. IsFiniteSet({}) /\ Cardinality({}) = 0
    BY FS_EmptySet
  <2>3. {m.data : m \in {}} = {}
    OBVIOUS
  <2> QED
    BY <2>1, <2>2, <2>3
<1>2. ASSUME NEW n \in AnyNode, n.lhs \in X, n.rhs \in X PROVE n \in X
  <2> DEFINE l == n.lhs
             r == n.rhs
             A == SubOf[l]
             B == SubOf[r]
  <2>1. /\ l \in AnyTree /\ r \in AnyTree /\ n \in AnyTree
        /\ SubOf[n] = {n} \cup A \cup B
        /\ DataOf[n] = {n.data} \cup DataOf[l] \cup DataOf[r]
        /\ SizeOf[n] = 1 + SizeOf[l] + SizeOf[r]
        /\ SizeOf[l] \in Nat /\ SizeOf[r] \in Nat
        /\ DataOf[l] \subseteq Int /\ DataOf[r] \subseteq Int /\ n.data \in Int
    BY NodeParts, SubIs, DataIs, SizeIs
  <2>2. {m.data : m \in A} = DataOf[l] /\ {m.data : m \in B} = DataOf[r]
    BY <1>2
  <2>3. {m.data : m \in SubOf[n]} = DataOf[n]
    BY <2>1, <2>2
  <2>4. ASSUME Sorted(n)
        PROVE  IsFiniteSet(SubOf[n]) /\ Cardinality(SubOf[n]) = SizeOf[n]
    <3>1. /\ Sorted(l) /\ Sorted(r)
          /\ \A x \in DataOf[l] : x < n.data
          /\ \A x \in DataOf[r] : n.data < x
      BY <2>4, SortedIs DEF Parted
    <3>2. /\ IsFiniteSet(A) /\ Cardinality(A) = SizeOf[l]
          /\ IsFiniteSet(B) /\ Cardinality(B) = SizeOf[r]
      BY <1>2, <3>1
    <3>3. \A m \in A : m.data \in DataOf[l]
      BY <2>2
    <3>4. \A m \in B : m.data \in DataOf[r]
      BY <2>2
    <3> HIDE DEF A, B, l, r
    <3>5. A \cap B = {}
      <4> SUFFICES ASSUME NEW m \in A, m \in B PROVE FALSE
        OBVIOUS
      <4>1. m.data < n.data /\ n.data < m.data /\ m.data \in Int
        BY <2>1, <3>1, <3>3, <3>4
      <4> QED
        BY <2>1, <4>1
    <3>6. n \notin A \cup B
      <4>1. n.data \notin DataOf[l] /\ n.data \notin DataOf[r]
        BY <2>1, <3>1
      <4> QED
        BY <3>3, <3>4, <4>1
    <3>7. IsFiniteSet(A \cup B) /\ Cardinality(A \cup B) = SizeOf[l] + SizeOf[r]
      <4>1. Cardinality(A \cap B) = 0
        BY <3>5, FS_EmptySet
      <4>2. /\ IsFiniteSet(A \cup B)
            /\ Cardinality(A \cup B) = Cardinality(A) + Cardinality(B) - Cardinality(A \cap B)
        BY <3>2, FS_Union
      <4> QED
        BY <2>1, <3>2, <4>1, <4>2
    <3>8. SubOf[n] = (A \cup B) \cup {n}
      BY <2>1
    <3>9. /\ IsFiniteSet((A \cup B) \cup {n})
          /\ Cardinality((A \cup B) \cup {n}) = Cardinality(A \cup B) + 1
      BY <3>6, <3>7, FS_AddElement
    <3>10. SizeOf[n] = SizeOf[l] + SizeOf[r] + 1
      BY <2>1
    <3>11. Cardinality((A \cup B) \cup {n}) = SizeOf[l] + SizeOf[r] + 1
      BY <3>7, <3>9
    <3> QED
      BY <3>8, <3>9, <3>10, <3>11
  <2> QED
    BY <2>1, <2>3, <2>4
<1> HIDE DEF X
<1>3. AnyTree \subseteq X
  BY <1>1, <1>2, TreeInduction
<1> QED
  BY <1>3 DEF X

\* s holds the numbers of X in ascending order, as PrintAll of OrderedSet says.
Ascends(s, X) ==
    /\ X = {s[i] : i \in DOMAIN s}
    /\ \A i, j \in DOMAIN s : i < j => s[i] < s[j]

\* The elements of two sequences and a number between them.
LEMMA Joint ==
  ASSUME NEW a \in Seq(Int), NEW b \in Seq(Int), NEW d \in Int,
         NEW s, s = a \o <<d>> \o b
  PROVE  /\ s \in Seq(Int) /\ Len(s) = Len(a) + 1 + Len(b)
         /\ \A i \in 1..Len(a) : s[i] = a[i]
         /\ s[Len(a) + 1] = d
         /\ \A i \in 1..Len(b) : s[Len(a) + 1 + i] = b[i]
<1>1. <<d>> \in Seq(Int) /\ Len(<<d>>) = 1 /\ <<d>>[1] = d
  OBVIOUS
<1> DEFINE c == a \o <<d>>
<1>2. /\ c \in Seq(Int) /\ Len(c) = Len(a) + 1
      /\ \A i \in 1..Len(a) : c[i] = a[i]
      /\ c[Len(a) + 1] = d
  BY <1>1
<1>3. s = c \o b
  OBVIOUS
<1> HIDE DEF c
<1>4. /\ s \in Seq(Int) /\ Len(s) = Len(c) + Len(b)
      /\ \A i \in 1..Len(c) : s[i] = c[i]
      /\ \A i \in 1..Len(b) : s[Len(c) + i] = b[i]
  <2>1. s \in Seq(Int) /\ Len(s) = Len(c) + Len(b)
    BY <1>2, <1>3
  <2>2. \A i \in 1..Len(c) : s[i] = c[i]
    BY <1>2, <1>3
  <2>3. \A i \in 1..Len(b) : s[Len(c) + i] = b[i]
    <3> SUFFICES ASSUME NEW i \in 1..Len(b) PROVE s[Len(c) + i] = b[i]
      OBVIOUS
    <3>1. Len(c) \in Nat /\ Len(b) \in Nat /\ i \in Nat
      BY <1>2
    <3>2. Len(c) + i \in 1..(Len(c) + Len(b)) /\ Len(c) + i > Len(c) /\ (Len(c) + i) - Len(c) = i
      BY <3>1
    <3> QED
      BY <1>2, <1>3, <3>1, <3>2
  <2> QED
    BY <2>1, <2>2, <2>3
<1>5. Len(a) \in Nat /\ Len(b) \in Nat
  OBVIOUS
<1>6. \A i \in 1..Len(a) : i \in 1..Len(c)
  BY <1>2, <1>5
<1>7. Len(a) + 1 \in 1..Len(c)
  BY <1>2, <1>5
<1> QED
  BY <1>2, <1>4, <1>5, <1>6, <1>7

LEMMA AscendingJoint ==
  ASSUME NEW a \in Seq(Int), NEW b \in Seq(Int), NEW d \in Int,
         NEW A \in SUBSET Int, NEW B \in SUBSET Int,
         Ascends(a, A), Ascends(b, B),
         \A x \in A : x < d, \A x \in B : d < x
  PROVE  Ascends(a \o <<d>> \o b, {d} \cup A \cup B)
<1> DEFINE s == a \o <<d>> \o b
           la == Len(a)
           lb == Len(b)
<1>1. /\ s \in Seq(Int) /\ Len(s) = la + 1 + lb
      /\ \A i \in 1..la : s[i] = a[i]
      /\ s[la + 1] = d
      /\ \A i \in 1..lb : s[la + 1 + i] = b[i]
  BY Joint
<1>2. la \in Nat /\ lb \in Nat /\ DOMAIN a = 1..la /\ DOMAIN b = 1..lb
  OBVIOUS
<1> HIDE DEF s, la, lb
<1>3. DOMAIN s = 1..(la + 1 + lb)
  BY <1>1
<1>4. ASSUME NEW i \in DOMAIN s
      PROVE  \/ i \in 1..la
             \/ i = la + 1
             \/ \E k \in 1..lb : i = la + 1 + k
  <2>1. i \in 1..(la + 1 + lb)
    BY <1>3
  <2>2. CASE i > la + 1
    <3>1. i - (la + 1) \in 1..lb /\ i = la + 1 + (i - (la + 1))
      BY <1>2, <2>1, <2>2
    <3> QED
      BY <3>1
  <2>3. CASE i <= la + 1
    <3>1. i \in Nat /\ 1 <= i
      BY <1>2, <2>1
    <3>2. i <= la \/ i = la + 1
      BY <1>2, <2>3, <3>1
    <3> QED
      BY <1>2, <3>1, <3>2
  <2> QED
    BY <1>2, <2>1, <2>2, <2>3
<1>5. /\ \A i \in 1..la : a[i] \in A
      /\ \A i \in 1..lb : b[i] \in B
  BY <1>2 DEF Ascends
<1>6. {d} \cup A \cup B = {s[i] : i \in DOMAIN s}
  <2>1. ASSUME NEW i \in DOMAIN s PROVE s[i] \in {d} \cup A \cup B
    <3>1. CASE i \in 1..la
      BY <1>1, <1>5, <3>1
    <3>2. CASE i = la + 1
      BY <1>1, <3>2
    <3>3. CASE \E k \in 1..lb : i = la + 1 + k
      <4>1. PICK k \in 1..lb : i = la + 1 + k
        BY <3>3
      <4>2. s[i] = b[k]
        BY <1>1, <4>1
      <4> QED
        BY <1>5, <4>2
    <3> QED
      BY <1>4, <3>1, <3>2, <3>3
  <2>2. ASSUME NEW x \in A PROVE \E i \in DOMAIN s : s[i] = x
    <3>1. PICK i \in 1..la : a[i] = x
      BY <1>2 DEF Ascends
    <3>2. i \in DOMAIN s
      BY <1>2, <1>3
    <3> QED
      BY <1>1, <3>1, <3>2
  <2>3. ASSUME NEW x \in B PROVE \E i \in DOMAIN s : s[i] = x
    <3>1. PICK i \in 1..lb : b[i] = x
      BY <1>2 DEF Ascends
    <3>2. la + 1 + i \in DOMAIN s
      BY <1>2, <1>3
    <3> QED
      BY <1>1, <3>1, <3>2
  <2>4. la + 1 \in DOMAIN s
    BY <1>2, <1>3
  <2>5. \E i \in DOMAIN s : s[i] = d
    BY <1>1, <2>4
  <2> QED
    BY <2>1, <2>2, <2>3, <2>5
<1>7. ASSUME NEW i \in DOMAIN s, NEW j \in DOMAIN s, i < j PROVE s[i] < s[j]
  <2>1. CASE i \in 1..la /\ j \in 1..la
    BY <1>1, <1>2, <1>7, <2>1 DEF Ascends
  <2>2. CASE i \in 1..la /\ j = la + 1
    BY <1>1, <1>5, <2>2
  <2>3. CASE i \in 1..la /\ \E k \in 1..lb : j = la + 1 + k
    <3>1. PICK k \in 1..lb : j = la + 1 + k
      BY <2>3
    <3>2. s[i] \in A /\ s[j] \in B
      BY <1>1, <1>5, <2>3, <3>1
    <3>3. s[i] < d /\ d < s[j] /\ s[i] \in Int /\ s[j] \in Int
      BY <3>2
    <3> QED
      BY <3>3
  <2>4. CASE i = la + 1
    <3>1. PICK k \in 1..lb : j = la + 1 + k
      <4>1. ~(j \in 1..la) /\ j # la + 1
        BY <1>2, <1>7, <2>4
      <4> QED
        BY <1>4, <4>1
    <3> QED
      BY <1>1, <1>5, <2>4, <3>1
  <2>5. CASE \E k \in 1..lb : i = la + 1 + k
    <3>1. PICK k \in 1..lb : i = la + 1 + k
      BY <2>5
    <3>2. PICK m \in 1..lb : j = la + 1 + m
      <4>1. ~(j \in 1..la) /\ j # la + 1
        BY <1>2, <1>7, <3>1
      <4> QED
        BY <1>4, <4>1
    <3>3. k < m
      BY <1>2, <1>7, <3>1, <3>2
    <3>4. s[i] = b[k] /\ s[j] = b[m]
      BY <1>1, <3>1, <3>2
    <3>5. b[k] < b[m]
      BY <1>2, <3>3 DEF Ascends
    <3> QED
      BY <3>4, <3>5
  <2> QED
    BY <1>4, <2>1, <2>2, <2>3, <2>4, <2>5
<1> QED
  BY <1>6, <1>7 DEF Ascends, s

\* tree_print walks a sorted tree in ascending order and visits every node once.
LEMMA PrintAscends ==
  \A t \in AllTrees :
     /\ Len(tree_print(t)) = SizeOf[t]
     /\ Sorted(t) => Ascends(tree_print(t), DataOf[t])
<1> DEFINE X == {t \in AllTrees :
                   /\ Len(tree_print(t)) = SizeOf[t]
                   /\ Sorted(t) => Ascends(tree_print(t), DataOf[t])}
<1>1. NULL \in X
  BY AllTreesAre, PrintIs, SizeIs, DataIs DEF Ascends
<1>2. ASSUME NEW n \in AllTrees \ {NULL}, n.lhs \in X, n.rhs \in X PROVE n \in X
  <2> DEFINE l == n.lhs
             r == n.rhs
             a == tree_print(l)
             b == tree_print(r)
  <2>1. /\ n \in AnyNode /\ n.data \in Int /\ l \in AllTrees /\ r \in AllTrees
        /\ DataOf[n] = {n.data} \cup DataOf[l] \cup DataOf[r]
        /\ DataOf[l] \in SUBSET Int /\ DataOf[r] \in SUBSET Int
        /\ SizeOf[n] = 1 + SizeOf[l] + SizeOf[r]
        /\ SizeOf[l] \in Nat /\ SizeOf[r] \in Nat
    BY AllTreesAre, NodeParts, DataIs, SizeIs
  <2>2. tree_print(n) = a \o <<n.data>> \o b /\ a \in Seq(Int) /\ b \in Seq(Int)
    BY <2>1, PrintIs
  <2>3. Len(a) = SizeOf[l] /\ Len(b) = SizeOf[r]
    BY <1>2
  <2>4. Len(tree_print(n)) = SizeOf[n]
    <3>1. Len(tree_print(n)) = Len(a) + 1 + Len(b)
      BY <2>1, <2>2, Joint
    <3> QED
      BY <2>1, <2>3, <3>1
  <2>5. ASSUME Sorted(n) PROVE Ascends(tree_print(n), DataOf[n])
    <3>1. /\ Sorted(l) /\ Sorted(r)
          /\ \A x \in DataOf[l] : x < n.data
          /\ \A x \in DataOf[r] : n.data < x
      BY <2>1, <2>5, SortedIs DEF Parted
    <3>2. Ascends(a, DataOf[l]) /\ Ascends(b, DataOf[r])
      BY <1>2, <3>1
    <3> HIDE DEF a, b, l, r
    <3>3. Ascends(a \o <<n.data>> \o b, {n.data} \cup DataOf[l] \cup DataOf[r])
      BY <2>1, <2>2, <3>1, <3>2, AscendingJoint
    <3> QED
      BY <2>1, <2>2, <3>3
  <2> QED
    BY <2>4, <2>5
<1> HIDE DEF X
<1>3. AllTrees \subseteq X
  BY <1>1, <1>2, AllTreesInduction
<1> QED
  BY <1>3 DEF X

-----------------------------------------------------------------------------
(* The operations of the set *)

LEMMA IntIs ==
  ASSUME NEW x \in Operand PROVE to_int(x) \in Int
<1>1. x \in Int /\ INT_VALUES \in Nat /\ INT_VALUES # 0
  BY SetAssumption
<1>2. INT_VALUES \div 2 \in Int
  BY <1>1
<1> DEFINE h == INT_VALUES \div 2
<1> HIDE DEF h
<1>3. (x + h) % INT_VALUES \in Int
  BY <1>1, <1>2 DEF h
<1>4. ((x + h) % INT_VALUES) - h \in Int
  BY <1>2, <1>3 DEF h
<1> QED
  BY <1>4 DEF to_int, h

\* The nodes of a tree of the program are such trees, and so are their subtrees.
LEMMA NodesAreTrees ==
  ASSUME NEW t \in AllTrees, NEW n \in SubOf[t]
  PROVE  /\ n \in AnyNode /\ n \in AllTrees
         /\ n.lhs \in AllTrees /\ n.rhs \in AllTrees
         /\ n.lhs \in SubOf[t] \cup {NULL} /\ n.rhs \in SubOf[t] \cup {NULL}
<1> DEFINE X == {u \in AllTrees : \A m \in SubOf[u] :
                    /\ m \in AllTrees
                    /\ m.lhs \in SubOf[u] \cup {NULL} /\ m.rhs \in SubOf[u] \cup {NULL}}
<1>1. NULL \in X
  BY AllTreesAre, SubIs
<1>2. ASSUME NEW u \in AllTrees \ {NULL}, u.lhs \in X, u.rhs \in X PROVE u \in X
  <2>1. u \in AnyNode /\ u.lhs \in AllTrees /\ u.rhs \in AllTrees
    BY AllTreesAre
  <2>2. SubOf[u] = {u} \cup SubOf[u.lhs] \cup SubOf[u.rhs]
    BY <2>1, SubIs
  <2>3. \A v \in AllTrees : v = NULL \/ v \in SubOf[v]
    BY AllTreesAre, SubIs
  <2>4. u.lhs \in SubOf[u] \cup {NULL} /\ u.rhs \in SubOf[u] \cup {NULL}
    BY <2>1, <2>2, <2>3
  <2> QED
    BY <1>2, <2>2, <2>4
<1> HIDE DEF X
<1>3. t \in X
  BY <1>1, <1>2, AllTreesInduction
<1>4. /\ n \in AllTrees
      /\ n.lhs \in SubOf[t] \cup {NULL} /\ n.rhs \in SubOf[t] \cup {NULL}
  BY <1>3 DEF X
<1>5. n \in AnyNode
  BY AllTreesAre, SubIs
<1> QED
  BY <1>4, <1>5, AllTreesAre, NodeParts

\* A search tree of k nodes that calloc has the nodes for, whose heights lag.
Sound(t, k) ==
    /\ t \in AllTrees
    /\ Sorted(t)
    /\ Lagging(t)
    /\ k = SizeOf[t]
    /\ k <= MAX_NODES

\* The inductive invariant.  Insertions need a sorted tree to put a number where
\* it will be found, and a balanced one to need no subtree that is not there.
IInv ==
    /\ turbo \in BOOLEAN /\ created \in BOOLEAN /\ undisturbed \in BOOLEAN
    /\ Sound(root, nodes)
    /\ turbo /\ undisturbed => Even(root)
    /\ ~created => root = NULL
    /\ outcome = "reading" =>
          heap = {"buf"} \cup (IF created THEN {"set", "tree"} ELSE {})
    /\ ExitFreesAll

\* The members of the set are the numbers of the tree.
LEMMA MembersAre ==
  ASSUME NEW t \in AllTrees
  PROVE  {n.data : n \in Subtrees(t)} = DataOf[t]
BY SubtreesIs, SortedCounts, AllTreesAre

LEMMA NoTree == CRASH \notin AnyTree
BY TreeIs, NodeParts, NullNotCrash

LEMMA NullSound == Sound(NULL, 0) /\ Even(NULL) /\ DataOf[NULL] = {}
<1>1. NULL \in AllTrees /\ SizeOf[NULL] = 0 /\ DataOf[NULL] = {}
  BY AllTreesAre, SizeIs, DataIs
<1> QED
  BY <1>1, SortedIs, LaggingIs, EvenIs, TreeAssumption DEF Sound

\* The call leaves a sound tree of these numbers.
Rebuilt(numbers) ==
    /\ DataOf[root'] = numbers
    /\ Sound(root', nodes')
    /\ turbo /\ undisturbed' => Even(root')

\* What an insertion does, in terms of the numbers of the tree.
LEMMA InsertStep ==
  ASSUME IInv, NEW n \in Int, set_insert(n)
  PROVE  \/ /\ UNCHANGED <<turbo, created, root, nodes, heap, outcome, undisturbed>>
            /\ answer' = IF created THEN <<1>> ELSE <<-1>>
            /\ created => n \in DataOf[root]
         \/ Crash /\ created /\ turbo /\ ~undisturbed
         \/ /\ created /\ n \notin DataOf[root] /\ answer' = <<0>>
            /\ UNCHANGED <<turbo, created, heap, outcome, undisturbed>>
            /\ Rebuilt(DataOf[root]) \/ Rebuilt(DataOf[root] \cup {n})
<1>1. /\ turbo \in BOOLEAN /\ root \in AllTrees /\ Sorted(root) /\ Lagging(root)
      /\ nodes = SizeOf[root] /\ nodes <= MAX_NODES
      /\ turbo /\ undisturbed => Even(root)
  BY DEF IInv, Sound
<1>2. tree_find(root, n) <=> n \in DataOf[root]
  BY <1>1, FindFinds
<1>3. CASE \/ ~created \/ tree_find(root, n)
  BY <1>2, <1>3 DEF set_insert
<1>4. CASE created /\ ~tree_find(root, n)
  <2>1. PICK memory \in BOOLEAN :
          /\ memory => nodes < MAX_NODES
          /\ \/ insert_node(root, n, turbo, memory) = CRASH /\ Crash
             \/ /\ insert_node(root, n, turbo, memory) # CRASH
                /\ root' = insert_node(root, n, turbo, memory)
                /\ nodes' = IF memory THEN nodes + 1 ELSE nodes
                /\ answer' = <<0>>
                /\ UNCHANGED <<turbo, created, heap, outcome, undisturbed>>
    BY <1>4 DEF set_insert
  <2> DEFINE new == insert_node(root, n, turbo, memory)
  <2>2. (turbo /\ new = CRASH) \/ Inserted(root, new, n, memory)
    BY <1>1, <1>2, <1>4, InsertKeeps
  <2>3. turbo /\ undisturbed => new # CRASH /\ Grown(root, new, n)
    BY <1>1, <1>2, <1>4, InsertGrows
  <2> HIDE DEF new
  <2>4. CASE new = CRASH
    <3>1. ~Inserted(root, new, n, memory)
      BY <2>4, NoTree DEF Inserted
    <3> QED
      BY <1>4, <2>1, <2>2, <2>3, <2>4, <3>1 DEF new, Crash
  <2>5. CASE new # CRASH
    <3>1. /\ root' = new /\ nodes' = IF memory THEN nodes + 1 ELSE nodes
          /\ answer' = <<0>>
          /\ UNCHANGED <<turbo, created, heap, outcome, undisturbed>>
      BY <2>1, <2>5 DEF new
    <3>2. Inserted(root, new, n, memory)
      BY <2>2, <2>5
    <3>3. nodes' = SizeOf[root']
      BY <1>1, <3>1, <3>2 DEF Inserted
    <3>4. nodes' <= MAX_NODES
      BY <1>1, <2>1, <3>1, SizeIs, AllTreesAre, TreeAssumption
    <3>5. root' \in AllTrees
      BY <3>1, <3>2, <3>3, <3>4, SmallTrees DEF Inserted
    <3>6. Sound(root', nodes')
      BY <1>1, <3>1, <3>2, <3>3, <3>4, <3>5 DEF Sound, Inserted
    <3>7. turbo /\ undisturbed' => Even(root')
      BY <2>3, <3>1 DEF Grown
    <3>8. DataOf[root'] \in {DataOf[root], DataOf[root] \cup {n}}
      BY <3>1, <3>2 DEF Inserted
    <3> QED
      BY <1>2, <1>4, <3>1, <3>6, <3>7, <3>8 DEF Rebuilt
  <2> QED
    BY <2>4, <2>5
<1> QED
  BY <1>3, <1>4

\* What a removal does.
LEMMA RemoveStep ==
  ASSUME IInv, NEW n \in Int, set_remove(n)
  PROVE  \/ /\ UNCHANGED <<turbo, created, root, nodes, heap, outcome, undisturbed>>
            /\ n \notin DataOf[root] /\ answer' = <<1>>
         \/ Crash /\ created /\ turbo
         \/ /\ created /\ n \in DataOf[root] /\ answer' = <<0>>
            /\ undisturbed' = FALSE
            /\ UNCHANGED <<turbo, created, heap, outcome>>
            /\ Rebuilt(DataOf[root] \ {n})
<1>1. /\ turbo \in BOOLEAN /\ root \in AllTrees /\ Sorted(root) /\ Lagging(root)
      /\ nodes = SizeOf[root] /\ nodes <= MAX_NODES
      /\ ~created => root = NULL
  BY DEF IInv, Sound
<1>2. tree_find(root, n) <=> n \in DataOf[root]
  BY <1>1, FindFinds
<1>3. CASE ~created \/ ~tree_find(root, n)
  <2>1. n \notin DataOf[root]
    BY <1>1, <1>2, <1>3, NullSound
  <2> QED
    BY <1>3, <2>1 DEF set_remove
<1>4. CASE created /\ tree_find(root, n)
  <2> DEFINE new == delete_node(root, n, turbo)
  <2>1. \/ new = CRASH /\ Crash
        \/ /\ new # CRASH
           /\ root' = new
           /\ nodes' = nodes - 1
           /\ undisturbed' = FALSE
           /\ answer' = <<0>>
           /\ UNCHANGED <<turbo, created, heap, outcome>>
    BY <1>4 DEF set_remove
  <2>2. (turbo /\ new = CRASH) \/ Removed(root, new, n)
    BY <1>1, DeleteKeeps
  <2> HIDE DEF new
  <2>3. CASE new = CRASH
    <3>1. ~Removed(root, new, n)
      BY <2>3, NoTree DEF Removed
    <3> QED
      BY <1>4, <2>1, <2>2, <2>3, <3>1
  <2>4. CASE new # CRASH
    <3>1. /\ root' = new /\ nodes' = nodes - 1
          /\ undisturbed' = FALSE /\ answer' = <<0>>
          /\ UNCHANGED <<turbo, created, heap, outcome>>
      BY <2>1, <2>4
    <3>2. Removed(root, new, n)
      BY <2>2, <2>4
    <3>3. nodes' = SizeOf[root']
      BY <1>1, <1>2, <1>4, <3>1, <3>2 DEF Removed
    <3>4. nodes' <= MAX_NODES
      BY <1>1, <3>1, SizeIs, AllTreesAre, TreeAssumption
    <3>5. root' \in AllTrees
      BY <3>1, <3>2, <3>3, <3>4, SmallTrees DEF Removed
    <3>6. Sound(root', nodes')
      BY <1>1, <3>1, <3>2, <3>3, <3>4, <3>5 DEF Sound, Removed
    <3>7. DataOf[root'] = DataOf[root] \ {n}
      BY <3>1, <3>2 DEF Removed
    <3> QED
      BY <1>2, <1>4, <3>1, <3>6, <3>7 DEF Rebuilt
  <2> QED
    BY <2>3, <2>4
<1> QED
  BY <1>3, <1>4

\* The exit through set_cleanup: all of the tree's nodes are counted out.
LEMMA CleanupStep ==
  ASSUME IInv, outcome = "reading", created, NEW first \in BOOLEAN,
         NEW end \in {"success", "failure"}, set_cleanup(first, end)
  PROVE  /\ IInv' /\ outcome' \in {"no dot file", end}
         /\ UNCHANGED <<turbo, created, answer>>
         /\ root' = root \/ root' = NULL
<1>1. /\ root \in AllTrees /\ nodes = SizeOf[root] /\ nodes \in Nat
      /\ heap = {"buf", "set", "tree"}
  BY SizeIs, AllTreesAre DEF IInv, Sound
<1>2. Cardinality(Subtrees(root)) = nodes
  BY <1>1, SubtreesIs, SortedCounts, AllTreesAre DEF IInv, Sound
<1>3. CASE /\ outcome' = "no dot file"
           /\ heap' = IF first THEN heap \ {"buf"} ELSE heap
           /\ UNCHANGED <<turbo, created, root, nodes, answer, undisturbed>>
  <2>1. Sound(root', nodes')
    BY <1>3 DEF IInv
  <2>2. ExitFreesAll'
    BY <1>1, <1>3 DEF ExitFreesAll
  <2> QED
    BY <1>3, <2>1, <2>2 DEF IInv
<1>4. CASE /\ outcome' = end
           /\ root' = NULL
           /\ nodes' = nodes - Cardinality(Subtrees(root))
           /\ heap' = heap \ {"set", "tree", "buf"}
           /\ UNCHANGED <<turbo, created, answer, undisturbed>>
  <2>1. nodes' = 0 /\ heap' = {}
    BY <1>1, <1>2, <1>4
  <2>2. Sound(root', nodes') /\ Even(root')
    BY <1>4, <2>1, NullSound
  <2>3. ExitFreesAll'
    BY <1>4, <2>1 DEF ExitFreesAll
  <2> QED
    BY <1>4, <2>2, <2>3 DEF IInv
<1> QED
  BY <1>3, <1>4 DEF set_cleanup

LEMMA InitInv == Init => IInv
BY NullSound DEF Init, IInv, ExitFreesAll

LEMMA CrashInv ==
  ASSUME IInv, Crash PROVE IInv'
BY DEF IInv, Crash, Sound, ExitFreesAll

LEMMA UnchangedInv ==
  ASSUME IInv, UNCHANGED <<turbo, created, root, nodes, heap, outcome, undisturbed>>
  PROVE  IInv'
BY DEF IInv, Sound, ExitFreesAll

\* A call that returns leaves the set, its blocks and the program as they were.
LEMMA RebuiltInv ==
  ASSUME IInv, outcome = "reading", created, NEW X, Rebuilt(X),
         UNCHANGED <<turbo, created, heap, outcome>>, undisturbed' \in BOOLEAN
  PROVE  IInv'
BY DEF IInv, Rebuilt, ExitFreesAll

LEMMA NextInv ==
  ASSUME IInv, [Next]_vars PROVE IInv'
<1>1. CASE UNCHANGED vars
  BY <1>1, UnchangedInv DEF vars
<1>2. ASSUME outcome = "reading", NEW x \in Operand, set_insert(to_int(x)) PROVE IInv'
  <2>1. to_int(x) \in Int /\ undisturbed \in BOOLEAN
    BY IntIs DEF IInv
  <2> QED
    BY <1>2, <2>1, InsertStep, UnchangedInv, CrashInv, RebuiltInv
<1>3. ASSUME outcome = "reading", NEW x \in Operand, set_remove(to_int(x)) PROVE IInv'
  <2>1. to_int(x) \in Int
    BY IntIs
  <2> QED
    BY <1>3, <2>1, RemoveStep, UnchangedInv, CrashInv, RebuiltInv
<1>4. ASSUME NEW x \in Operand, set_find(to_int(x)) PROVE IInv'
  BY <1>4, UnchangedInv DEF set_find
<1>5. ASSUME set_print PROVE IInv'
  BY <1>5, UnchangedInv, CrashInv DEF set_print
<1>6. ASSUME outcome = "reading", cleanup_and_fail PROVE IInv'
  <2>1. CASE created /\ set_cleanup(FALSE, "failure")
    BY <1>6, <2>1, CleanupStep
  <2>2. CASE /\ ~created
             /\ outcome' = "failure"
             /\ heap' = heap \ {"buf"}
             /\ UNCHANGED <<turbo, created, root, nodes, answer, undisturbed>>
    <3>1. root = NULL /\ nodes = 0 /\ heap = {"buf"}
      BY <1>6, <2>2, SizeIs DEF IInv, Sound
    <3>2. ExitFreesAll'
      BY <2>2, <3>1 DEF ExitFreesAll
    <3> QED
      BY <2>2, <3>1, <3>2, NullSound DEF IInv
  <2> QED
    BY <1>6, <2>1, <2>2 DEF cleanup_and_fail
<1>7. ASSUME outcome = "reading", EndOfInput PROVE IInv'
  BY <1>7, CrashInv, CleanupStep DEF EndOfInput
<1> QED
  BY <1>1, <1>2, <1>3, <1>4, <1>5, <1>6, <1>7 DEF Next

LEMMA Invariance == Spec => []IInv
BY InitInv, NextInv, PTL DEF Spec

-----------------------------------------------------------------------------
(* The properties of the program *)

\* As many node blocks are allocated as the tree has nodes, each of them once,
\* after every insertion and removal and with every outcome of calloc.
THEOREM Accounted == Spec => []NodesAccounted
<1>1. IInv => NodesAccounted
  BY AllTreesAre, SubtreesIs, SortedCounts, PrintAscends
     DEF IInv, Sound, NodesAccounted
<1> QED
  BY <1>1, Invariance, PTL

\* The height stored in a node is its depth or one less.
THEOREM Lags == Spec => []HeightsLagByOne
<1>1. ASSUME IInv PROVE HeightsLagByOne
  <2>1. root \in AllTrees /\ Lagging(root)
    BY <1>1 DEF IInv, Sound
  <2>2. ASSUME NEW n \in SubOf[root] PROVE n.height \in {Depth(n) - 1, Depth(n)}
    <3>1. n \in AnyNode /\ n \in AllTrees
      BY <2>1, NodesAreTrees
    <3> QED
      BY <2>1, <3>1, HeightIs, DepthIs DEF Lagging, Near
  <2> QED
    BY <2>1, <2>2, SubtreesIs DEF HeightsLagByOne
<1> QED
  BY <1>1, Invariance, PTL

\* Insertions leave the subtrees of a node at most two apart in depth.
THEOREM Balances == Spec => []InsertsBalance
<1>1. ASSUME IInv, turbo, undisturbed, NEW n \in Subtrees(root)
      PROVE  Depth(n.lhs) - Depth(n.rhs) \in -2..2
  <2>1. root \in AllTrees /\ Lagging(root) /\ Even(root) /\ n \in SubOf[root]
    BY <1>1, SubtreesIs DEF IInv, Sound
  <2>2. /\ n.lhs \in AllTrees /\ n.rhs \in AllTrees
        /\ n.lhs \in SubOf[root] \cup {NULL} /\ n.rhs \in SubOf[root] \cup {NULL}
    BY <2>1, NodesAreTrees
  <2>3. Near(NULL)
    BY HeightIs, DepIs DEF Near
  <2>4. Near(n.lhs) /\ Near(n.rhs)
    BY <2>1, <2>2, <2>3 DEF Lagging
  <2>5. height(n.lhs) - height(n.rhs) \in {-1, 0, 1}
    BY <2>1 DEF Even, Fits
  <2>6. /\ Depth(n.lhs) = DepOf[n.lhs] /\ Depth(n.rhs) = DepOf[n.rhs]
        /\ DepOf[n.lhs] \in Nat /\ DepOf[n.rhs] \in Nat
        /\ height(n.lhs) \in Nat /\ height(n.rhs) \in Nat
    BY <2>2, AllTreesAre, DepthIs, DepIs, HeightIs
  <2> QED
    BY <2>4, <2>5, <2>6 DEF Near
<1>2. IInv => InsertsBalance
  BY <1>1 DEF InsertsBalance
<1> QED
  BY <1>2, Invariance, PTL

\* The exits through set_cleanup leave nothing on the heap.
THEOREM Frees == Spec => []ExitFreesAll
<1>1. IInv => ExitFreesAll
  BY DEF IInv
<1> QED
  BY <1>1, Invariance, PTL

\* Only a balanced tree stops the process, and insertions into it only after a
\* removal: as long as there was none, a node that leans has the subtree that
\* the double rotation of balance_node takes for granted.
THEOREM Crashes == Spec => CrashesOnlyTurbo
<1> DEFINE A == /\ created /\ outcome' = "crash" => turbo
                /\ (undisturbed /\ \E x \in Operand : set_insert(to_int(x)))
                      => outcome' # "crash"
<1>1. ASSUME IInv, Next PROVE A
  <2>1. outcome = "reading" /\ undisturbed \in BOOLEAN
    BY <1>1 DEF Next, IInv
  <2>2. ASSUME NEW x \in Operand, set_insert(to_int(x))
        PROVE  outcome' = "crash" => turbo /\ ~undisturbed
    BY <1>1, <2>1, <2>2, IntIs, InsertStep
  <2>3. ASSUME NEW x \in Operand, set_remove(to_int(x))
        PROVE  outcome' = "crash" => turbo
    BY <1>1, <2>1, <2>3, IntIs, RemoveStep
  <2>4. ASSUME created, cleanup_and_fail \/ EndOfInput PROVE outcome' # "crash"
    BY <1>1, <2>1, <2>4, CleanupStep DEF cleanup_and_fail, EndOfInput
  <2>5. created /\ outcome' = "crash" => turbo
    BY <1>1, <2>1, <2>2, <2>3, <2>4 DEF Next, set_find, set_print
  <2> QED
    BY <2>2, <2>5
<1>2. IInv /\ [Next]_vars => [A]_vars
  BY <1>1
<1> HIDE DEF A
<1>3. Spec => [][A]_vars
  BY <1>2, Invariance, PTL DEF Spec
<1> QED
  BY <1>3 DEF CrashesOnlyTurbo, A

-----------------------------------------------------------------------------
(* The set of set.h *)

LEMMA InitMaps == Init => S!Init
<1> SUFFICES ASSUME Init PROVE S!Init
  OBVIOUS
<1>1. root \in AllTrees /\ members = DataOf[root] /\ root = NULL
  BY AllTreesAre, MembersAre DEF Init, members
<1> QED
  BY <1>1, NullSound DEF Init, S!Init

\* Every step of the program is one of the set, or changes nothing of it.
LEMMA StepMaps ==
  ASSUME IInv, Next
  PROVE  S!Next
<1> DEFINE Q == {to_int(x) : x \in Operand}
<1>1. /\ IInv' /\ outcome = "reading" /\ created \in BOOLEAN
      /\ root \in AllTrees /\ Sorted(root) /\ (~created => root = NULL)
  BY NextInv DEF Next, IInv, Sound
<1>2. members = DataOf[root]
  BY <1>1, MembersAre DEF members
<1>3. members' = DataOf[root']
  <2>1. root' \in AllTrees
    BY <1>1 DEF IInv, Sound
  <2> QED
    BY <2>1, MembersAre DEF members
<1>4. ASSUME NEW x \in Operand, set_insert(to_int(x)), outcome' # "crash"
      PROVE  outcome' = "reading" /\ created' = created /\ S!Add(to_int(x))
  <2> DEFINE n == to_int(x)
  <2>1. n \in Int
    BY IntIs
  <2> HIDE DEF n
  <2>2. set_insert(n)
    BY <1>4 DEF n
  <2>3. CASE /\ UNCHANGED <<turbo, created, root, nodes, heap, outcome, undisturbed>>
             /\ answer' = IF created THEN <<1>> ELSE <<-1>>
             /\ created => n \in DataOf[root]
    <3>1. members' = members
      BY <1>2, <1>3, <2>3
    <3>2. ~created => n \notin members
      BY <1>1, <1>2, NullSound
    <3>3. S!Add(n)
      BY <1>2, <2>3, <3>1, <3>2 DEF S!Add
    <3> QED
      BY <1>1, <2>3, <3>3 DEF n
  <2>4. CASE /\ created /\ n \notin DataOf[root] /\ answer' = <<0>>
             /\ UNCHANGED <<turbo, created, heap, outcome, undisturbed>>
             /\ Rebuilt(DataOf[root]) \/ Rebuilt(DataOf[root] \cup {n})
    <3>1. members' = members \/ members' = members \cup {n}
      BY <1>2, <1>3, <2>4 DEF Rebuilt
    <3>2. S!Add(n)
      BY <1>2, <2>4, <3>1 DEF S!Add
    <3> QED
      BY <1>1, <2>4, <3>2 DEF n
  <2> QED
    BY <1>4, <2>1, <2>2, <2>3, <2>4, InsertStep DEF Crash
<1>5. ASSUME NEW x \in Operand, set_remove(to_int(x)), outcome' # "crash"
      PROVE  outcome' = "reading" /\ created' = created /\ S!Take(to_int(x))
  <2> DEFINE n == to_int(x)
  <2>1. n \in Int
    BY IntIs
  <2> HIDE DEF n
  <2>2. set_remove(n)
    BY <1>5 DEF n
  <2>3. CASE /\ UNCHANGED <<turbo, created, root, nodes, heap, outcome, undisturbed>>
             /\ n \notin DataOf[root] /\ answer' = <<1>>
    BY <1>1, <1>2, <1>3, <2>3 DEF S!Take, n
  <2>4. CASE /\ created /\ n \in DataOf[root] /\ answer' = <<0>>
             /\ undisturbed' = FALSE
             /\ UNCHANGED <<turbo, created, heap, outcome>>
             /\ Rebuilt(DataOf[root] \ {n})
    BY <1>1, <1>2, <1>3, <2>4 DEF S!Take, Rebuilt, n
  <2> QED
    BY <1>5, <2>1, <2>2, <2>3, <2>4, RemoveStep DEF Crash
<1>6. ASSUME NEW x \in Operand, set_find(to_int(x))
      PROVE  outcome' = "reading" /\ created' = created /\ S!Find(to_int(x))
  <2> DEFINE n == to_int(x)
  <2>1. tree_find(root, n) <=> n \in DataOf[root]
    BY <1>1, IntIs, FindFinds
  <2>2. /\ answer' = IF created /\ tree_find(root, n) THEN <<1>> ELSE <<0>>
        /\ UNCHANGED <<turbo, created, root, nodes, heap, outcome, undisturbed>>
    BY <1>6 DEF set_find
  <2> HIDE DEF n
  <2>3. ~created => n \notin DataOf[root]
    BY <1>1, NullSound
  <2> QED
    BY <1>1, <1>2, <1>3, <2>1, <2>2, <2>3 DEF S!Find, n
<1>7. ASSUME set_print, outcome' # "crash"
      PROVE  outcome' = "reading" /\ created' = created /\ S!PrintAll
  <2>1. /\ created /\ answer' = tree_print(root)
        /\ UNCHANGED <<turbo, created, root, nodes, heap, outcome, undisturbed>>
    BY <1>7 DEF set_print, Crash
  <2>2. Ascends(tree_print(root), DataOf[root])
    BY <1>1, PrintAscends
  <2> QED
    BY <1>1, <1>2, <1>3, <2>1, <2>2 DEF S!PrintAll, S!Ascending, Ascends
<1>8. ASSUME Crash PROVE S!Next
  <2>1. members' = members
    BY <1>2, <1>3, <1>8 DEF Crash
  <2> QED
    BY <1>1, <1>8, <2>1 DEF Crash, S!Next
<1>9. ASSUME created, NEW first \in BOOLEAN, NEW end \in {"success", "failure"},
             set_cleanup(first, end)
      PROVE  S!Next
  <2>1. /\ outcome' \in {"no dot file", end} /\ UNCHANGED <<turbo, created, answer>>
        /\ root' = root \/ root' = NULL
    BY <1>1, <1>9, CleanupStep
  <2>2. members' \in {members, {}} /\ outcome' # "reading"
    BY <1>2, <1>3, <2>1, NullSound
  <2> QED
    BY <1>1, <2>1, <2>2 DEF S!Next
<1>10. ASSUME cleanup_and_fail PROVE S!Next
  <2>1. CASE /\ ~created
             /\ outcome' = "failure"
             /\ heap' = heap \ {"buf"}
             /\ UNCHANGED <<turbo, created, root, nodes, answer, undisturbed>>
    BY <1>1, <1>2, <1>3, <2>1 DEF S!Next
  <2> QED
    BY <1>9, <1>10, <2>1 DEF cleanup_and_fail
<1>11. ASSUME EndOfInput PROVE S!Next
  BY <1>8, <1>9, <1>11 DEF EndOfInput
<1>12. \A x \in Operand : to_int(x) \in Q
  OBVIOUS
<1> HIDE DEF Q
<1>13. CASE \/ \E x \in Operand :
                  set_insert(to_int(x)) \/ set_remove(to_int(x)) \/ set_find(to_int(x))
            \/ set_print
  <2>1. CASE outcome' = "crash"
    <3>1. Crash
      BY <1>1, <1>6, <1>13, <2>1 DEF set_insert, set_remove, set_print
    <3> QED
      BY <1>8, <3>1
  <2>2. CASE outcome' # "crash"
    <3>1. /\ outcome' = "reading" /\ created' = created
          /\ \/ \E x \in Operand : S!Add(to_int(x)) \/ S!Find(to_int(x)) \/ S!Take(to_int(x))
             \/ S!PrintAll
      BY <1>4, <1>5, <1>6, <1>7, <1>13, <2>2
    <3> QED
      BY <1>1, <3>1 DEF S!Next
  <2> QED
    BY <2>1, <2>2
<1> QED
  BY <1>10, <1>11, <1>13 DEF Next

\* The tree, balanced or not, with whatever memory it finds, is the set that
\* set.h promises, and prints it in ascending order.
THEOREM Refines == Spec => ImplementsSet
<1>1. IInv /\ [Next]_vars => [S!Next]_(<<created, members, answer, outcome # "reading">>)
  <2>1. ASSUME UNCHANGED vars
        PROVE  UNCHANGED <<created, members, answer, outcome # "reading">>
    BY <2>1 DEF vars, members
  <2> QED
    BY <2>1, StepMaps
<1> QED
  BY <1>1, Invariance, InitMaps, PTL DEF Spec, ImplementsSet, S!Spec
=============================================================================
