------------------------------ MODULE BfsProofs ------------------------------
(***************************************************************************)
(* Proofs about maze_solver_bfs.c for mazes of every size and queues of     *)
(* every capacity.  First with the dropped pushes of a full queue included: *)
(* the queue only ever hands out positions that were pushed, so that the    *)
(* invariant of SearchProofs holds of the whole program.  Then for a queue  *)
(* that takes every push: the length is that of a shortest path, and an     *)
(* answer NOT_FOUND is right.  Last, that the ring buffer of Queue.tla is    *)
(* the bounded FIFO that the solver is composed with.                       *)
(***************************************************************************)
EXTENDS BfsSolver, Queue, SearchProofs, SequenceTheorems

\* The queue holds positions that were pushed, within its capacity.
Waiting ==
    /\ queue \in Seq(Indices)
    /\ \A k \in 1..Len(queue) : queue[k] \in Pushed
    /\ Len(queue) <= capacity
    /\ capacity \in {0, STACK_SIZE}
    /\ peak \in 0..STACK_SIZE
    /\ result \in Int

IInv == SInv /\ Waiting /\ FreedOnReturn

\* A step that leaves the queue alone.
LEMMA WaitingKept ==
  ASSUME Waiting, UNCHANGED queueVars, Pushed \subseteq Pushed'
  PROVE  Waiting'
<1>1. UNCHANGED <<queue, capacity, peak, result>>
  BY DEF queueVars
<1> QED
  BY <1>1 DEF Waiting

\* A push of a position that is recorded, whether the queue takes it or not.
LEMMA WaitingPush ==
  ASSUME Waiting, NEW x \in Indices, x \in Pushed', Pushed \subseteq Pushed',
         Q!Push(x)
  PROVE  Waiting'
<1>1. CASE /\ Len(queue) < capacity
           /\ queue' = Append(queue, x)
           /\ peak' = Q!AtLeast(peak, Len(queue) + 1)
           /\ result' = 0
           /\ UNCHANGED capacity
  <2>1. /\ queue' \in Seq(Indices)
        /\ Len(queue') = Len(queue) + 1
        /\ \A k \in 1..Len(queue) : queue'[k] = queue[k]
        /\ queue'[Len(queue) + 1] = x
    BY <1>1, AppendProperties DEF Waiting
  <2>2. Len(queue) \in Nat /\ peak \in 0..STACK_SIZE /\ capacity <= STACK_SIZE
    BY LenProperties, SearchAssumption DEF Waiting
  <2>3. peak' \in 0..STACK_SIZE
    BY <1>1, <2>2, SearchAssumption DEF Q!AtLeast, Waiting
  <2>4. ASSUME NEW k \in 1..Len(queue') PROVE queue'[k] \in Pushed'
    <3>1. k \in 1..Len(queue) \/ k = Len(queue) + 1
      BY <2>1, <2>2
    <3> QED
      BY <2>1, <3>1 DEF Waiting
  <2> QED
    BY <1>1, <2>1, <2>2, <2>3, <2>4 DEF Waiting
<1>2. CASE Len(queue) >= capacity /\ result' = 1 /\ UNCHANGED <<capacity, queue, peak>>
  BY <1>2 DEF Waiting
<1> QED
  BY <1>1, <1>2 DEF Q!Push

\* The position taken is one that waited.
LEMMA WaitingPop ==
  ASSUME Waiting, queue # <<>>, Q!Pop, Pushed' = Pushed
  PROVE  Waiting' /\ result' \in Pushed
<1>1. /\ result' = Head(queue) /\ queue' = Tail(queue)
      /\ UNCHANGED <<capacity, peak>>
  BY DEF Q!Pop
<1>2. /\ Len(queue) \in Nat /\ Len(queue) >= 1
      /\ Head(queue) = queue[1] /\ Head(queue) \in Indices
      /\ Tail(queue) \in Seq(Indices)
      /\ Len(Tail(queue)) = Len(queue) - 1
      /\ \A k \in 1..Len(Tail(queue)) : Tail(queue)[k] = queue[k + 1]
  BY HeadTailProperties, LenProperties, EmptySeq DEF Waiting
<1>3. result' \in Pushed /\ result' \in Int
  BY <1>1, <1>2 DEF Waiting, Indices
<1>4. ASSUME NEW k \in 1..Len(queue') PROVE queue'[k] \in Pushed'
  BY <1>1, <1>2 DEF Waiting
<1> QED
  BY <1>1, <1>2, <1>3, <1>4, SearchAssumption DEF Waiting

LEMMA WaitingClosed == ASSUME Waiting, Q!Close PROVE Waiting'
  BY EmptySeq, SearchAssumption DEF Waiting, Q!Close

\* Initially there is no queue.
LEMMA InitInv == ASSUME AllWellPosed PROVE Init => IInv
<1> SUFFICES ASSUME Init PROVE IInv
  OBVIOUS
<1>1. SInv /\ FreedOnReturn
  BY SearchInitInv DEF Init, SearchInit, FreedOnReturn
<1>2. Waiting
  BY EmptySeq, SearchAssumption DEF Init, Q!Init, Waiting
<1> QED
  BY <1>1, <1>2 DEF IInv

\* One step per call of the solver.
LEMMA BeginKeeps == ASSUME IInv, Begin PROVE IInv'
<1> USE DEF IInv
<1>1. NoFrontier \/ HaveFrontier \/ create_visitarray \/ StartPushed
  BY DEF Begin
<1>2. SInv'
  BY <1>1, BeginInv
<1>3. Pushed' = Pushed
  <2>1. UNCHANGED <<visitarray, start_index>>
    BY <1>1 DEF NoFrontier, HaveFrontier, create_visitarray, StartPushed, input,
       search
  <2> QED
    BY <2>1, PushedKept
<1>4. FreedOnReturn'
  <2>1. outcome' \in {"none", "ERROR"}
    BY <1>1 DEF NoFrontier, HaveFrontier, create_visitarray, StartPushed, Return,
       SInv
  <2> QED
    BY <2>1, FreedElsewhere
<1>5. Waiting'
  <2>1. CASE UNCHANGED queueVars
    BY <1>3, <2>1, WaitingKept
  <2>2. CASE Q!Create(STACK_SIZE)
    BY <2>2, EmptySeq, SearchAssumption DEF Q!Create, Waiting
  <2>3. CASE Q!Push(round_trip(start_index))
    <3>1. round_trip(start_index) \in Pushed /\ round_trip(start_index) \in Indices
      BY StartIsPushed, PushedInside
    <3> QED
      BY <1>3, <2>3, <3>1, WaitingPush
  <2> QED
    BY <2>1, <2>2, <2>3 DEF Begin
<1> QED
  BY <1>2, <1>4, <1>5

LEMMA TakeNextKeeps == ASSUME IInv, TakeNext PROVE IInv'
<1> USE DEF IInv
<1>1. CASE queue # <<>> /\ Q!Pop /\ Popped(result')
  <2>1. Pushed' = Pushed
    BY <1>1, PushedKept DEF Popped, input
  <2>2. Waiting' /\ result' \in Pushed
    BY <1>1, <2>1, WaitingPop
  <2>3. SInv'
    BY <1>1, <2>2, PoppedInv
  <2> QED
    BY <1>1, <2>2, <2>3, FreedElsewhere DEF Popped
<1>2. CASE queue = <<>> /\ NotFound /\ Q!Close
  BY <1>2, NotFoundInv, WaitingClosed, FreedWhenAnswered
<1> QED
  BY <1>1, <1>2 DEF TakeNext

LEMMA ExamineKeeps == ASSUME IInv, Examine PROVE IInv'
<1> USE DEF IInv
<1>1. CASE ExamineFails
  BY <1>1, ExamineFailsInv
<1>2. CASE ExamineSkips /\ UNCHANGED queueVars
  <2>1. Pushed' = Pushed
    BY <1>2, PushedKept DEF ExamineSkips, input
  <2> QED
    BY <1>2, <2>1, ExamineSkipsInv, WaitingKept, FreedElsewhere DEF ExamineSkips
<1>3. CASE ExaminePushes /\ Q!Push(new_index)
  <2>1. Pushed' = Pushed \cup {new_index} /\ new_index \in Indices
    BY <1>3, PushedGrows
  <2>2. Waiting'
    BY <1>3, <2>1, WaitingPush
  <2> QED
    BY <1>3, <2>2, ExaminePushesInv, FreedElsewhere DEF ExaminePushes, pushed_mark
<1> QED
  BY <1>1, <1>2, <1>3 DEF Examine

LEMMA BacktrackKeeps == ASSUME IInv, Backtrack PROVE IInv'
<1> USE DEF IInv
<1>1. CASE BacktrackStart /\ UNCHANGED queueVars
  <2>1. Pushed' = Pushed
    BY <1>1, PushedKept DEF BacktrackStart, input, search
  <2> QED
    BY <1>1, <2>1, BacktrackStartInv, WaitingKept, FreedElsewhere
    DEF BacktrackStart
<1>2. CASE BacktrackStep /\ UNCHANGED queueVars
  <2>1. SInv'
    BY <1>2, BacktrackStepInv
  <2>2. UNCHANGED <<visitarray, start_index>>
    BY <1>2 DEF BacktrackStep, AssertionFails, input, search
  <2>3. FreedOnReturn'
    <3>1. UNCHANGED <<outcome, heap>> \/ outcome' = "assert"
      BY <1>2 DEF BacktrackStep, AssertionFails, Return
    <3> QED
      BY <2>1, <3>1, FreedElsewhere DEF SInv
  <2> QED
    BY <1>2, <2>1, <2>2, <2>3, PushedKept, WaitingKept
<1>3. CASE BacktrackEnd /\ Q!Close
  BY <1>3, BacktrackEndInv, WaitingClosed, FreedWhenAnswered
<1> QED
  BY <1>1, <1>2, <1>3 DEF Backtrack

LEMMA StutterKeeps == ASSUME IInv, UNCHANGED vars PROVE IInv'
<1>1. UNCHANGED searchVars /\ UNCHANGED queueVars
  BY DEF vars
<1>2. UNCHANGED <<visitarray, start_index, outcome, heap>>
  BY <1>1 DEF searchVars, input, search
<1> QED
  BY <1>1, <1>2, StutterInv, PushedKept, WaitingKept, FreedElsewhere DEF IInv

\* The invariant holds throughout.
LEMMA Invariance == ASSUME AllWellPosed PROVE Spec => []IInv
<1>1. Init => IInv
  BY InitInv
<1>2. IInv /\ [Next]_vars => IInv'
  BY BeginKeeps, TakeNextKeeps, ExamineKeeps, BacktrackKeeps, StutterKeeps DEF Next
<1> QED
  BY <1>1, <1>2, PTL DEF Spec

-----------------------------------------------------------------------------
(* The theorems *)

\* Every variable keeps its type, and the queue its capacity.
THEOREM TypeCorrect == ASSUME AllWellPosed PROVE Spec => []TypeOK
<1>1. IInv => TypeOK
  <2>1. Waiting => queue \in Seq(Int)
    <3>1. Indices \subseteq Int
      BY DEF Indices
    <3> QED
      BY <3>1, SeqMonotonic DEF Waiting
  <2> QED
    BY <2>1, SInvImplies DEF IInv, Waiting, TypeOK
<1> QED
  BY <1>1, Invariance, PTL

\* The visitarray is a tree of moves rooted at the start at every moment of the
\* search, whichever pushes a full queue drops.
THEOREM VisitarrayIsTree == ASSUME AllWellPosed PROVE Spec => []VisitTree
<1>1. IInv => VisitTree
  BY SInvImplies DEF IInv
<1> QED
  BY <1>1, Invariance, PTL

\* backtrack reads only entries that were written and marks no position twice.
THEOREM WalkBackCounts == ASSUME AllWellPosed PROVE Spec => []BacktrackCounts
<1>1. IInv => BacktrackCounts
  BY SInvImplies DEF IInv
<1> QED
  BY <1>1, Invariance, PTL

\* A length that is returned is the length of a path that exists and is marked.
THEOREM LengthIsSound == ASSUME AllWellPosed PROVE Spec => []LengthIsPath
<1>1. IInv => LengthIsPath
  BY SInvImplies DEF IInv
<1> QED
  BY <1>1, Invariance, PTL

\* No assertion of maze_get or maze_set fails, and an answer leaves no block.
THEOREM SafeAndClean ==
  ASSUME AllWellPosed PROVE Spec => [](NoAssertion /\ FreedOnReturn)
<1>1. IInv => NoAssertion /\ FreedOnReturn
  BY SInvImplies DEF IInv
<1> QED
  BY <1>1, Invariance, PTL

-----------------------------------------------------------------------------
(* Distances in a maze: what Ball gives and what the invariant needs of it *)

\* Every natural is in a set that holds 0 and with each number the next.
LEMMA ByInduction ==
  ASSUME NEW T \in SUBSET Nat, 0 \in T, \A k \in T : k + 1 \in T
  PROVE  T = Nat
<1> DEFINE U == Nat \ T
<1> SUFFICES ASSUME U # {} PROVE FALSE
  OBVIOUS
<1>1. U \in SUBSET Nat
  OBVIOUS
<1> HIDE DEF U
<1>2. PICK m \in U : \A k \in U : m <= k
  BY <1>1, LeastElement
<1> USE DEF U
<1>3. m \in Nat /\ m \notin T /\ m # 0
  OBVIOUS
<1>4. m - 1 \in Nat /\ ~(m <= m - 1)
  BY <1>3
<1>5. m - 1 \in T
  BY <1>2, <1>4
<1> QED
  BY <1>3, <1>4, <1>5

\* The positions of X and those one move away.
Grown(W, X) == X \cup {y \in Indices : \E x \in X : Move(W, x, y)}

\* g gives the first balls up to the n-th.
Balls(W, s, n, g) ==
    /\ g \in [0..n -> SUBSET Indices]
    /\ g[0] = {s}
    /\ \A k \in 0..(n - 1) : g[k + 1] = Grown(W, g[k])

LEMMA BallsExist ==
  ASSUME NEW W, NEW s \in Indices, NEW n \in Nat
  PROVE  \E g : Balls(W, s, n, g)
<1> DEFINE T == {k \in Nat : \E g : Balls(W, s, k, g)}
<1>1. 0 \in T
  <2>1. Balls(W, s, 0, [k \in 0..0 |-> {s}])
    BY DEF Balls
  <2> QED
    BY <2>1
<1>2. ASSUME NEW k \in T PROVE k + 1 \in T
  <2>1. k \in Nat /\ k + 1 \in Nat
    OBVIOUS
  <2>2. PICK g : Balls(W, s, k, g)
    OBVIOUS
  <2> DEFINE h == [j \in 0..(k + 1) |-> IF j = k + 1 THEN Grown(W, g[k]) ELSE g[j]]
  <2>3. \A j \in 0..(k + 1) : j = k + 1 \/ j \in 0..k
    BY <2>1
  <2>4. h \in [0..(k + 1) -> SUBSET Indices]
    <3>1. g \in [0..k -> SUBSET Indices] /\ k \in 0..k
      BY <2>1, <2>2 DEF Balls
    <3>2. Grown(W, g[k]) \in SUBSET Indices
      BY <3>1 DEF Grown
    <3> QED
      BY <2>3, <3>1, <3>2
  <2>5. h[0] = {s}
    BY <2>1, <2>2 DEF Balls
  <2>6. \A j \in 0..k : h[j + 1] = Grown(W, h[j])
    <3> SUFFICES ASSUME NEW j \in 0..k PROVE h[j + 1] = Grown(W, h[j])
      OBVIOUS
    <3>1. h[j] = g[j]
      BY <2>1
    <3>2. CASE j = k
      BY <2>1, <3>1, <3>2
    <3>3. CASE j # k
      <4>1. j \in 0..(k - 1) /\ j + 1 \in 0..(k + 1) /\ j + 1 # k + 1
        BY <2>1, <3>3
      <4> QED
        BY <2>2, <3>1, <4>1 DEF Balls
    <3> QED
      BY <3>2, <3>3
  <2>7. (k + 1) - 1 = k
    BY <2>1
  <2> HIDE DEF h
  <2>8. Balls(W, s, k + 1, h)
    BY <2>4, <2>5, <2>6, <2>7 DEF Balls
  <2> QED
    BY <2>1, <2>8
<1>3. T \in SUBSET Nat
  OBVIOUS
<1> HIDE DEF T
<1>4. T = Nat
  BY <1>1, <1>2, <1>3, ByInduction
<1> QED
  BY <1>4 DEF T

LEMMA BallsAgree ==
  ASSUME NEW W, NEW s, NEW n \in Nat, NEW m \in Nat, NEW g, NEW h,
         Balls(W, s, n, g), Balls(W, s, m, h)
  PROVE  \A k \in Nat : k <= n /\ k <= m => g[k] = h[k]
<1> DEFINE T == {k \in Nat : k <= n /\ k <= m => g[k] = h[k]}
<1>1. 0 \in T
  BY DEF Balls
<1>2. ASSUME NEW k \in T PROVE k + 1 \in T
  <2> SUFFICES ASSUME k + 1 <= n, k + 1 <= m PROVE g[k + 1] = h[k + 1]
    OBVIOUS
  <2>1. k \in 0..(n - 1) /\ k \in 0..(m - 1) /\ k <= n /\ k <= m
    OBVIOUS
  <2> QED
    BY <2>1 DEF Balls
<1>3. T \in SUBSET Nat
  OBVIOUS
<1> HIDE DEF T
<1>4. T = Nat
  BY <1>1, <1>2, <1>3, ByInduction
<1> QED
  BY <1>4 DEF T

\* What Ball is defined to be.
LEMMA BallIs ==
  ASSUME NEW W, NEW s \in Indices
  PROVE  /\ Ball(W, s)[0] = {s}
         /\ \A k \in Nat : /\ Ball(W, s)[k] \in SUBSET Indices
                           /\ Ball(W, s)[k + 1] = Grown(W, Ball(W, s)[k])
<1> DEFINE f == [k \in Nat |-> (CHOOSE g : Balls(W, s, k, g))[k]]
           B == Ball(W, s)
<1>1. \A k \in Nat : Balls(W, s, k, CHOOSE g : Balls(W, s, k, g))
  BY BallsExist
<1>2. f[0] = {s}
  BY <1>1 DEF Balls
<1>3. ASSUME NEW k \in Nat
      PROVE  f[k] \in SUBSET Indices /\ f[k + 1] = Grown(W, f[k])
  <2>1. PICK g : g = CHOOSE x : Balls(W, s, k, x)
    OBVIOUS
  <2>2. PICK h : h = CHOOSE x : Balls(W, s, k + 1, x)
    OBVIOUS
  <2>3. k + 1 \in Nat /\ (k + 1) - 1 = k /\ k \in 0..k /\ k <= k + 1
    OBVIOUS
  <2>4. Balls(W, s, k, g) /\ Balls(W, s, k + 1, h)
    BY <1>1, <2>1, <2>2, <2>3
  <2>5. h[k] = g[k]
    BY <2>3, <2>4, BallsAgree
  <2>6. h[k + 1] = Grown(W, h[k]) /\ g[k] \in SUBSET Indices
    BY <2>3, <2>4 DEF Balls
  <2>7. f[k] = g[k] /\ f[k + 1] = h[k + 1]
    BY <2>1, <2>2, <2>3
  <2> QED
    BY <2>5, <2>6, <2>7
<1>4. f = [k \in Nat |-> IF k = 0 THEN {s} ELSE Grown(W, f[k - 1])]
  <2>1. ASSUME NEW k \in Nat, k # 0 PROVE f[k] = Grown(W, f[k - 1])
    <3>1. PICK j \in Nat : j = k - 1 /\ k = j + 1
      BY <2>1
    <3> HIDE DEF f
    <3> QED
      BY <1>3, <3>1
  <2>2. \A k \in Nat : f[k] = IF k = 0 THEN {s} ELSE Grown(W, f[k - 1])
    <3> HIDE DEF f
    <3> QED
      BY <1>2, <2>1
  <2>3. f = [k \in Nat |-> f[k]]
    OBVIOUS
  <2> HIDE DEF f
  <2> QED
    BY <2>2, <2>3
<1>5. B = CHOOSE b : b = [k \in Nat |-> IF k = 0 THEN {s} ELSE Grown(W, b[k - 1])]
  BY DEF Ball, Grown
<1> HIDE DEF f, B
<1>6. B = [k \in Nat |-> IF k = 0 THEN {s} ELSE Grown(W, B[k - 1])]
  BY <1>4, <1>5
<1>7. B[0] = {s} /\ \A k \in Nat : B[k + 1] = Grown(W, B[k])
  <2>1. \A k \in Nat : k + 1 \in Nat /\ k + 1 # 0 /\ (k + 1) - 1 = k
    OBVIOUS
  <2> QED
    BY <1>6, <2>1
<1>8. \A k \in Nat : B[k] \in SUBSET Indices
  <2> DEFINE T == {k \in Nat : B[k] \in SUBSET Indices}
  <2>1. 0 \in T /\ \A k \in T : k + 1 \in T
    BY <1>7 DEF Grown
  <2>2. T \in SUBSET Nat
    OBVIOUS
  <2> HIDE DEF T
  <2>3. T = Nat
    BY <2>1, <2>2, ByInduction
  <2> QED
    BY <2>3 DEF T
<1> QED
  BY <1>7, <1>8 DEF B

\* d gives the number of moves from s to each position, -1 to one that no
\* sequence of moves leads to.
Distances(d, W, s) ==
    /\ d \in [Indices -> Nat \cup {-1}]
    /\ \A x \in Indices : d[x] = 0 <=> x = s
    /\ \A x, y \in Indices :
          d[x] >= 0 /\ Move(W, x, y) => d[y] >= 0 /\ d[y] <= d[x] + 1
    /\ \A y \in Indices :
          d[y] > 0 => \E x \in Indices : d[x] = d[y] - 1 /\ Move(W, x, y)
    /\ \A x \in Indices, k \in Nat : d[x] = k => AtDistance(W, s, x, k)

LEMMA BallsGrow ==
  ASSUME NEW W, NEW s \in Indices, NEW j \in Nat, NEW k \in Nat, j <= k
  PROVE  Ball(W, s)[j] \subseteq Ball(W, s)[k]
<1> DEFINE B == Ball(W, s)
           T == {n \in Nat : B[j] \subseteq B[j + n]}
<1>1. \A n \in Nat : B[n] \subseteq B[n + 1]
  BY BallIs DEF Grown
<1> HIDE DEF B
<1>2. 0 \in T
  BY j + 0 = j
<1>3. ASSUME NEW n \in T PROVE n + 1 \in T
  <2>1. j + n \in Nat /\ (j + n) + 1 = j + (n + 1) /\ n + 1 \in Nat
    OBVIOUS
  <2>2. B[j + n] \subseteq B[j + (n + 1)]
    BY <1>1, <2>1
  <2>3. B[j] \subseteq B[j + n]
    OBVIOUS
  <2> QED
    BY <2>1, <2>2, <2>3
<1>4. T \in SUBSET Nat
  OBVIOUS
<1> HIDE DEF T
<1>5. T = Nat
  BY <1>2, <1>3, <1>4, ByInduction
<1>6. k - j \in T /\ j + (k - j) = k
  BY <1>5
<1>7. B[j] \subseteq B[j + (k - j)]
  BY <1>6 DEF T
<1> QED
  BY <1>6, <1>7 DEF B

LEMMA DistancesExist ==
  ASSUME NEW W, NEW s \in Indices
  PROVE  \E d : Distances(d, W, s)
<1> DEFINE Within(x) == {k \in Nat : x \in Ball(W, s)[k]}
           First(x, k) == k \in Within(x) /\ \A j \in Within(x) : k <= j
           d == [x \in Indices |-> IF Within(x) = {} THEN -1
                                   ELSE CHOOSE k : First(x, k)]
<1>1. PICK B : B = Ball(W, s)
  OBVIOUS
<1>2. /\ B[0] = {s}
      /\ \A k \in Nat : B[k] \in SUBSET Indices /\ B[k + 1] = Grown(W, B[k])
      /\ \A j, k \in Nat : j <= k => B[j] \subseteq B[k]
  BY <1>1, BallIs, BallsGrow
<1>3. \A x \in Indices : \/ d[x] = -1 /\ \A k \in Nat : x \notin B[k]
                         \/ d[x] \in Nat /\ \A k \in Nat : x \in B[k] <=> d[x] <= k
  <2> SUFFICES ASSUME NEW x \in Indices
               PROVE  \/ d[x] = -1 /\ \A k \in Nat : x \notin B[k]
                      \/ d[x] \in Nat /\ \A k \in Nat : x \in B[k] <=> d[x] <= k
    OBVIOUS
  <2>1. CASE Within(x) = {}
    BY <1>1, <2>1
  <2>2. CASE Within(x) # {}
    <3>1. PICK U \in SUBSET Nat : U = Within(x)
      OBVIOUS
    <3>2. \E k \in U : \A j \in U : k <= j
      BY <2>2, <3>1, LeastElement
    <3>3. \E k : First(x, k)
      BY <3>1, <3>2
    <3>4. First(x, CHOOSE k : First(x, k))
      BY <3>3
    <3>5. d[x] = CHOOSE k : First(x, k)
      BY <2>2
    <3>6. First(x, d[x])
      BY <3>4, <3>5
    <3> HIDE DEF d
    <3>7. d[x] \in Nat /\ x \in B[d[x]] /\ \A k \in Nat : x \in B[k] => d[x] <= k
      BY <1>1, <3>6
    <3>8. ASSUME NEW k \in Nat, d[x] <= k PROVE x \in B[k]
      BY <1>2, <3>7, <3>8
    <3> QED
      BY <3>7, <3>8
  <2> QED
    BY <2>1, <2>2
<1> HIDE DEF d
<1>4. d \in [Indices -> Nat \cup {-1}]
  <2>1. d = [x \in Indices |-> d[x]]
    BY DEF d
  <2>2. \A x \in Indices : d[x] \in Nat \cup {-1}
    BY <1>3
  <2> QED
    BY <2>1, <2>2
<1>5. \A x \in Indices : d[x] = 0 <=> x = s
  <2>1. \A x \in Indices : d[x] \in Nat /\ d[x] <= 0 <=> d[x] = 0
    BY <1>4
  <2>2. 0 \in Nat
    OBVIOUS
  <2>3. \A x \in Indices : x \in B[0] <=> d[x] \in Nat /\ d[x] <= 0
    BY <1>3, <2>2
  <2> QED
    BY <1>2, <2>1, <2>3
<1>6. \A x, y \in Indices :
         d[x] >= 0 /\ Move(W, x, y) => d[y] >= 0 /\ d[y] <= d[x] + 1
  <2> SUFFICES ASSUME NEW x \in Indices, NEW y \in Indices, d[x] >= 0, Move(W, x, y)
               PROVE  d[y] >= 0 /\ d[y] <= d[x] + 1
    OBVIOUS
  <2>1. PICK k \in Nat : k = d[x]
    BY <1>4
  <2>2. x \in B[k]
    BY <1>3, <2>1
  <2>3. y \in B[k + 1]
    BY <1>2, <2>2 DEF Grown
  <2>4. d[y] \in Nat /\ d[y] <= k + 1
    BY <1>3, <2>3
  <2> QED
    BY <2>1, <2>4
<1>7. \A y \in Indices :
         d[y] > 0 => \E x \in Indices : d[x] = d[y] - 1 /\ Move(W, x, y)
  <2> SUFFICES ASSUME NEW y \in Indices, d[y] > 0
               PROVE  \E x \in Indices : d[x] = d[y] - 1 /\ Move(W, x, y)
    OBVIOUS
  <2>1. PICK k \in Nat : d[y] = k + 1
    <3>1. d[y] \in Nat
      BY <1>4
    <3>2. d[y] - 1 \in Nat /\ d[y] = (d[y] - 1) + 1
      BY <3>1
    <3> QED
      BY <3>2
  <2>2. y \in B[k + 1] /\ y \notin B[k]
    <3>1. d[y] \in Nat /\ ~(d[y] <= k) /\ d[y] <= k + 1
      BY <2>1
    <3> QED
      BY <1>3, <3>1
  <2>3. PICK x \in B[k] : Move(W, x, y)
    BY <1>2, <2>2 DEF Grown
  <2>4. x \in Indices
    BY <1>2
  <2>5. d[x] \in Nat /\ d[x] <= k
    BY <1>3, <2>4
  <2>6. d[y] <= d[x] + 1
    BY <1>6, <2>3, <2>4, <2>5
  <2>7. d[x] = d[y] - 1
    BY <2>1, <2>5, <2>6
  <2> QED
    BY <2>3, <2>4, <2>7
<1>8. ASSUME NEW x \in Indices, NEW k \in Nat, d[x] = k
      PROVE  AtDistance(W, s, x, k)
  <2>1. x \in B[k]
    BY <1>3, <1>8
  <2>2. k > 0 => x \notin B[k - 1]
    <3>1. k > 0 => k - 1 \in Nat /\ ~(d[x] <= k - 1)
      BY <1>8
    <3> QED
      BY <1>3, <1>8, <3>1
  <2> QED
    BY <1>1, <2>1, <2>2 DEF AtDistance
<1>9. Distances(d, W, s)
  BY <1>4, <1>5, <1>6, <1>7, <1>8 DEF Distances
<1> QED
  BY <1>9

\* A grid has two colours of positions, like a chessboard, and every move
\* changes the colour: two positions next to each other are never as far from s.
LEMMA DistancesDiffer ==
  ASSUME NEW W, NEW s \in Indices, NEW d, Distances(d, W, s),
         NEW x \in Indices, NEW y \in Indices, d[x] >= 0, Move(W, x, y)
  PROVE  d[x] # d[y]
<1> DEFINE sum(z) == maze_row(z) + maze_col(z)
           Colour(z, k) == \E m \in Int : sum(z) = sum(s) + k + 2 * m
           T == {k \in Nat : \A z \in Indices : d[z] = k => Colour(z, k)}
<1>1. \A z \in Indices : sum(z) \in Int
  BY IndexToRowCol
<1>2. ASSUME NEW u \in Indices, NEW v \in Indices, Move(W, u, v)
      PROVE  sum(v) = sum(u) + 1 \/ sum(v) = sum(u) - 1
  <2>1. PICK q \in Directions : /\ maze_valid_move(step_row(u, q), step_col(u, q))
                                /\ v = step(u, q)
    BY <1>2 DEF Move, Directions
  <2>2. step_row(u, q) \in 0..(N - 1) /\ step_col(u, q) \in 0..(N - 1)
    BY <2>1, Steps, MazeAssumption DEF maze_valid_move
  <2>3. maze_row(v) = step_row(u, q) /\ maze_col(v) = step_col(u, q)
    BY <2>1, <2>2, RowColToIndex DEF step
  <2>4. maze_row(u) \in Int /\ maze_col(u) \in Int
    BY IndexToRowCol
  <2> QED
    BY <2>3, <2>4, Steps
<1> HIDE DEF sum
<1>3. 0 \in T
  <2>1. Colour(s, 0)
    <3>1. sum(s) = sum(s) + 0 + 2 * 0
      BY <1>1
    <3> QED
      BY <3>1
  <2> QED
    BY <2>1 DEF Distances
<1>4. ASSUME NEW k \in T PROVE k + 1 \in T
  <2> SUFFICES ASSUME NEW z \in Indices, d[z] = k + 1 PROVE Colour(z, k + 1)
    OBVIOUS
  <2>1. PICK u \in Indices : d[u] = d[z] - 1 /\ Move(W, u, z)
    <3>1. d[z] > 0
      OBVIOUS
    <3> QED
      BY <3>1 DEF Distances
  <2>2. d[u] = k
    BY <2>1
  <2>3. PICK m \in Int : sum(u) = sum(s) + k + 2 * m
    BY <2>2
  <2>4. sum(z) = sum(u) + 1 \/ sum(z) = sum(u) - 1
    BY <1>2, <2>1
  <2>5. \/ sum(z) = sum(s) + (k + 1) + 2 * m
        \/ sum(z) = sum(s) + (k + 1) + 2 * (m - 1)
    BY <1>1, <2>3, <2>4
  <2>6. m \in Int /\ m - 1 \in Int
    OBVIOUS
  <2>7. \E p \in Int : sum(z) = sum(s) + (k + 1) + 2 * p
    BY <2>5, <2>6
  <2> QED
    BY <2>7
<1>5. T \in SUBSET Nat
  OBVIOUS
<1> HIDE DEF T
<1>6. T = Nat
  BY <1>3, <1>4, <1>5, ByInduction
<1> SUFFICES ASSUME d[x] = d[y] PROVE FALSE
  OBVIOUS
<1>7. PICK k \in Nat : d[x] = k /\ d[y] = k
  BY DEF Distances
<1>8. Colour(x, k) /\ Colour(y, k)
  BY <1>6, <1>7 DEF T
<1>9. PICK m \in Int : sum(x) = sum(s) + k + 2 * m
  BY <1>8
<1>10. PICK n \in Int : sum(y) = sum(s) + k + 2 * n
  BY <1>8
<1>11. sum(y) = sum(x) + 1 \/ sum(y) = sum(x) - 1
  BY <1>2
<1>12. 2 * n = 2 * m + 1 \/ 2 * n = 2 * m - 1
  BY <1>1, <1>9, <1>10, <1>11
<1> QED
  BY <1>12

-----------------------------------------------------------------------------
(* The invariant of a search whose queue takes every push *)

\* A push that the full queue drops.
Refused == (StartPushed \/ ExaminePushes) /\ Len(queue) >= capacity

\* The ground the search may walk on, the same from beginning to end: the start
\* may be marked as a wall until it is visited.
Ground == Walls \ {start_index}

InQueue(x) == \E k \in 1..Len(queue) : queue[k] = x

\* What has been found is in the queue, in hand or visited.
NoLoss ==
    /\ pc \in {"frontier_init", "create_visitarray", "push_start"} => queue = <<>>
    /\ pc \in {"loop", "examine"} =>
        /\ \A x \in Indices : maze[x] = TO_VISIT => InQueue(x) \/ InHand(x)
        /\ maze[start_index] = VISITED \/ InQueue(start_index) \/ InHand(start_index)

\* The queue is ordered by distance, over two distances at most; while a position
\* is in hand the first of them is its own.
InOrder(d) ==
    /\ pc \in {"loop", "examine"} =>
          \A j, k \in 1..Len(queue) :
             j <= k => d[queue[j]] <= d[queue[k]] /\ d[queue[k]] <= d[queue[j]] + 1
    /\ pc = "examine" =>
          \A k \in 1..Len(queue) :
             d[current_index] <= d[queue[k]] /\ d[queue[k]] <= d[current_index] + 1

\* Every entry of the visitarray leads one move nearer to the start, and
\* backtrack has counted the moves it has gone.
Descends(d) ==
    /\ \A x \in Pushed : d[x] >= 0
    /\ \A x \in Tree : d[visitarray[x]] = d[x] - 1
    /\ pc = "backtrack" => lengte + d[array_index] = d[finish_index]
    /\ outcome = "length" => lengte = d[finish_index]

ByDistance(d) == Distances(d, Ground, start_index) /\ InOrder(d) /\ Descends(d)

FullInv == IInv /\ Covering /\ NoLoss /\ NotFoundIsRight /\ \E d : ByDistance(d)

\* What is nearer than all that waits was visited.
LEMMA NearerVisited ==
  ASSUME SInv, Covering, NoLoss, pc \in {"loop", "examine"},
         NEW d, Distances(d, Ground, start_index), NEW l \in Nat,
         \A x \in Indices : InQueue(x) \/ InHand(x) => d[x] >= l,
         NEW x \in Indices, d[x] >= 0, d[x] < l
  PROVE  maze[x] = VISITED
<1> DEFINE T == {k \in Nat : k < l /\ \E y \in Indices : d[y] = k /\ maze[y] # VISITED}
<1> SUFFICES ASSUME maze[x] # VISITED PROVE FALSE
  OBVIOUS
<1>0. \A y \in Indices : d[y] \in Nat \cup {-1}
  BY DEF Distances
<1>1. d[x] \in T
  BY <1>0
<1>2. T \in SUBSET Nat /\ T # {}
  BY <1>1
<1>3. PICK m \in T : \A k \in T : m <= k
  <2> HIDE DEF T
  <2> QED
    BY <1>2, LeastElement
<1>4. PICK y \in Indices : d[y] = m /\ maze[y] # VISITED
  OBVIOUS
<1>5. m \in Nat /\ m < l /\ ~InQueue(y) /\ ~InHand(y)
  BY <1>4
<1>6. CASE m = 0
  <2>1. y = start_index
    BY <1>4, <1>6 DEF Distances
  <2> QED
    BY <1>4, <1>5, <2>1 DEF NoLoss
<1>7. CASE m # 0
  <2>1. PICK z \in Indices : d[z] = d[y] - 1 /\ Move(Ground, z, y)
    <3>1. d[y] > 0
      BY <1>4, <1>5, <1>7
    <3> QED
      BY <3>1 DEF Distances
  <2>2. d[z] \in Nat /\ d[z] < m /\ d[z] < l
    BY <1>4, <1>5, <1>7, <2>1
  <2>3. maze[z] = VISITED
    <3>1. d[z] \notin T
      BY <1>3, <1>5, <2>2
    <3> QED
      BY <2>2, <3>1
  <2>4. ~InHand(z)
    <3>1. ~(d[z] >= l)
      BY <2>2
    <3> QED
      BY <3>1
  <2>5. Move(Walls, z, y)
    <3>1. y # start_index
      BY <1>4, <1>7 DEF Distances
    <3> QED
      BY <2>1, <3>1 DEF Move, Ground
  <2>6. maze[y] = TO_VISIT
    BY <1>4, <2>3, <2>4, <2>5, NeighboursMarked
  <2> QED
    BY <1>5, <2>6 DEF NoLoss
<1> QED
  BY <1>6, <1>7

\* The position that is pushed is one move farther than the one in hand: not
\* nearer, or it would have been visited, nor as far, by its colour.
LEMMA PushedIsNext ==
  ASSUME IInv, Covering, NoLoss, NEW d, ByDistance(d), ExaminePushes
  PROVE  d[new_index] = d[current_index] + 1 /\ d[current_index] \in Nat
<1>1. /\ pc = "examine" /\ Fresh
      /\ i \in Directions
      /\ current_index \in Indices /\ current_index \in Pushed
      /\ new_index \in Indices /\ maze \in [Indices -> Marks]
  BY Examining DEF ExaminePushes, IInv
<1>2. Move(Ground, current_index, new_index)
  BY <1>1 DEF Move, Fresh, new_index, Directions, Walls, Ground
<1>3. PICK c \in Nat : d[current_index] = c
  BY <1>1 DEF ByDistance, Descends, Distances
<1>4. d[new_index] \in Nat /\ d[new_index] <= c + 1
  BY <1>1, <1>2, <1>3 DEF ByDistance, Distances
<1>5. d[new_index] # c
  BY <1>1, <1>2, <1>3, DistancesDiffer DEF ByDistance, IInv, SInv, Posed
<1>6. ASSUME d[new_index] < c PROVE FALSE
  <2>1. \A x \in Indices : InQueue(x) \/ InHand(x) => d[x] >= c
    BY <1>1, <1>3 DEF ByDistance, InOrder, InQueue, InHand, Distances
  <2>2. maze[new_index] = VISITED
    BY <1>1, <1>4, <1>6, <2>1, NearerVisited DEF ByDistance, IInv
  <2> QED
    BY <1>1, <2>2 DEF Fresh
<1> QED
  BY <1>3, <1>4, <1>5, <1>6

\* Marking positions that are no ground walls leaves the ground and distances.
LEMMA GroundKept ==
  ASSUME SInv, start_index' = start_index,
         \A x \in Indices : maze'[x] # maze[x] => x \in Pushed /\ maze'[x] # WALL
  PROVE  Ground' = Ground
<1>1. \A x \in Tree : x \in Indices /\ x \notin Walls
  <2>1. \A x \in Tree : Move(Walls, visitarray[x], x)
    BY DEF SInv, VisitTree
  <2> QED
    BY <2>1 DEF Move, Tree
<1>2. \A x \in Indices : x # start_index => (maze'[x] = WALL <=> maze[x] = WALL)
  BY <1>1 DEF Walls, Pushed
<1> QED
  BY <1>2 DEF Ground, Walls

\* A step that leaves the tree and the walk alone.
LEMMA DescendsKept ==
  ASSUME NEW d, Descends(d),
         UNCHANGED <<visitarray, start_index, finish_index, array_index, lengte>>,
         pc' = "backtrack" => pc = "backtrack",
         outcome' = "length" => outcome = "length"
  PROVE  Descends(d)'
<1>1. Pushed' = Pushed /\ Tree' = Tree
  BY DEF Pushed, Tree
<1> QED
  BY <1>1 DEF Descends

LEMMA InOrderElsewhere ==
  ASSUME NEW d, pc' \notin {"loop", "examine"} PROVE InOrder(d)'
  BY DEF InOrder

LEMMA NoLossElsewhere ==
  ASSUME pc' \notin {"frontier_init", "create_visitarray", "push_start", "loop",
                     "examine"}
  PROVE  NoLoss'
  BY DEF NoLoss

\* A push that the queue takes.
LEMMA TakenPush ==
  ASSUME Waiting, NEW x \in Indices, Q!Push(x), Len(queue) < capacity
  PROVE  /\ Len(queue) \in Nat
         /\ Len(queue') = Len(queue) + 1
         /\ \A k \in 1..Len(queue) : queue'[k] = queue[k]
         /\ queue'[Len(queue) + 1] = x
         /\ \A y : InQueue(y) \/ y = x => InQueue(y)'
<1>1. queue' = Append(queue, x)
  <2>1. Len(queue) \in Nat /\ capacity \in Nat
    BY LenProperties, SearchAssumption DEF Waiting
  <2>2. ~(Len(queue) >= capacity)
    BY <2>1
  <2> QED
    BY <2>2 DEF Q!Push
<1>2. /\ Len(queue) \in Nat
      /\ Len(queue') = Len(queue) + 1
      /\ \A k \in 1..Len(queue) : queue'[k] = queue[k]
      /\ queue'[Len(queue) + 1] = x
  BY <1>1, AppendProperties, LenProperties DEF Waiting
<1>3. \A y : InQueue(y) \/ y = x => InQueue(y)'
  BY <1>2 DEF InQueue
<1> QED
  BY <1>2, <1>3

\* At the start nothing is marked and there are no predecessors.
LEMMA FullInit == ASSUME AllWellPosed PROVE Init => FullInv
<1> SUFFICES ASSUME Init PROVE FullInv
  OBVIOUS
<1>1. StartOfSearch /\ IInv
  BY SearchInitInv, InitInv DEF Init
<1>2. Covering /\ NotFoundIsRight
  BY <1>1, CoveringAtStart DEF StartOfSearch, NotFoundIsRight
<1>3. NoLoss
  BY <1>1 DEF StartOfSearch, NoLoss, Init, Q!Init
<1>4. PICK d : Distances(d, Ground, start_index)
  BY <1>1, DistancesExist DEF StartOfSearch, Posed
<1>5. Descends(d)
  <2>1. Tree = {} /\ Pushed = {start_index}
    BY <1>1 DEF StartOfSearch, Tree, Pushed
  <2>2. d[start_index] = 0
    BY <1>1, <1>4 DEF Distances, StartOfSearch, Posed
  <2> QED
    BY <1>1, <2>1, <2>2 DEF Descends, StartOfSearch
<1>6. InOrder(d)
  BY <1>1 DEF StartOfSearch, InOrder
<1> QED
  BY <1>1, <1>2, <1>3, <1>4, <1>5, <1>6 DEF FullInv, ByDistance

LEMMA FullBegin == ASSUME FullInv, Begin, ~Refused PROVE FullInv'
<1>1. PICK d : ByDistance(d)
  BY DEF FullInv
<1>2. IInv /\ IInv' /\ Covering'
  BY BeginKeeps, CoveringBegins DEF FullInv, Begin, IInv
<1>3. NoFrontier \/ HaveFrontier \/ create_visitarray \/ StartPushed
  BY DEF Begin
<1>4. /\ UNCHANGED <<maze, start_index, finish_index, visitarray, array_index, lengte>>
      /\ pc \in {"frontier_init", "create_visitarray", "push_start"}
      /\ pc' \in {"create_visitarray", "push_start", "loop", "done"}
      /\ outcome' = outcome \/ outcome' = "ERROR"
  BY <1>3 DEF NoFrontier, HaveFrontier, create_visitarray, StartPushed, Return, input,
     search, walk
<1>5. NotFoundIsRight'
  <2>1. outcome' # "NOT_FOUND"
    BY <1>2, <1>4 DEF IInv, SInv
  <2> QED
    BY <2>1, RightElsewhere
<1>6. Descends(d)'
  BY <1>1, <1>4, DescendsKept DEF ByDistance
<1>7. Distances(d, Ground, start_index)'
  <2>1. Ground' = Ground
    BY <1>4 DEF Ground, Walls
  <2> QED
    BY <1>1, <1>4, <2>1 DEF ByDistance, Distances
<1>8. CASE ~StartPushed
  <2>1. pc' # "loop"
    BY <1>3, <1>8 DEF NoFrontier, HaveFrontier, create_visitarray, Return
  <2>2. queue = <<>>
    BY <1>4 DEF FullInv, NoLoss
  <2>3. queue' = <<>>
    BY <1>8, <2>2 DEF Begin, queueVars, Q!Create
  <2>4. NoLoss' /\ InOrder(d)'
    BY <1>4, <2>1, <2>3 DEF NoLoss, InOrder
  <2> QED
    BY <1>2, <1>5, <1>6, <1>7, <2>4 DEF FullInv, ByDistance
<1>9. CASE StartPushed
  <2>1. pc' = "loop" /\ round_trip(start_index) = start_index /\ start_index \in Indices
    BY <1>2, <1>9, IndexToRowCol DEF StartPushed, IInv, SInv, Posed
  <2>2. Q!Push(start_index) /\ Len(queue) < capacity
    <3>1. Q!Push(round_trip(start_index))
      BY <1>9 DEF Begin, NoFrontier, HaveFrontier, create_visitarray, StartPushed
    <3>2. Len(queue) \in Nat /\ capacity \in Nat
      BY <1>2, LenProperties, SearchAssumption DEF IInv, Waiting
    <3> QED
      BY <1>9, <2>1, <3>1, <3>2 DEF Refused
  <2>3. Len(queue) = 0
    BY <1>4 DEF FullInv, NoLoss
  <2>4. Len(queue') = 1 /\ queue'[1] = start_index /\ InQueue(start_index)'
    <3>1. Waiting
      BY <1>2 DEF IInv
    <3>2. /\ Len(queue') = Len(queue) + 1
          /\ queue'[Len(queue) + 1] = start_index
          /\ \A y : InQueue(y) \/ y = start_index => InQueue(y)'
      BY <2>1, <2>2, <3>1, TakenPush
    <3>3. start_index' = start_index
      BY <1>4
    <3> QED
      BY <2>3, <3>2, <3>3
  <2>5. NoLoss'
    BY <1>4, <2>1, <2>4 DEF NoLoss, FullInv, Covering
  <2>6. InOrder(d)'
    <3>1. d[start_index] = 0
      BY <1>1, <2>1 DEF ByDistance, Distances
    <3>2. \A j \in 1..Len(queue') : queue'[j] = start_index
      BY <2>4
    <3> QED
      BY <1>4, <2>1, <2>4, <3>1, <3>2 DEF InOrder
  <2> QED
    BY <1>2, <1>5, <1>6, <1>7, <2>5, <2>6 DEF FullInv, ByDistance
<1> QED
  BY <1>8, <1>9

\* The head of the queue is as near as any that waits.
LEMMA FullTakeNext == ASSUME FullInv, TakeNext PROVE FullInv'
<1>1. PICK d : ByDistance(d)
  BY DEF FullInv
<1>2. IInv /\ IInv'
  BY TakeNextKeeps DEF FullInv
<1>3. CASE queue # <<>> /\ Q!Pop /\ Popped(result')
  <2>1. /\ pc = "loop" /\ pc' \in {"examine", "found"}
        /\ current_index' = result'
        /\ UNCHANGED <<maze, start_index, finish_index, visitarray, array_index,
                       lengte, outcome>>
    BY <1>3 DEF Popped, input, walk
  <2>2. /\ result' = queue[1]
        /\ Len(queue) \in Nat /\ Len(queue) >= 1 /\ Len(queue') = Len(queue) - 1
        /\ \A k \in 1..Len(queue') : queue'[k] = queue[k + 1]
    <3>1. queue \in Seq(Indices) /\ result' = Head(queue) /\ queue' = Tail(queue)
      BY <1>2, <1>3 DEF Q!Pop, IInv, Waiting
    <3>2. /\ Len(queue) \in Nat /\ Len(queue) >= 1 /\ Head(queue) = queue[1]
          /\ Len(Tail(queue)) = Len(queue) - 1
          /\ \A k \in 1..Len(Tail(queue)) : Tail(queue)[k] = queue[k + 1]
      BY <1>3, <3>1, HeadTailProperties, LenProperties, EmptySeq
    <3> QED
      BY <3>1, <3>2
  <2>3. Covering'
    <3>1. Pushed' = Pushed
      BY <2>1, PushedKept
    <3>2. result' \in Pushed
      BY <1>2, <1>3, <3>1, WaitingPop DEF IInv
    <3> QED
      BY <1>2, <1>3, <3>2, CoveringPopped DEF IInv, FullInv
  <2>4. \A x : InQueue(x) => InQueue(x)' \/ x = result'
    <3> SUFFICES ASSUME NEW x, InQueue(x), x # result' PROVE InQueue(x)'
      OBVIOUS
    <3>1. PICK k \in 1..Len(queue) : queue[k] = x
      BY DEF InQueue
    <3>2. k # 1
      BY <2>2, <3>1
    <3>3. k - 1 \in 1..Len(queue') /\ (k - 1) + 1 = k
      BY <2>2, <3>2
    <3>4. queue'[k - 1] = x
      BY <2>2, <3>1, <3>3
    <3> QED
      BY <3>3, <3>4 DEF InQueue
  <2>5. NoLoss'
    <3>1. CASE pc' = "found"
      BY <3>1, NoLossElsewhere
    <3>2. CASE pc' = "examine"
      <4>1. \A x : InQueue(x) \/ InHand(x) => InQueue(x)' \/ InHand(x)'
        BY <2>1, <2>4, <3>2 DEF InHand
      <4> QED
        BY <2>1, <3>2, <4>1 DEF FullInv, NoLoss
    <3> QED
      BY <2>1, <3>1, <3>2
  <2>6. InOrder(d)'
    <3>1. \A j, k \in 1..Len(queue) :
             j <= k => d[queue[j]] <= d[queue[k]] /\ d[queue[k]] <= d[queue[j]] + 1
      BY <1>1, <2>1 DEF ByDistance, InOrder
    <3>2. \A k \in 1..Len(queue') : k + 1 \in 1..Len(queue) /\ 1 <= k + 1
      BY <2>2
    <3>3. 1 \in 1..Len(queue)
      BY <2>2
    <3>4. \A j, k \in 1..Len(queue') : j <= k => j + 1 <= k + 1
      BY <2>2
    <3>5. \A j, k \in 1..Len(queue') :
             j <= k => /\ d[queue'[j]] <= d[queue'[k]]
                       /\ d[queue'[k]] <= d[queue'[j]] + 1
      <4> SUFFICES ASSUME NEW j \in 1..Len(queue'), NEW k \in 1..Len(queue'), j <= k
                   PROVE  /\ d[queue'[j]] <= d[queue'[k]]
                          /\ d[queue'[k]] <= d[queue'[j]] + 1
        OBVIOUS
      <4>1. /\ queue'[j] = queue[j + 1] /\ queue'[k] = queue[k + 1]
            /\ j + 1 \in 1..Len(queue) /\ k + 1 \in 1..Len(queue) /\ j + 1 <= k + 1
        BY <2>2, <3>2, <3>4
      <4> QED
        BY <3>1, <4>1
    <3>6. \A k \in 1..Len(queue') :
             d[result'] <= d[queue'[k]] /\ d[queue'[k]] <= d[result'] + 1
      BY <2>2, <3>1, <3>2, <3>3
    <3> QED
      BY <2>1, <3>5, <3>6 DEF InOrder
  <2>7. Ground' = Ground
    BY <2>1 DEF Ground, Walls
  <2>8. NotFoundIsRight'
    BY <1>2, <2>1, RightElsewhere DEF IInv, SInv
  <2>9. Descends(d)'
    BY <1>1, <1>2, <2>1, DescendsKept DEF ByDistance
  <2> QED
    BY <1>1, <1>2, <2>1, <2>3, <2>5, <2>6, <2>7, <2>8, <2>9 DEF FullInv, ByDistance
<1>4. CASE queue = <<>> /\ NotFound /\ Q!Close
  <2>1. /\ pc = "loop" /\ pc' = "done" /\ outcome' = "NOT_FOUND"
        /\ UNCHANGED <<maze, start_index, finish_index, visitarray, array_index, lengte>>
    BY <1>4 DEF NotFound, Return, input, search, walk
  <2>2. maze[start_index] = VISITED /\ \A x \in Indices : maze[x] # TO_VISIT
    BY <1>2, <1>4, <2>1 DEF FullInv, NoLoss, InQueue, InHand, IInv, SInv, Posed
  <2>3. NotFoundIsRight'
    BY <1>2, <1>4, <2>2, NotFoundRight DEF IInv, FullInv
  <2>4. Ground' = Ground
    BY <2>1 DEF Ground, Walls
  <2>5. Descends(d)'
    BY <1>1, <2>1, DescendsKept DEF ByDistance
  <2> QED
    BY <1>1, <1>2, <2>1, <2>3, <2>4, <2>5, CoveringAfter, NoLossElsewhere,
       InOrderElsewhere DEF FullInv, ByDistance
<1> QED
  BY <1>3, <1>4 DEF TakeNext

\* What a round of the for loop leaves alone.
LEMMA ExaminedMaze ==
  ASSUME IInv, ExamineSkips \/ ExaminePushes
  PROVE  /\ pc = "examine" /\ pc' \in {"examine", "loop"}
         /\ UNCHANGED <<start_index, finish_index, current_index, array_index, lengte,
                        outcome>>
         /\ maze'[current_index] = VISITED
         /\ \A x \in Indices \ {current_index} :
               maze'[x] = maze[x] \/ (x = new_index /\ ExaminePushes)
         /\ maze[new_index] = VISITED => ~ExaminePushes
         /\ Ground' = Ground
<1>1. /\ pc = "examine" /\ pc' \in {"examine", "loop"}
      /\ UNCHANGED <<start_index, finish_index, current_index, array_index, lengte,
                     outcome>>
  BY DEF ExamineSkips, ExaminePushes, NextDirection, input, walk
<1>2. /\ maze \in [Indices -> Marks] /\ current_index \in Indices /\ SInv
      /\ new_index \in Indices /\ new_index # current_index
      /\ current_index \in Pushed
  BY <1>1, Examining DEF IInv
<1>3. CASE ExamineSkips
  <2>1. maze' = [maze EXCEPT ![current_index] = VISITED]
    BY <1>3 DEF ExamineSkips
  <2>2. ~ExaminePushes
    BY <1>3 DEF ExamineSkips, ExaminePushes
  <2>3. Ground' = Ground
    BY <1>1, <1>2, <2>1, GroundKept, MazeAssumption
  <2> QED
    BY <1>1, <1>2, <2>1, <2>2, <2>3
<1>4. CASE ExaminePushes
  <2>1. /\ maze' = [maze EXCEPT ![current_index] = VISITED, ![new_index] = TO_VISIT]
        /\ maze[new_index] \notin {WALL, VISITED}
    BY <1>4 DEF ExaminePushes, pushed_mark, Fresh
  <2>2. Ground' = Ground
    BY <1>1, <1>2, <2>1, MazeAssumption DEF Ground, Walls, SInv, VisitTree, Pushed, Move,
       Tree
  <2> QED
    BY <1>1, <1>2, <1>4, <2>1, <2>2
<1> QED
  BY <1>3, <1>4

LEMMA FullExamine == ASSUME FullInv, Examine, ~Refused PROVE FullInv'
<1>1. PICK d : ByDistance(d)
  BY DEF FullInv
<1>2. IInv /\ IInv'
  BY ExamineKeeps DEF FullInv
<1>3. ~ExamineFails
  BY <1>2, ExamineFailsInv DEF IInv
<1>4. ExamineSkips \/ ExaminePushes
  BY <1>3 DEF Examine
<1>5. /\ pc = "examine" /\ pc' \in {"examine", "loop"}
      /\ UNCHANGED <<start_index, finish_index, current_index, array_index, lengte,
                     outcome>>
      /\ maze'[current_index] = VISITED
      /\ \A x \in Indices \ {current_index} :
            maze'[x] = maze[x] \/ (x = new_index /\ ExaminePushes)
      /\ maze[new_index] = VISITED => ~ExaminePushes
      /\ Ground' = Ground
  BY <1>2, <1>4, ExaminedMaze
<1>6. Covering'
  BY <1>2, <1>4, CoveringExamines DEF FullInv, IInv
<1>7. NotFoundIsRight'
  BY <1>2, <1>5, RightElsewhere DEF IInv, SInv
<1>8. Distances(d, Ground, start_index)'
  BY <1>1, <1>5 DEF ByDistance
<1>9. SUFFICES ASSUME \A y : InQueue(y) \/ (y = new_index /\ ExaminePushes)
                                => InQueue(y)',
                      InOrder(d)', Descends(d)'
               PROVE  FullInv'
  <2>1. CASE ExamineSkips /\ UNCHANGED queueVars
    <3>1. UNCHANGED <<queue, visitarray>> /\ ~ExaminePushes
      BY <2>1 DEF queueVars, ExamineSkips, ExaminePushes
    <3>2. \A y : InQueue(y) \/ (y = new_index /\ ExaminePushes) => InQueue(y)'
      BY <3>1 DEF InQueue
    <3>3. InOrder(d)'
      BY <1>1, <1>5, <3>1 DEF ByDistance, InOrder
    <3>4. Descends(d)'
      BY <1>1, <1>2, <1>5, <3>1, DescendsKept DEF ByDistance
    <3> QED
      BY <1>9, <3>2, <3>3, <3>4
  <2>2. CASE ExaminePushes /\ Q!Push(new_index)
    <3>1. /\ new_index \in Indices /\ current_index \in Indices
          /\ Pushed' = Pushed \cup {new_index}
          /\ visitarray' = [visitarray EXCEPT ![new_index] = current_index]
          /\ visitarray \in [Indices -> Indices \cup {UNINIT}]
      BY <1>2, <1>5, <2>2, PushedGrows, Examining
      DEF IInv, ExaminePushes, SInv, SearchTypeOK
    <3>2. Len(queue) < capacity
      <4>1. Len(queue) \in Nat /\ capacity \in Nat
        BY <1>2, LenProperties, SearchAssumption DEF IInv, Waiting
      <4> QED
        BY <2>2, <4>1 DEF Refused
    <3>3. /\ Len(queue) \in Nat
          /\ Len(queue') = Len(queue) + 1
          /\ \A k \in 1..Len(queue) : queue'[k] = queue[k]
          /\ queue'[Len(queue) + 1] = new_index
          /\ \A y : InQueue(y) \/ y = new_index => InQueue(y)'
      BY <1>2, <2>2, <3>1, <3>2, TakenPush DEF IInv
    <3>4. PICK c \in Nat : d[current_index] = c /\ d[new_index] = c + 1
      BY <1>1, <1>2, <2>2, PushedIsNext DEF FullInv
    <3>5. InOrder(d)'
      <4>1. PICK n \in Nat : n = Len(queue)
        BY <3>3
      <4>2. \A j \in 1..n : d[queue[j]] \in Int /\ c <= d[queue[j]] /\ d[queue[j]] <= c + 1
        <5>1. \A j \in 1..n : queue[j] \in Pushed /\ queue[j] \in Indices
          BY <1>2, <4>1 DEF IInv, Waiting
        <5> QED
          BY <1>1, <1>5, <3>4, <4>1, <5>1 DEF ByDistance, InOrder, Distances
      <4>3. \A j, k \in 1..n :
               j <= k => d[queue[j]] <= d[queue[k]] /\ d[queue[k]] <= d[queue[j]] + 1
        BY <1>1, <1>5, <4>1 DEF ByDistance, InOrder
      <4>4. \A j \in 1..(n + 1) :
               \/ j \in 1..n /\ queue'[j] = queue[j]
               \/ j = n + 1 /\ queue'[j] = new_index
        BY <3>3, <4>1
      <4>5. \A j \in 1..(n + 1) :
               /\ d[queue'[j]] \in Int
               /\ c <= d[queue'[j]] /\ d[queue'[j]] <= c + 1
               /\ j = n + 1 => d[queue'[j]] = c + 1
        BY <3>4, <4>2, <4>4
      <4>6. \A j, k \in 1..(n + 1) :
               j <= k => /\ d[queue'[j]] <= d[queue'[k]]
                         /\ d[queue'[k]] <= d[queue'[j]] + 1
        <5> SUFFICES ASSUME NEW j \in 1..(n + 1), NEW k \in 1..(n + 1), j <= k
                     PROVE  /\ d[queue'[j]] <= d[queue'[k]]
                            /\ d[queue'[k]] <= d[queue'[j]] + 1
          OBVIOUS
        <5>1. CASE k = n + 1
          BY <4>5, <5>1
        <5>2. CASE k # n + 1
          <6>1. j \in 1..n /\ k \in 1..n
            BY <5>2
          <6>2. queue'[j] = queue[j] /\ queue'[k] = queue[k]
            BY <3>3, <4>1, <6>1
          <6> QED
            BY <4>3, <6>1, <6>2
        <5> QED
          BY <5>1, <5>2
      <4> QED
        BY <1>5, <3>3, <3>4, <4>1, <4>5, <4>6 DEF InOrder
    <3>6. Descends(d)'
      <4>1. \A x \in Pushed' : d[x] >= 0
        BY <1>1, <3>1, <3>4 DEF ByDistance, Descends
      <4>2. \A x \in Tree' : d[visitarray'[x]] = d[x] - 1
        <5> SUFFICES ASSUME NEW x \in Tree' PROVE d[visitarray'[x]] = d[x] - 1
          OBVIOUS
        <5>1. CASE x = new_index
          BY <3>1, <3>4, <5>1
        <5>2. CASE x # new_index
          <6>1. x \in Tree /\ visitarray'[x] = visitarray[x]
            BY <3>1, <5>2 DEF Tree
          <6> QED
            BY <1>1, <6>1 DEF ByDistance, Descends
        <5> QED
          BY <5>1, <5>2
      <4>3. outcome' # "length"
        BY <1>2, <1>5 DEF IInv, SInv
      <4> QED
        BY <1>5, <4>1, <4>2, <4>3 DEF Descends
    <3> QED
      BY <1>9, <3>3, <3>5, <3>6
  <2> QED
    BY <1>3, <2>1, <2>2 DEF Examine
<1>10. NoLoss'
  <2>1. /\ maze \in [Indices -> Marks] /\ start_index \in Indices
        /\ current_index \in Indices
    BY <1>2, <1>5, Examining DEF IInv, SInv, Posed
  <2>2. \A x \in Indices : maze'[x] = TO_VISIT => InQueue(x)'
    BY <1>5, <1>9, <2>1, MazeAssumption DEF FullInv, NoLoss, InHand
  <2>3. maze'[start_index] = VISITED \/ InQueue(start_index)'
    BY <1>5, <1>9, <2>1 DEF FullInv, NoLoss, InHand
  <2> QED
    BY <1>5, <2>2, <2>3 DEF NoLoss
<1> QED
  BY <1>2, <1>6, <1>7, <1>8, <1>9, <1>10 DEF FullInv, ByDistance

\* backtrack goes one move nearer to the start with each position it counts.
LEMMA FullBacktrack == ASSUME FullInv, Backtrack PROVE FullInv'
<1>1. PICK d : ByDistance(d)
  BY DEF FullInv
<1>2. IInv /\ IInv' /\ SInv /\ SInv'
  BY BacktrackKeeps DEF FullInv, IInv
<1>3. /\ pc \in {"found", "backtrack"} /\ pc' \in {"backtrack", "done"}
      /\ UNCHANGED <<start_index, finish_index, visitarray>>
      /\ outcome' # "NOT_FOUND"
  BY <1>2 DEF Backtrack, BacktrackStart, BacktrackStep, BacktrackEnd, AssertionFails,
     Return, input, search, IInv, SInv
<1>4. /\ finish_index \in Indices /\ start_index \in Indices
      /\ dest_index = finish_index
  BY <1>2, IndexToRowCol DEF SInv, Posed, dest_index
<1>5. Pushed' = Pushed /\ Tree' = Tree
  BY <1>3 DEF Pushed, Tree
<1>6. \A x \in Tree : d[visitarray[x]] = d[x] - 1
  BY <1>1 DEF ByDistance, Descends
<1>7. d \in [Indices -> Nat \cup {-1}] /\ d[start_index] = 0
  BY <1>1, <1>4 DEF ByDistance, Distances
<1>8. SUFFICES ASSUME Ground' = Ground, Descends(d)' PROVE FullInv'
  <2>1. CASE BacktrackStart
    <3>1. /\ pc = "found" /\ pc' = "backtrack" /\ lengte' = 1
          /\ array_index' \in Read(finish_index)
          /\ maze' = [maze EXCEPT ![finish_index] = PATH]
          /\ outcome' = outcome
      BY <1>4, <2>1 DEF BacktrackStart, start_length
    <3>2. finish_index \in Tree
      BY <1>2, <3>1 DEF SInv, Searching
    <3>3. array_index' = visitarray[finish_index]
      BY <1>2, <3>1, <3>2, ReadTree
    <3>4. lengte' + d[array_index'] = d[finish_index]
      BY <1>4, <1>6, <1>7, <3>1, <3>2, <3>3
    <3>5. Ground' = Ground
      BY <1>2, <1>3, <3>1, <3>2, GroundKept, MazeAssumption DEF Pushed, SInv, SearchTypeOK
    <3>6. Descends(d)'
      BY <1>1, <1>2, <1>3, <1>5, <3>1, <3>4 DEF ByDistance, Descends, SInv
    <3> QED
      BY <1>8, <3>5, <3>6
  <2>2. CASE BacktrackStep
    <3>1. pc = "backtrack" /\ Chain /\ lengte \in Nat
      BY <1>2, <2>2 DEF SInv, BacktrackStep, SearchTypeOK
    <3>2. array_index \in Indices /\ array_index \in Pushed
      BY <1>2, <3>1, PushedInside DEF Chain
    <3>3. round_trip(array_index) = array_index
      BY <3>2, IndexToRowCol
    <3>4. /\ array_index # start_index
          /\ maze' = [maze EXCEPT ![array_index] = PATH]
          /\ array_index' \in Read(array_index)
          /\ lengte' = lengte + 1
          /\ UNCHANGED <<pc, outcome>>
      BY <1>2, <2>2, <3>3 DEF BacktrackStep, AssertionFails, Return, SInv
    <3>5. array_index \in Tree
      BY <3>2, <3>4 DEF Pushed
    <3>6. array_index' = visitarray[array_index]
      BY <1>2, <3>4, <3>5, ReadTree
    <3>7. lengte + d[array_index] = d[finish_index]
      BY <1>1, <3>1 DEF ByDistance, Descends
    <3>8. d[array_index'] = d[array_index] - 1
      BY <1>6, <3>5, <3>6
    <3>9. lengte' + d[array_index'] = d[finish_index]
      BY <1>7, <3>1, <3>2, <3>4, <3>7, <3>8
    <3>10. Ground' = Ground
      BY <1>2, <1>3, <3>2, <3>4, GroundKept, MazeAssumption DEF SInv, SearchTypeOK
    <3>11. Descends(d)'
      BY <1>1, <1>2, <1>3, <1>5, <3>1, <3>4, <3>9 DEF ByDistance, Descends, SInv
    <3> QED
      BY <1>8, <3>10, <3>11
  <2>3. CASE BacktrackEnd
    <3>1. /\ pc = "backtrack" /\ pc' = "done" /\ outcome' = "length"
          /\ UNCHANGED <<maze, array_index, lengte>>
          /\ round_trip(array_index) = start_index
      BY <2>3 DEF BacktrackEnd, Return, walk
    <3>2. array_index = start_index /\ lengte \in Nat
      BY <1>2, <3>1, PushedInside, IndexToRowCol DEF SInv, Chain, SearchTypeOK
    <3>3. lengte = d[finish_index]
      BY <1>1, <1>4, <1>7, <3>1, <3>2 DEF ByDistance, Descends
    <3>4. Ground' = Ground
      BY <1>3, <3>1 DEF Ground, Walls
    <3>5. Descends(d)'
      BY <1>1, <1>3, <1>5, <3>1, <3>3 DEF ByDistance, Descends
    <3> QED
      BY <1>8, <3>4, <3>5
  <2> QED
    BY <2>1, <2>2, <2>3 DEF Backtrack
<1> QED
  BY <1>1, <1>2, <1>3, <1>8, RightElsewhere, CoveringAfter, NoLossElsewhere,
     InOrderElsewhere DEF FullInv, ByDistance

LEMMA FullStutter == ASSUME FullInv, UNCHANGED vars PROVE FullInv'
<1>1. PICK d : ByDistance(d)
  BY DEF FullInv
<1>2. IInv /\ IInv' /\ UNCHANGED searchVars
  BY StutterKeeps DEF FullInv, vars
<1>3. UNCHANGED <<pc, maze, start_index, finish_index, visitarray, current_index, i,
                  array_index, lengte, outcome, queue>>
  BY DEF vars, searchVars, input, search, walk, queueVars
<1>4. Covering' /\ Descends(d)' /\ Ground' = Ground
  BY <1>1, <1>2, <1>3, CoveringKept, DescendsKept
  DEF FullInv, ByDistance, Ground, Walls
<1>5. NoLoss' /\ InOrder(d)'
  BY <1>1, <1>3 DEF FullInv, NoLoss, InQueue, InHand, ByDistance, InOrder
<1>6. NotFoundIsRight'
  <2>1. Walls' = Walls
    BY <1>3 DEF Walls
  <2> QED
    BY <1>3, <2>1 DEF FullInv, NotFoundIsRight
<1> QED
  BY <1>1, <1>2, <1>3, <1>4, <1>5, <1>6 DEF FullInv, ByDistance

\* As long as the queue takes every push, the length returned is that of a
\* shortest path and NOT_FOUND is answered only when no sequence of moves leads
\* to the destination.  It rests on the colours of the grid: the entry of a
\* waiting position is overwritten whenever it is pushed again, and that is
\* harmless only because it is never pushed from a position as far as itself.
THEOREM ShortestUnlessRefused ==
  ASSUME AllWellPosed
  PROVE  Spec /\ [][~Refused]_vars => [](LengthIsShortest /\ NotFoundIsRight)
<1>1. Init => FullInv
  BY FullInit
<1>2. FullInv /\ [Next]_vars /\ [~Refused]_vars => FullInv'
  BY FullBegin, FullTakeNext, FullExamine, FullBacktrack, FullStutter DEF Next
<1>3. FullInv => LengthIsShortest /\ NotFoundIsRight
  <2> SUFFICES ASSUME FullInv, outcome = "length"
               PROVE  AtDistance(Walls \ {start_index}, start_index, finish_index, lengte)
    BY DEF FullInv, LengthIsShortest
  <2>1. PICK d : ByDistance(d)
    BY DEF FullInv
  <2>2. finish_index \in Indices /\ lengte \in Nat /\ lengte = d[finish_index]
    BY <2>1 DEF FullInv, IInv, SInv, Posed, SearchTypeOK, ByDistance, Descends
  <2>3. AtDistance(Ground, start_index, finish_index, lengte)
    BY <2>1, <2>2 DEF ByDistance, Distances
  <2> QED
    BY <2>3 DEF Ground
<1> QED
  BY <1>1, <1>2, <1>3, PTL DEF Spec

-----------------------------------------------------------------------------
(* The ring buffer of queue.c, for every set of items, every set of          *)
(* capacities and every word size.  Either its counters do not wrap (2^64    *)
(* pushes are out of a caller's reach), or the capacities divide their       *)
(* range, so that the slot after the last count is that of count 0.          *)

NoWrap == MAX_PUSHES < WORD

SlotsGoOn == NoWrap \/ \A c \in Capacities \ {0} : WORD % c = 0

\* The inductive invariant: the handle, the heap and the capacity agree, the
\* counters are at most a capacity apart, in order until they wrap, and every
\* slot between them was written.
Handle ==
    /\ HeapMatchesHandle
    /\ is_null <=> queue_capacity = 0
    /\ is_null => push_count = 0 /\ max_elements = 0

Counters ==
    /\ NoWrap => pop_count <= push_count /\ push_count <= MAX_PUSHES
    /\ live_size <= max_elements
    /\ max_elements <= queue_capacity

Written ==
    \A j \in 0..(live_size - 1) :
        queue_data[(pop_count + j) % queue_capacity] \in Item

QueueInv == QueueTypeOK /\ Handle /\ Counters /\ Written

-----------------------------------------------------------------------------
(* Arithmetic of the slots *)

\* Quotient and remainder of a counter by the capacity.
LEMMA DivMod ==
  ASSUME NEW c \in Nat \ {0}, NEW x \in Nat
  PROVE  /\ x \div c \in Nat
         /\ x % c \in 0..(c - 1)
         /\ x = c * (x \div c) + (x % c)
  BY SMT

\* Two counts less than a capacity apart use different slots.
LEMMA SlotsDiffer ==
  ASSUME NEW c \in Nat \ {0}, NEW x \in Nat, NEW y \in Nat,
         x < y, y < x + c
  PROVE  x % c # y % c
<1>1. SUFFICES ASSUME x % c = y % c
               PROVE  FALSE
  OBVIOUS
<1> DEFINE p == x \div c
           q == y \div c
           r == x % c
<1>2. p \in Nat /\ r \in Nat /\ x = c * p + r
  BY DivMod
<1>3. q \in Nat /\ y = c * q + r
  BY <1>1, DivMod
<1> HIDE DEF p, q, r
<1>4. c * p < c * q /\ c * q < c * p + c
  BY <1>2, <1>3
<1>5. p < q
  BY <1>2, <1>3, <1>4
<1>6. c * q >= c * (p + 1)
  BY <1>2, <1>3, <1>5
<1>7. c * (p + 1) = c * p + c
  BY <1>2
<1> QED
  BY <1>2, <1>3, <1>4, <1>6, <1>7

\* Adding a multiple of the capacity changes no slot.
LEMMA MultipleAdded ==
  ASSUME NEW c \in Nat \ {0}, NEW m \in Nat, NEW y \in Nat
  PROVE  (c * m + y) % c = y % c
<1> DEFINE x == c * m + y
           p == x \div c
           q == y \div c
           r == x % c
           t == y % c
<1>1. c * m \in Nat /\ x \in Nat
  OBVIOUS
<1>2. p \in Nat /\ r \in 0..(c - 1) /\ x = c * p + r
  BY <1>1, DivMod
<1>3. q \in Nat /\ t \in 0..(c - 1) /\ y = c * q + t
  BY DivMod
<1>4. x = c * m + y
  OBVIOUS
<1> HIDE DEF p, q, r, t, x
<1>5. c * (m + q) = c * m + c * q /\ m + q \in Nat
  BY <1>3
<1>6. c * p + r = c * (m + q) + t
  BY <1>1, <1>2, <1>3, <1>4, <1>5
<1> DEFINE k == m + q
<1> HIDE DEF k
<1>7. k \in Nat /\ c * p + r = c * k + t
  BY <1>5, <1>6 DEF k
<1>8. \A a, b \in Nat : a < b => c * b >= c * a + c
  <2> SUFFICES ASSUME NEW a \in Nat, NEW b \in Nat, a < b PROVE c * b >= c * a + c
    OBVIOUS
  <2>1. c * b >= c * (a + 1)
    OBVIOUS
  <2>2. c * (a + 1) = c * a + c
    OBVIOUS
  <2> QED
    BY <2>1, <2>2
<1>9. c * p \in Nat /\ c * k \in Nat
  BY <1>2, <1>7
<1>10. ~(p < k) /\ ~(k < p)
  BY <1>2, <1>3, <1>7, <1>8, <1>9
<1>11. p = k
  BY <1>2, <1>7, <1>10
<1>12. r = t
  BY <1>2, <1>3, <1>7, <1>9, <1>11
<1> QED
  BY <1>12 DEF r, t, x

\* The count after a, and the difference of two counts, modulo their range.
LEMMA NextCount ==
  ASSUME NEW w \in Nat \ {0}, NEW a \in 0..(w - 1)
  PROVE  (a + 1) % w = IF a = w - 1 THEN 0 ELSE a + 1
<1>1. CASE a = w - 1
  <2>1. w % w = 0
    BY SMT
  <2> QED
    BY <1>1, <2>1
<1>2. CASE a # w - 1
  BY <1>2
<1> QED
  BY <1>1, <1>2

LEMMA CountsApart ==
  ASSUME NEW w \in Nat \ {0}, NEW a \in 0..(w - 1), NEW b \in 0..(w - 1)
  PROVE  (a - b) % w = IF b <= a THEN a - b ELSE a - b + w
  BY SMT

\* queue_size is the difference of the counters, over the wrap or not.
LEMMA SizeIsDifference ==
  ASSUME QueueTypeOK
  PROVE  /\ live_size = IF pop_count <= push_count THEN push_count - pop_count
                        ELSE push_count - pop_count + WORD
         /\ live_size \in 0..(WORD - 1)
<1>1. /\ WORD \in Nat \ {0}
      /\ push_count \in 0..(WORD - 1) /\ pop_count \in 0..(WORD - 1)
  BY QueueAssumption DEF QueueTypeOK
<1> QED
  BY <1>1, CountsApart DEF live_size

\* Where the counters wrap, a range further is the same slot.
LEMMA WordSlot ==
  ASSUME SlotsGoOn, ~NoWrap, NEW c \in Capacities \ {0}, NEW y \in Nat
  PROVE  (WORD + y) % c = y % c
<1>1. c \in Nat \ {0} /\ WORD \in Nat /\ WORD % c = 0
  BY QueueAssumption DEF SlotsGoOn
<1>2. WORD \div c \in Nat /\ WORD = c * (WORD \div c) + 0
  BY <1>1, DivMod
<1> DEFINE m == WORD \div c
<1> HIDE DEF m
<1>3. m \in Nat /\ WORD = c * m
  BY <1>1, <1>2 DEF m
<1> QED
  BY <1>1, <1>3, MultipleAdded

\* The slots count on from that of pop_count; a push takes the first free one.
LEMMA PushSlot ==
  ASSUME SlotsGoOn, QueueInv, ~is_null
  PROVE  push_count % queue_capacity = (pop_count + live_size) % queue_capacity
<1>1. /\ push_count \in Nat /\ pop_count \in Nat /\ WORD \in Nat
      /\ queue_capacity \in Capacities \ {0}
  BY QueueAssumption DEF QueueInv, QueueTypeOK, Handle
<1>2. CASE pop_count <= push_count
  <2>1. pop_count + live_size = push_count
    BY <1>1, <1>2, SizeIsDifference DEF QueueInv
  <2> QED
    BY <2>1
<1>3. CASE ~(pop_count <= push_count)
  <2>1. pop_count + live_size = WORD + push_count
    BY <1>1, <1>3, SizeIsDifference DEF QueueInv
  <2>2. ~NoWrap
    BY <1>3 DEF QueueInv, Counters
  <2> QED
    BY <1>1, <2>1, <2>2, WordSlot
<1> QED
  BY <1>2, <1>3

LEMMA PopSlots ==
  ASSUME SlotsGoOn, QueueInv, ~is_null, live_size > 0, NEW j \in Nat
  PROVE  (((pop_count + 1) % WORD) + j) % queue_capacity
            = (pop_count + 1 + j) % queue_capacity
<1>1. /\ push_count \in 0..(WORD - 1) /\ pop_count \in 0..(WORD - 1)
      /\ WORD \in Nat \ {0} /\ queue_capacity \in Capacities \ {0}
  BY QueueAssumption DEF QueueInv, QueueTypeOK, Handle
<1>2. CASE pop_count # WORD - 1
  <2>1. (pop_count + 1) % WORD = pop_count + 1
    BY <1>1, <1>2, NextCount
  <2> QED
    BY <2>1
<1>3. CASE pop_count = WORD - 1
  <2>1. (pop_count + 1) % WORD = 0
    BY <1>1, <1>3, NextCount
  <2>2. pop_count + 1 + j = WORD + j /\ 0 + j = j
    BY <1>1, <1>3
  <2>3. ~NoWrap
    BY <1>1, <1>3, SizeIsDifference DEF QueueInv, Counters
  <2> QED
    BY <1>1, <2>1, <2>2, <2>3, WordSlot
<1> QED
  BY <1>2, <1>3

\* A data block just allocated holds nothing but JUNK.
LEMMA BlankType ==
  ASSUME NEW c \in Nat
  PROVE  Blank(c) \in [0..(c - 1) -> Item \cup {JUNK}]
  BY DEF Blank

-----------------------------------------------------------------------------
(* The invariant *)

\* Init establishes the invariant.
LEMMA QueueInitInv == ASSUME SlotsGoOn PROVE QueueInit => QueueInv
<1> SUFFICES ASSUME QueueInit PROVE QueueInv
  OBVIOUS
<1>1. QueueTypeOK
  BY QueueAssumption, BlankType DEF QueueInit, QueueTypeOK
<1>2. Handle
  BY DEF QueueInit, Handle, HeapMatchesHandle
<1>3. Counters /\ Written
  <2>1. live_size = 0
    BY QueueAssumption, SizeIsDifference, <1>1 DEF QueueInit
  <2> QED
    BY <2>1, QueueAssumption DEF QueueInit, Counters, Written
<1> QED
  BY <1>1, <1>2, <1>3 DEF QueueInv

\* A call that only answers keeps the invariant.
LEMMA QueueAnswerInv ==
  ASSUME QueueInv, UNCHANGED <<is_null, blocks, fields>>, returned' \in Int
  PROVE  QueueInv'
  BY DEF QueueInv, QueueTypeOK, Handle, HeapMatchesHandle, Counters, Written, fields,
         live_size

\* The slot about to be popped holds an item.
LEMMA FrontIsItem ==
  ASSUME QueueInv, ~is_null, live_size > 0
  PROVE  queue_data[pop_count % queue_capacity] \in Item
<1>1. live_size \in Nat /\ pop_count \in Nat
  BY SizeIsDifference DEF QueueInv, QueueTypeOK
<1>2. 0 \in 0..(live_size - 1) /\ pop_count + 0 = pop_count
  BY <1>1
<1> QED
  BY <1>2 DEF QueueInv, Written

\* A push into a queue that is not full leaves one item more.
LEMMA PushSize ==
  ASSUME QueueInv, live_size # queue_capacity,
         push_count' = (push_count + 1) % WORD, pop_count' = pop_count
  PROVE  live_size' = live_size + 1
<1>1. /\ pop_count \in 0..(WORD - 1) /\ push_count \in 0..(WORD - 1)
      /\ WORD \in Nat \ {0} /\ queue_capacity \in Nat /\ queue_capacity < WORD
      /\ live_size <= queue_capacity /\ live_size \in Nat
  BY QueueAssumption, SizeIsDifference DEF QueueInv, QueueTypeOK, Counters
<1>2. push_count' = IF push_count = WORD - 1 THEN 0 ELSE push_count + 1
  BY <1>1, NextCount
<1>3. live_size = IF pop_count <= push_count THEN push_count - pop_count
                  ELSE push_count - pop_count + WORD
  BY SizeIsDifference DEF QueueInv
<1>4. push_count' \in 0..(WORD - 1)
  BY <1>1, <1>2
<1>5. live_size' = IF pop_count <= push_count' THEN push_count' - pop_count
                   ELSE push_count' - pop_count + WORD
  BY <1>1, <1>4, CountsApart DEF live_size
<1> QED
  BY <1>1, <1>2, <1>3, <1>5

\* A pop leaves one item less.
LEMMA PopSize ==
  ASSUME QueueInv, live_size > 0, pop_count' = (pop_count + 1) % WORD,
         push_count' = push_count
  PROVE  live_size' = live_size - 1
<1>1. /\ pop_count \in 0..(WORD - 1) /\ push_count \in 0..(WORD - 1)
      /\ WORD \in Nat \ {0}
  BY QueueAssumption DEF QueueInv, QueueTypeOK
<1>2. pop_count' = IF pop_count = WORD - 1 THEN 0 ELSE pop_count + 1
  BY <1>1, NextCount
<1>3. live_size = IF pop_count <= push_count THEN push_count - pop_count
                  ELSE push_count - pop_count + WORD
  BY SizeIsDifference DEF QueueInv
<1>4. pop_count' \in 0..(WORD - 1)
  BY <1>1, <1>2
<1>5. live_size' = IF pop_count' <= push_count THEN push_count - pop_count'
                   ELSE push_count - pop_count' + WORD
  BY <1>1, <1>4, CountsApart DEF live_size
<1> QED
  BY <1>1, <1>2, <1>3, <1>5

\* Counters that are reset hold nothing.
LEMMA NoneLive ==
  ASSUME push_count' = 0, pop_count' = 0
  PROVE  live_size' = 0
  BY QueueAssumption DEF live_size

\* Every step keeps the invariant.
LEMMA QueueNextInv == ASSUME SlotsGoOn PROVE QueueInv /\ [QueueNext]_queue_vars => QueueInv'
<1> SUFFICES ASSUME QueueInv, [QueueNext]_queue_vars PROVE QueueInv'
  OBVIOUS
<1> USE QueueAssumption
<1>0. live_size \in Nat
  BY SizeIsDifference DEF QueueInv
<1>1. ASSUME UNCHANGED queue_vars PROVE QueueInv'
  BY <1>1, QueueAnswerInv DEF queue_vars, QueueInv, QueueTypeOK
<1>2. ASSUME NEW c \in Capacities, queue_init(c) PROVE QueueInv'
  <2>1. CASE UNCHANGED queue_vars
    BY <2>1, <1>1
  <2>2. CASE /\ blocks' = (blocks \cup {"struct"}) \ {"struct"}
             /\ UNCHANGED <<is_null, fields, returned>>
    <3>1. is_null /\ blocks = {}
      BY <1>2 DEF queue_init, QueueInv, Handle, HeapMatchesHandle
    <3>2. blocks' = blocks
      BY <2>2, <3>1
    <3> QED
      BY <2>2, <3>2, QueueAnswerInv DEF QueueInv, QueueTypeOK
  <2>3. CASE /\ c > 0
             /\ is_null' = FALSE
             /\ blocks' = blocks \cup {"struct", "data"}
             /\ queue_data' = Blank(c)
             /\ queue_capacity' = c
             /\ max_elements' = 0
             /\ pop_count' = 0
             /\ push_count' = 0
             /\ UNCHANGED returned
    <3>1. QueueTypeOK'
      <4>1. queue_data' \in [0..(queue_capacity' - 1) -> Item \cup {JUNK}]
        BY <2>3, BlankType
      <4>2. is_null' \in BOOLEAN
        BY <2>3
      <4>3. blocks' \subseteq {"struct", "data"}
        BY <2>3 DEF QueueInv, QueueTypeOK
      <4> QED
        BY <2>3, <4>1, <4>2, <4>3 DEF QueueInv, QueueTypeOK
    <3>2. Handle'
      BY <2>3 DEF QueueInv, QueueTypeOK, Handle, HeapMatchesHandle
    <3>3. Counters' /\ Written'
      <4>1. live_size' = 0
        BY <2>3, <3>1, NoneLive
      <4> QED
        BY <2>3, <4>1 DEF Counters, Written
    <3> QED
      BY <3>1, <3>2, <3>3 DEF QueueInv
  <2> QED
    BY <1>2, <2>1, <2>2, <2>3 DEF queue_init
<1>3. ASSUME queue_cleanup PROVE QueueInv'
  <2>1. CASE UNCHANGED queue_vars
    BY <2>1, <1>1
  <2>2. CASE ~is_null /\ ~UNCHANGED queue_vars
    <3>1. QueueTypeOK'
      <4>1. /\ blocks' = blocks \ {"struct", "data"}
            /\ is_null' = TRUE
            /\ queue_data' = Blank(0)
            /\ queue_capacity' = 0
            /\ push_count' = 0
            /\ pop_count' = 0
            /\ max_elements' = 0
            /\ returned' = returned
        BY <1>3, <2>2 DEF queue_cleanup
      <4>2. queue_data' \in [0..(queue_capacity' - 1) -> Item \cup {JUNK}]
        BY <4>1, BlankType
      <4> QED
        BY <4>1, <4>2 DEF QueueInv, QueueTypeOK
    <3>2. Handle'
      BY <1>3, <2>2 DEF queue_cleanup, QueueInv, QueueTypeOK, Handle, HeapMatchesHandle
    <3>3. Counters' /\ Written'
      <4>1. push_count' = 0 /\ pop_count' = 0 /\ max_elements' = 0 /\ queue_capacity' = 0
        BY <1>3, <2>2 DEF queue_cleanup
      <4>2. live_size' = 0
        BY <3>1, <4>1, NoneLive
      <4> QED
        BY <4>1, <4>2 DEF Counters, Written
    <3> QED
      BY <3>1, <3>2, <3>3 DEF QueueInv
  <2> QED
    BY <1>3, <2>1, <2>2 DEF queue_cleanup
<1>4. ASSUME queue_size PROVE QueueInv'
  BY <1>0, <1>4, QueueAnswerInv DEF queue_size
<1>5. ASSUME NEW e \in Item, queue_push(e) PROVE QueueInv'
  <2>1. CASE returned' = 1 /\ UNCHANGED <<is_null, blocks, fields>>
    BY <2>1, QueueAnswerInv
  <2>2. CASE ~(returned' = 1 /\ UNCHANGED <<is_null, blocks, fields>>)
    <3> DEFINE slot == push_count % queue_capacity
    <3>1. /\ ~is_null
          /\ queue_capacity # live_size
          /\ push_count < MAX_PUSHES
          /\ queue_data' = [queue_data EXCEPT ![slot] = e]
          /\ push_count' = (push_count + 1) % WORD
          /\ UNCHANGED <<is_null, blocks, queue_capacity, pop_count>>
          /\ max_elements' = IF live_size' > max_elements
                             THEN live_size' ELSE max_elements
          /\ returned' = 0
      BY <1>5, <2>2 DEF queue_push, push_slot
    <3>2. /\ queue_capacity \in Nat \ {0} /\ queue_capacity < WORD
          /\ push_count \in 0..(WORD - 1) /\ pop_count \in 0..(WORD - 1)
          /\ max_elements \in Nat
          /\ live_size <= max_elements
          /\ max_elements <= queue_capacity
      BY <3>1 DEF QueueInv, QueueTypeOK, Handle, Counters
    <3>3. push_count' = IF push_count = WORD - 1 THEN 0 ELSE push_count + 1
      BY <3>1, <3>2, NextCount
    <3>4. live_size < queue_capacity
      BY <1>0, <3>1, <3>2
    <3>5. slot \in 0..(queue_capacity - 1)
      BY <3>2, DivMod
    <3>6. live_size' = live_size + 1
      BY <3>1, PushSize
    <3>7. /\ max_elements' \in Nat
          /\ live_size' <= max_elements'
          /\ max_elements' <= queue_capacity
      BY <1>0, <3>1, <3>2, <3>4, <3>6
    <3>8. QueueTypeOK'
      <4>1. queue_data' \in [0..(queue_capacity' - 1) -> Item \cup {JUNK}]
        BY <3>1, <3>5 DEF QueueInv, QueueTypeOK
      <4>2. push_count' \in 0..(WORD - 1)
        BY <3>2, <3>3
      <4>3. max_elements' \in 0..(WORD - 1)
        BY <3>2, <3>7 DEF QueueInv, QueueTypeOK
      <4> QED
        BY <3>1, <4>1, <4>2, <4>3 DEF QueueInv, QueueTypeOK
    <3>9. Handle'
      BY <3>1 DEF QueueInv, Handle, HeapMatchesHandle
    <3>10. Counters'
      <4>1. NoWrap => pop_count' <= push_count' /\ push_count' <= MAX_PUSHES
        BY <3>1, <3>2, <3>3 DEF NoWrap, QueueInv, Counters
      <4> QED
        BY <3>1, <3>7, <4>1 DEF Counters
    <3>11. Written'
      <4>0. /\ live_size' - 1 = live_size /\ pop_count' = pop_count
            /\ queue_capacity' = queue_capacity
        BY <1>0, <3>1, <3>6
      <4> SUFFICES ASSUME NEW j \in 0..live_size
                   PROVE  queue_data'[(pop_count + j) % queue_capacity] \in Item
        BY <4>0 DEF Written
      <4> DEFINE n == pop_count + j
      <4>1. CASE j = live_size
        <5>1. n % queue_capacity = slot
          BY <3>1, <4>1, PushSlot
        <5> QED
          BY <3>1, <3>5, <5>1 DEF QueueInv, QueueTypeOK
      <4>2. CASE j # live_size
        <5> DEFINE m == pop_count + live_size
        <5>1. n \in Nat /\ m \in Nat /\ n < m /\ m < n + queue_capacity
          BY <1>0, <3>2, <3>4, <4>2
        <5>2. m % queue_capacity = slot
          BY <3>1, PushSlot
        <5>3. queue_data[n % queue_capacity] \in Item
          <6>1. j \in 0..(live_size - 1)
            BY <1>0, <4>2
          <6> QED
            BY <6>1 DEF QueueInv, Written
        <5> HIDE DEF n, m
        <5>4. n % queue_capacity # slot
          BY <3>2, <5>1, <5>2, SlotsDiffer
        <5>5. n % queue_capacity \in 0..(queue_capacity - 1)
          BY <3>2, <5>1, DivMod
        <5>6. queue_data'[n % queue_capacity] \in Item
          BY <3>1, <5>3, <5>4, <5>5 DEF QueueInv, QueueTypeOK
        <5> QED
          BY <5>6 DEF n
      <4> QED
        BY <4>1, <4>2
    <3> QED
      BY <3>8, <3>9, <3>10, <3>11 DEF QueueInv
  <2> QED
    BY <2>1, <2>2
<1>6. ASSUME queue_pop PROVE QueueInv'
  <2>1. CASE returned' = -1 /\ UNCHANGED <<is_null, blocks, fields>>
    BY <2>1, QueueAnswerInv
  <2>2. CASE ~(returned' = -1 /\ UNCHANGED <<is_null, blocks, fields>>)
    <3>1. /\ ~is_null
          /\ live_size > 0
          /\ returned' = queue_data[pop_count % queue_capacity]
          /\ pop_count' = (pop_count + 1) % WORD
          /\ UNCHANGED <<is_null, blocks, queue_data, queue_capacity, push_count,
                         max_elements>>
      BY <1>6, <2>2 DEF queue_pop
    <3>2. returned' \in Int
      BY <3>1, FrontIsItem
    <3>3. /\ pop_count \in 0..(WORD - 1) /\ push_count \in 0..(WORD - 1)
          /\ queue_capacity \in Nat \ {0}
      BY <3>1 DEF QueueInv, QueueTypeOK, Handle
    <3>4. pop_count' = IF pop_count = WORD - 1 THEN 0 ELSE pop_count + 1
      BY <3>1, <3>3, NextCount
    <3>5. QueueTypeOK'
      BY <3>1, <3>2, <3>3, <3>4 DEF QueueInv, QueueTypeOK
    <3>6. Handle'
      BY <3>1 DEF QueueInv, Handle, HeapMatchesHandle
    <3>7. live_size' = live_size - 1
      BY <3>1, PopSize
    <3>8. Counters'
      <4>1. NoWrap => pop_count' <= push_count' /\ push_count' <= MAX_PUSHES
        <5>1. live_size = IF pop_count <= push_count THEN push_count - pop_count
                          ELSE push_count - pop_count + WORD
          BY SizeIsDifference DEF QueueInv
        <5> QED
          BY <3>1, <3>3, <3>4, <5>1 DEF QueueInv, Counters
      <4> QED
        BY <1>0, <3>1, <3>7, <4>1 DEF QueueInv, QueueTypeOK, Counters
    <3>9. Written'
      <4> SUFFICES ASSUME NEW j \in 0..(live_size - 1 - 1)
                   PROVE  queue_data[(pop_count' + j) % queue_capacity] \in Item
        BY <3>1, <3>7 DEF Written
      <4>1. j \in Nat /\ j + 1 \in 0..(live_size - 1) /\ pop_count + 1 + j = pop_count + (j + 1)
        BY <1>0, <3>3
      <4>2. (pop_count' + j) % queue_capacity = (pop_count + (j + 1)) % queue_capacity
        BY <3>1, <4>1, PopSlots
      <4> QED
        BY <4>1, <4>2 DEF QueueInv, Written
    <3> QED
      BY <3>5, <3>6, <3>8, <3>9 DEF QueueInv
  <2> QED
    BY <2>1, <2>2
<1>7. ASSUME queue_peek PROVE QueueInv'
  <2>1. UNCHANGED <<is_null, blocks, fields>>
    BY <1>7 DEF queue_peek
  <2>2. returned' \in Int
    <3>1. CASE is_null \/ live_size <= 0
      BY <1>0, <1>7, <3>1 DEF queue_peek
    <3>2. CASE ~is_null /\ live_size > 0
      <4>1. queue_data[pop_count % queue_capacity] \in Item
        BY <3>2, FrontIsItem
      <4>2. returned' = queue_data[pop_count % queue_capacity]
        BY <1>0, <1>7, <3>2 DEF queue_peek
      <4> QED
        BY <4>1, <4>2
    <3> QED
      BY <1>0, <3>1, <3>2
  <2> QED
    BY <2>1, <2>2, QueueAnswerInv
<1>8. ASSUME queue_empty PROVE QueueInv'
  BY <1>8, QueueAnswerInv DEF queue_empty
<1> QED
  BY <1>1, <1>2, <1>3, <1>4, <1>5, <1>6, <1>7, <1>8 DEF QueueNext

\* Type correctness: in particular no call returns anything but an int, so no
\* slot is read before it was written.
THEOREM QueueTyped == ASSUME SlotsGoOn PROVE QueueSpec => []QueueTypeOK
<1>1. QueueInv => QueueTypeOK
  BY DEF QueueInv
<1> QED
  BY <1>1, QueueInitInv, QueueNextInv, PTL DEF QueueSpec

\* The inductive invariant holds of every reachable state.
LEMMA QueueInvariance == ASSUME SlotsGoOn PROVE QueueSpec => []QueueInv
  BY QueueInitInv, QueueNextInv, PTL DEF QueueSpec

\* No allocation leaks, whichever malloc fails, for every run of calls.
THEOREM NoLeak == ASSUME SlotsGoOn PROVE QueueSpec => []HeapMatchesHandle
<1>1. QueueInv => HeapMatchesHandle
  BY DEF QueueInv, Handle
<1> QED
  BY <1>1, QueueInvariance, PTL

\* The queue never holds more than its capacity, and the peak it reports lies
\* between what it holds and its capacity.
THEOREM CapacityKept == ASSUME SlotsGoOn PROVE QueueSpec => []WithinCapacity
<1>1. QueueInv => WithinCapacity
  BY SizeIsDifference DEF QueueInv, Handle, Counters, WithinCapacity
<1> QED
  BY <1>1, QueueInvariance, PTL

-----------------------------------------------------------------------------
(* The refinement *)

\* The contents are a sequence of items, one per count between the counters.
ContentsMeaning ==
    /\ contents \in Seq(Item)
    /\ Len(contents) = live_size
    /\ \A k \in 1..live_size :
          contents[k] = queue_data[(pop_count + k - 1) % queue_capacity]

\* The invariant makes the contents what they are meant to be.
LEMMA Contents == QueueInv => ContentsMeaning
<1> SUFFICES ASSUME QueueInv PROVE ContentsMeaning
  OBVIOUS
<1> DEFINE n == live_size
<1>1. n \in Nat /\ pop_count \in Nat
  BY SizeIsDifference, QueueAssumption DEF QueueInv, QueueTypeOK
<1>2. \A k \in 1..n : queue_data[(pop_count + k - 1) % queue_capacity] \in Item
  <2> SUFFICES ASSUME NEW k \in 1..n
               PROVE  queue_data[(pop_count + k - 1) % queue_capacity] \in Item
    OBVIOUS
  <2>1. k - 1 \in 0..(n - 1) /\ pop_count + (k - 1) = pop_count + k - 1
    BY <1>1
  <2>2. queue_data[(pop_count + (k - 1)) % queue_capacity] \in Item
    BY <2>1 DEF QueueInv, Written
  <2> QED
    BY <2>1, <2>2
<1>3. contents = [k \in 1..n |->
                    queue_data[(pop_count + k - 1) % queue_capacity]]
  BY DEF contents
<1> HIDE DEF n
<1>4. contents \in [1..n -> Item]
  BY <1>2, <1>3
<1>5. contents \in Seq(Item) /\ Len(contents) = n
  BY <1>1, <1>4
<1> QED
  BY <1>1, <1>3, <1>5 DEF n, ContentsMeaning

\* A call that only answers leaves what the FIFO's caller sees unchanged.
LEMMA SameContents ==
  ASSUME UNCHANGED fields
  PROVE  /\ contents' = contents
         /\ UNCHANGED <<queue_capacity, max_elements>>
  BY DEF fields, contents, live_size

\* A push into a queue that is not full appends to the contents: the slot it
\* overwrites is none of those in use.
LEMMA PushAppends ==
  ASSUME SlotsGoOn, QueueInv, QueueInv', NEW e \in Item, queue_push(e),
         ~is_null, queue_capacity # live_size
  PROVE  /\ Len(contents) < queue_capacity
         /\ contents' = Append(contents, e)
         /\ max_elements' = Fifo!AtLeast(max_elements, Len(contents) + 1)
         /\ returned' = 0
         /\ queue_capacity' = queue_capacity
<1> DEFINE slot == push_count % queue_capacity
           n == live_size
<1>1. /\ push_count < MAX_PUSHES
      /\ queue_data' = [queue_data EXCEPT ![slot] = e]
      /\ push_count' = (push_count + 1) % WORD
      /\ UNCHANGED <<queue_capacity, pop_count>>
      /\ max_elements' = IF live_size' > max_elements
                         THEN live_size' ELSE max_elements
      /\ returned' = 0
  BY DEF queue_push, push_slot
<1>2. /\ queue_capacity \in Nat \ {0}
      /\ push_count \in Nat /\ pop_count \in Nat
      /\ n \in Nat
      /\ n <= queue_capacity
      /\ max_elements \in Nat
      /\ queue_data \in [0..(queue_capacity - 1) -> Item \cup {JUNK}]
  <2>1. QueueTypeOK /\ Handle /\ Counters
    BY DEF QueueInv
  <2>2. /\ queue_capacity \in Nat \ {0}
        /\ push_count \in Nat /\ pop_count \in Nat /\ max_elements \in Nat
        /\ queue_data \in [0..(queue_capacity - 1) -> Item \cup {JUNK}]
    BY <2>1, QueueAssumption DEF QueueTypeOK, Handle
  <2>3. n \in Nat /\ n <= max_elements /\ max_elements <= queue_capacity
    BY <2>1, SizeIsDifference DEF Counters
  <2> QED
    BY <2>2, <2>3
<1>3. live_size' = n + 1
  BY <1>1, PushSize
<1>4. /\ contents \in Seq(Item) /\ Len(contents) = n
      /\ \A k \in 1..n :
            contents[k] = queue_data[(pop_count + k - 1) % queue_capacity]
  BY Contents DEF ContentsMeaning
<1>5. n < queue_capacity
  BY <1>2
<1>6. /\ contents' \in Seq(Item)
      /\ Len(contents') = n + 1 /\ live_size' = n + 1
      /\ \A k \in 1..(n + 1) :
            contents'[k] = queue_data'[(pop_count + k - 1) % queue_capacity]
  <2>1. ContentsMeaning'
    BY Contents, PTL
  <2> QED
    BY <1>1, <1>3, <2>1 DEF ContentsMeaning
<1>11. slot = (pop_count + n) % queue_capacity
  BY PushSlot
<1> HIDE DEF n
<1>7. \A k \in 1..n : contents'[k] = contents[k]
  <2> SUFFICES ASSUME NEW k \in 1..n
               PROVE  contents'[k] = contents[k]
    OBVIOUS
  <2> DEFINE m == pop_count + k - 1
  <2>1. /\ m \in Nat /\ pop_count + n \in Nat
        /\ m < pop_count + n /\ pop_count + n < m + queue_capacity
    BY <1>2, <1>5
  <2>2. m % queue_capacity # slot
    BY <1>2, <1>11, <2>1, SlotsDiffer
  <2>3. m % queue_capacity \in 0..(queue_capacity - 1)
    BY <1>2, <2>1, DivMod
  <2>4. queue_data'[m % queue_capacity] = queue_data[m % queue_capacity]
    BY <1>1, <1>2, <2>2, <2>3
  <2>5. k \in 1..(n + 1)
    BY <1>2
  <2> QED
    BY <1>4, <1>6, <2>4, <2>5
<1>8. contents'[n + 1] = e
  <2>1. n + 1 \in 1..(n + 1) /\ pop_count + (n + 1) - 1 = pop_count + n
    BY <1>2
  <2>2. slot \in 0..(queue_capacity - 1)
    BY <1>2, DivMod
  <2>3. queue_data'[slot] = e
    BY <1>1, <1>2, <2>2
  <2> QED
    BY <1>6, <1>11, <2>1, <2>3
<1>9. contents' = Append(contents, e)
  <2>1. /\ Append(contents, e) \in Seq(Item)
        /\ Len(Append(contents, e)) = n + 1
        /\ \A k \in 1..n : Append(contents, e)[k] = contents[k]
        /\ Append(contents, e)[n + 1] = e
    BY <1>4, AppendProperties
  <2>2. \A k \in 1..(n + 1) : k \in 1..n \/ k = n + 1
    BY <1>2
  <2> QED
    BY <1>6, <1>7, <1>8, <2>1, <2>2, SeqEqual
<1>10. max_elements' = Fifo!AtLeast(max_elements, Len(contents) + 1)
  <2>1. live_size' = n + 1
    BY <1>6
  <2> QED
    BY <1>1, <1>2, <1>4, <2>1 DEF Fifo!AtLeast
<1> QED
  BY <1>1, <1>4, <1>5, <1>9, <1>10

\* A pop of the ring buffer takes the head of the contents.
LEMMA PopTakesHead ==
  ASSUME SlotsGoOn, QueueInv, QueueInv', queue_pop, ~is_null, live_size > 0
  PROVE  /\ contents # <<>>
         /\ returned' = Head(contents)
         /\ contents' = Tail(contents)
         /\ UNCHANGED <<queue_capacity, max_elements>>
<1> DEFINE n == live_size
<1>1. /\ returned' = queue_data[pop_count % queue_capacity]
      /\ pop_count' = (pop_count + 1) % WORD
      /\ UNCHANGED <<queue_data, queue_capacity, push_count, max_elements>>
  BY SizeIsDifference DEF queue_pop, QueueInv
<1>2. /\ contents \in Seq(Item) /\ Len(contents) = n
      /\ \A k \in 1..n :
            contents[k] = queue_data[(pop_count + k - 1) % queue_capacity]
  BY Contents DEF ContentsMeaning
<1>3. pop_count \in Nat /\ n \in Nat /\ n > 0
  BY SizeIsDifference DEF QueueInv, QueueTypeOK
<1>4. live_size' = n - 1
  BY <1>1, PopSize
<1>5. /\ contents' \in Seq(Item)
      /\ Len(contents') = n - 1
      /\ \A k \in 1..(n - 1) :
            contents'[k] = queue_data[(pop_count' + k - 1) % queue_capacity]
  <2>1. ContentsMeaning'
    BY Contents, PTL
  <2> QED
    BY <1>1, <1>4, <2>1 DEF ContentsMeaning
<1>9. \A j \in Nat : (pop_count' + j) % queue_capacity
                         = (pop_count + 1 + j) % queue_capacity
  BY <1>1, PopSlots
<1>10. pop_count' \in Nat
  BY <1>1, <1>3, QueueAssumption
<1> HIDE DEF n
<1>6. contents # <<>> /\ Head(contents) = contents[1]
  BY <1>2, <1>3
<1>7. returned' = Head(contents)
  <2>1. 1 \in 1..n /\ pop_count + 1 - 1 = pop_count
    BY <1>3
  <2> QED
    BY <1>1, <1>2, <1>6, <2>1
<1>8. contents' = Tail(contents)
  <2>1. /\ Tail(contents) \in Seq(Item)
        /\ Len(Tail(contents)) = n - 1
        /\ \A k \in 1..(n - 1) : Tail(contents)[k] = contents[k + 1]
    BY <1>2, <1>6, HeadTailProperties
  <2>2. \A k \in 1..(n - 1) : contents'[k] = contents[k + 1]
    <3> SUFFICES ASSUME NEW k \in 1..(n - 1)
                 PROVE  contents'[k] = contents[k + 1]
      OBVIOUS
    <3>1. /\ k + 1 \in 1..n /\ k - 1 \in Nat
          /\ pop_count + (k + 1) - 1 = pop_count + 1 + (k - 1)
          /\ pop_count' + k - 1 = pop_count' + (k - 1)
      BY <1>3, <1>10
    <3>2. (pop_count' + (k - 1)) % queue_capacity
             = (pop_count + 1 + (k - 1)) % queue_capacity
      BY <1>9, <3>1
    <3>3. contents'[k] = queue_data[(pop_count' + k - 1) % queue_capacity]
      BY <1>5
    <3>4. contents[k + 1] = queue_data[(pop_count + (k + 1) - 1) % queue_capacity]
      BY <1>2, <3>1
    <3> QED
      BY <3>1, <3>2, <3>3, <3>4
  <2> QED
    BY <1>5, <2>1, <2>2, SeqEqual
<1> QED
  BY <1>1, <1>6, <1>7, <1>8

\* Every step of the ring buffer is a step of the FIFO or changes nothing that
\* the FIFO's caller sees.
LEMMA StepSimulation ==
  ASSUME SlotsGoOn, QueueInv, QueueInv', [QueueNext]_queue_vars
  PROVE  [Fifo!Next]_(Fifo!vars)
<1> USE DEF Fifo!Next, Fifo!vars
<1>0. /\ ContentsMeaning
      /\ live_size \in Nat
      /\ queue_capacity \in Nat
      /\ is_null <=> queue_capacity = 0
      /\ live_size <= queue_capacity
  <2>1. QueueTypeOK /\ Handle /\ Counters
    BY DEF QueueInv
  <2>2. /\ queue_capacity \in Nat /\ max_elements \in Nat
        /\ is_null <=> queue_capacity = 0
    BY <2>1, QueueAssumption DEF QueueTypeOK, Handle
  <2>3. /\ live_size \in Nat
        /\ live_size <= max_elements /\ max_elements <= queue_capacity
    BY <2>1, SizeIsDifference DEF Counters
  <2> QED
    BY Contents, <2>2, <2>3
<1>00. contents = <<>> <=> live_size = 0
  BY <1>0 DEF ContentsMeaning
<1>1. CASE UNCHANGED queue_vars
  BY <1>1, SameContents DEF queue_vars
<1>2. ASSUME NEW c \in Capacities, queue_init(c) PROVE [Fifo!Next]_(Fifo!vars)
  <2>1. CASE UNCHANGED <<is_null, fields, returned>>
    BY <2>1, SameContents
  <2>2. CASE /\ c > 0
             /\ queue_capacity' = c
             /\ max_elements' = 0
             /\ pop_count' = 0
             /\ push_count' = 0
             /\ UNCHANGED returned
    <3>1. contents' = <<>>
      <4>1. ContentsMeaning'
        BY Contents, PTL
      <4>2. live_size' = 0
        BY <2>2, NoneLive
      <4> QED
        BY <4>1, <4>2 DEF ContentsMeaning
    <3>2. queue_capacity = 0
      BY <1>0, <1>2 DEF queue_init
    <3>3. Fifo!Create(c)
      BY <2>2, <3>1, <3>2 DEF Fifo!Create
    <3> QED
      BY <3>3
  <2> QED
    BY <1>2, <2>1, <2>2 DEF queue_init, queue_vars
<1>3. ASSUME queue_cleanup PROVE [Fifo!Next]_(Fifo!vars)
  <2>1. CASE UNCHANGED queue_vars
    BY <2>1, <1>1
  <2>2. CASE ~UNCHANGED queue_vars
    <3>1. /\ queue_capacity' = 0
          /\ push_count' = 0
          /\ pop_count' = 0
          /\ max_elements' = 0
          /\ UNCHANGED returned
      BY <1>3, <2>2 DEF queue_cleanup
    <3>2. contents' = <<>>
      <4>1. ContentsMeaning'
        BY Contents, PTL
      <4>2. live_size' = 0
        BY <3>1, NoneLive
      <4> QED
        BY <4>1, <4>2 DEF ContentsMeaning
    <3> QED
      BY <3>1, <3>2 DEF Fifo!Close
  <2> QED
    BY <2>1, <2>2
<1>4. ASSUME queue_size PROVE [Fifo!Next]_(Fifo!vars)
  <2>1. contents' = contents /\ UNCHANGED <<queue_capacity, max_elements>>
    BY <1>4, SameContents DEF queue_size
  <2>2. returned' = Len(contents)
    BY <1>0, <1>4 DEF queue_size, ContentsMeaning
  <2> QED
    BY <2>1, <2>2 DEF Fifo!Size
<1>5. ASSUME NEW e \in Item, queue_push(e) PROVE [Fifo!Next]_(Fifo!vars)
  <2>1. CASE is_null \/ queue_capacity = live_size
    <3>1. returned' = 1 /\ UNCHANGED fields
      BY <1>5, <2>1 DEF queue_push, push_slot
    <3>2. contents' = contents /\ UNCHANGED <<queue_capacity, max_elements>>
      BY <3>1, SameContents
    <3>3. Len(contents) >= queue_capacity
      BY <1>0, <2>1 DEF ContentsMeaning
    <3> QED
      BY <3>1, <3>2, <3>3 DEF Fifo!Push
  <2>2. CASE ~is_null /\ queue_capacity # live_size
    BY <1>5, <2>2, PushAppends DEF Fifo!Push
  <2> QED
    BY <2>1, <2>2
<1>6. ASSUME queue_pop PROVE [Fifo!Next]_(Fifo!vars)
  <2>1. CASE is_null \/ live_size <= 0
    <3>1. returned' = -1 /\ UNCHANGED fields
      BY <1>0, <1>6, <2>1 DEF queue_pop
    <3>2. contents' = contents /\ UNCHANGED <<queue_capacity, max_elements>>
      BY <3>1, SameContents
    <3>3. contents = <<>>
      BY <1>0, <1>00, <2>1
    <3> QED
      BY <3>1, <3>2, <3>3 DEF Fifo!Pop
  <2>2. CASE ~is_null /\ live_size > 0
    BY <1>6, <2>2, PopTakesHead DEF Fifo!Pop
  <2> QED
    BY <1>0, <2>1, <2>2
<1>7. ASSUME queue_peek PROVE [Fifo!Next]_(Fifo!vars)
  <2>1. contents' = contents /\ UNCHANGED <<queue_capacity, max_elements>>
    BY <1>7, SameContents DEF queue_peek
  <2>2. CASE is_null \/ live_size <= 0
    <3>1. returned' \in {-1, 1}
      BY <1>0, <1>7, <2>2 DEF queue_peek
    <3>2. contents = <<>>
      BY <1>0, <1>00, <2>2
    <3> QED
      BY <2>1, <3>1, <3>2 DEF Fifo!Peek
  <2>3. CASE ~is_null /\ live_size > 0
    <3>1. returned' = queue_data[pop_count % queue_capacity]
      BY <1>0, <1>7, <2>3 DEF queue_peek
    <3>2. 1 \in 1..live_size /\ pop_count + 1 - 1 = pop_count
      BY <1>0, <2>3 DEF QueueInv, QueueTypeOK
    <3>3. contents # <<>> /\ Head(contents) = contents[1]
      BY <1>0, <1>00, <2>3 DEF ContentsMeaning
    <3>4. returned' = Head(contents)
      BY <1>0, <3>1, <3>2, <3>3 DEF ContentsMeaning
    <3> QED
      BY <2>1, <3>3, <3>4 DEF Fifo!Peek
  <2> QED
    BY <1>0, <2>2, <2>3
<1>8. ASSUME queue_empty PROVE [Fifo!Next]_(Fifo!vars)
  <2>1. contents' = contents /\ UNCHANGED <<queue_capacity, max_elements>>
    BY <1>8, SameContents DEF queue_empty
  <2>2. \/ queue_capacity = 0 /\ returned' = -1
        \/ queue_capacity > 0 /\ contents = <<>> /\ returned' = 1
        \/ queue_capacity > 0 /\ contents # <<>> /\ returned' = 0
    BY <1>0, <1>00, <1>8 DEF queue_empty
  <2> QED
    BY <2>1, <2>2 DEF Fifo!IsEmpty
<1> QED
  BY <1>1, <1>2, <1>3, <1>4, <1>5, <1>6, <1>7, <1>8 DEF QueueNext

\* The ring buffer of queue.c implements the bounded FIFO of queue.h: items come
\* out once each and in the order pushed, at every capacity.
THEOREM RingBufferImplementsFifo == ASSUME SlotsGoOn PROVE QueueSpec => ImplementsFifo
<1>1. QueueInit => Fifo!Init
  <2> SUFFICES ASSUME QueueInit PROVE Fifo!Init
    OBVIOUS
  <2>1. live_size = 0
    BY QueueAssumption DEF QueueInit, live_size
  <2>2. contents = <<>>
    BY <2>1, QueueInitInv, Contents DEF ContentsMeaning
  <2> QED
    BY <2>2 DEF QueueInit, Fifo!Init
<1>2. QueueInv /\ QueueInv' /\ [QueueNext]_queue_vars => [Fifo!Next]_(Fifo!vars)
  BY StepSimulation
<1> QED
  BY <1>1, <1>2, QueueInvariance, PTL DEF QueueSpec, ImplementsFifo, Fifo!Spec
=============================================================================
