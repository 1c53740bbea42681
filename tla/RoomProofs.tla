------------------------------ MODULE RoomProofs ------------------------------
(***************************************************************************)
(* Proofs about heap.c and the waiting room of main.c for any number of     *)
(* patients, any capacity and any memory: the loops that repair the heap    *)
(* keep what holds of the rest of it, so that it is in order when they end; *)
(* swaps keep the bag of elements; and the root of a heap in order comes    *)
(* before all others, by induction on the index.                            *)
(***************************************************************************)
EXTENDS WaitingRoom, FiniteSetTheorems, FunctionTheorems,
        WellFoundedInduction, TLAPS

\* What qsort and heap.h ask of a compare function: the sign of the answer
\* says which of the two comes first, and "not after" is transitive.
Orders(c) ==
    /\ \A x, y \in Element : c[<<x, y>>] < 0 <=> c[<<y, x>>] > 0
    /\ \A x, y, z \in Element : c[<<x, y>>] <= 0 /\ c[<<y, z>>] <= 0 => c[<<x, z>>] <= 0

\* No difference of two ages overflows an int.
AgesFit ==
    \A a, b \in AGES : a - b + INT_VALUES \div 2 \in 0..(INT_VALUES - 1)

-----------------------------------------------------------------------------
(* The compare functions *)

LEMMA DifferenceExact ==
  ASSUME AgesFit, NEW a \in AGES, NEW b \in AGES
  PROVE  difference(a, b) = a - b
<1>1. INT_VALUES \in Nat \ {0} /\ a \in Int /\ b \in Int
  BY RoomAssumption
<1>2. PICK h \in Nat : h = INT_VALUES \div 2
  BY <1>1
<1>3. PICK d \in Int : d = a - b + h
  BY <1>1, <1>2
<1>4. d \in 0..(INT_VALUES - 1)
  BY <1>2, <1>3 DEF AgesFit
<1>5. d % INT_VALUES = d
  BY <1>1, <1>4
<1> QED
  BY <1>1, <1>2, <1>3, <1>5 DEF difference

\* The functions of main.c order the patients: by name whatever the names are,
\* by age as long as no difference of ages overflows.
LEMMA ComparesOrder ==
  ASSUME AgesFit, NEW c \in Comparisons
  PROVE  Orders(c) /\ c \in [Element \X Element -> Int]
<1>1. /\ Element = Patient
      /\ \A p \in Patient : p.name \in Int /\ p.age \in Int /\ p.age \in AGES
  BY RoomAssumption, QueueOfPatients DEF Patient
<1>2. CASE \A x, y \in Patient : c[<<x, y>>] = x.name - y.name
  <2>1. Orders(c)
    BY <1>1, <1>2 DEF Orders
  <2> QED
    BY <2>1, HeapAssumption
<1>3. CASE \A x, y \in Patient :
              c[<<x, y>>] = IF x.age - y.age = 0 THEN x.name - y.name ELSE x.age - y.age
  <2>1. Orders(c)
    BY <1>1, <1>3 DEF Orders
  <2> QED
    BY <2>1, HeapAssumption
<1>4. CASE c = [x \in Patient \X Patient |-> compare_patient_name(x[1], x[2])]
  <2>1. \A x, y \in Patient : c[<<x, y>>] = x.name - y.name
    BY <1>4 DEF compare_patient_name
  <2> QED
    BY <2>1, <1>2
<1>5. CASE c = [x \in Patient \X Patient |-> compare_patient_age(x[1], x[2])]
  <2>1. \A x, y \in Patient : difference(x.age, y.age) = x.age - y.age
    BY <1>1, DifferenceExact
  <2>2. \A x, y \in Patient : c[<<x, y>>] = compare_patient_age(x, y)
    BY <1>5
  <2>3. \A x, y \in Patient :
           c[<<x, y>>] = IF x.age - y.age = 0 THEN x.name - y.name ELSE x.age - y.age
    BY <2>1, <2>2 DEF compare_patient_age, compare_patient_name
  <2> QED
    BY <2>3, <1>3
<1> QED
  BY <1>4, <1>5, QueueOfPatients DEF compares

-----------------------------------------------------------------------------
(* The inductive invariant *)

n == array_size

HeapTypeOK ==
    /\ compare \in Comparisons
    /\ n \in Nat
    /\ data \in [0..(n - 1) -> Element]
    /\ capacity \in Nat /\ capacity >= ARRSIZE
    /\ at \in {"idle", "up", "down"}
    /\ IF at = "idle" THEN i = 0 ELSE i \in 0..(n - 1)
    /\ top \in Element \cup {NOTHING}

RoomTypeOK ==
    /\ stage \in {"reading", "draining", "success", "failure"}
    /\ stage \in {"success", "failure"} => at = "idle" /\ n = 0
    /\ iterations \in Nat
    /\ admitted \in Nat /\ lost \in Nat
    /\ structs \in Int /\ names \in Int /\ queue \in Int

\* The array holds patients for whom there was memory and who were not lost.
Accounting == PatientsAccounted /\ n + lost <= admitted

\* The element at k does not come before the one at p.
InOrder(p, k) == compare[<<data[p], data[k]>>] <= 0

\* While an element rises only it can come before its parent, and while one
\* sinks it can only come after its children; its children are in order with
\* its parent meanwhile.
HeapButOne ==
    /\ \A k \in 1..(n - 1) :
          InOrder(parent(k), k)
             \/ (at = "up" /\ k = i)
             \/ (at = "down" /\ parent(k) = i)
    /\ at # "idle" /\ i > 0 =>
          \A k \in 1..(n - 1) : parent(k) = i => InOrder(parent(i), k)

IInv == HeapTypeOK /\ RoomTypeOK /\ Accounting

-----------------------------------------------------------------------------
(* The steps of the queue keep the types and change the size as they should *)

LEMMA SizeOf ==
  ASSUME NEW d, NEW m \in Nat, DOMAIN d = 0..(m - 1)
  PROVE  Cardinality(DOMAIN d) = m
BY FS_Interval

\* A node is one of the two children of its parent.
LEMMA ParentOf ==
  ASSUME NEW k \in Nat, k > 0
  PROVE  /\ parent(k) \in 0..(k - 1)
         /\ k = 2 * parent(k) + 1 \/ k = 2 * parent(k) + 2
BY DEF parent

LEMMA ChildOf ==
  ASSUME NEW k \in Nat, NEW p \in Nat, k = 2 * p + 1 \/ k = 2 * p + 2
  PROVE  parent(k) = p
BY DEF parent

LEMMA AppendStep ==
  ASSUME HeapTypeOK, NEW e \in Element, array_append(e)
  PROVE  HeapTypeOK' /\ n' = n + 1 /\ at = "idle" /\ at' = "up"
<1>1. /\ n \in Nat
      /\ data' = [k \in 0..n |-> IF k = n THEN e ELSE data[k]]
  BY DEF HeapTypeOK, array_append, Appended, n
<1>2. /\ DOMAIN data' = 0..((n + 1) - 1)
      /\ data' \in [0..((n + 1) - 1) -> Element]
  BY <1>1 DEF HeapTypeOK
<1>3. n' = n + 1
  BY <1>1, <1>2, SizeOf DEF n, array_size
<1>4. capacity' \in Nat /\ capacity' >= ARRSIZE
  BY HeapAssumption DEF HeapTypeOK, array_append
<1> QED
  BY <1>1, <1>2, <1>3, <1>4 DEF HeapTypeOK, array_append, n

LEMMA PopStep ==
  ASSUME HeapTypeOK, heap_pop
  PROVE  /\ HeapTypeOK' /\ n' = n - 1 /\ n > 0 /\ at = "idle"
         /\ at' = IF n = 1 THEN "idle" ELSE "down"
         /\ top' = data[0]
         /\ \A k \in 0..(n - 2) : data'[k] = IF k = 0 THEN data[n - 1] ELSE data[k]
<1>1. /\ n \in Nat /\ n > 0 /\ at = "idle"
      /\ top' = data[0]
      /\ at' = IF n = 1 THEN "idle" ELSE "down"
      /\ UNCHANGED <<compare, capacity>>
      /\ i' = 0
  BY DEF HeapTypeOK, heap_pop, n
<1>2. CASE n = 1
  <2>1. data' = [k \in 0..(-1) |-> NOTHING]
    BY <1>2 DEF heap_pop, Empty, n
  <2>2. data' \in [0..(0 - 1) -> Element] /\ DOMAIN data' = 0..(0 - 1)
    BY <2>1
  <2>3. n' = 0
    BY <2>2, SizeOf DEF n, array_size
  <2> QED
    BY <1>1, <1>2, <2>2, <2>3 DEF HeapTypeOK
<1>3. CASE n # 1
  <2>1. data' = [[k \in 0..(n - 2) |-> data[k]] EXCEPT ![0] = data[n - 1]]
    BY <1>3 DEF heap_pop, Popped, n
  <2>2. /\ data' \in [0..((n - 1) - 1) -> Element]
        /\ DOMAIN data' = 0..((n - 1) - 1)
        /\ \A k \in 0..(n - 2) : data'[k] = IF k = 0 THEN data[n - 1] ELSE data[k]
    BY <1>1, <1>3, <2>1 DEF HeapTypeOK
  <2>3. n' = n - 1
    BY <1>1, <1>3, <2>2, SizeOf DEF n, array_size
  <2> QED
    BY <1>1, <1>3, <2>2, <2>3 DEF HeapTypeOK
<1> QED
  BY <1>2, <1>3

LEMMA CleanupStep ==
  ASSUME HeapTypeOK, prioq_cleanup
  PROVE  HeapTypeOK' /\ n' = 0 /\ at = "idle" /\ at' = "idle"
<1>1. data' = [k \in 0..(-1) |-> NOTHING]
  BY DEF prioq_cleanup, Empty
<1>2. data' \in [0..(0 - 1) -> Element] /\ DOMAIN data' = 0..(0 - 1)
  BY <1>1
<1>3. n' = 0
  BY <1>2, SizeOf DEF n, array_size
<1> QED
  BY <1>2, <1>3 DEF HeapTypeOK, prioq_cleanup

\* The element that a sinking one is swapped with is one of its children.
LEMMA SmallestIsChild ==
  ASSUME HeapTypeOK, at = "down"
  PROVE  /\ smallest \in {i, 2 * i + 1, 2 * i + 2}
         /\ smallest \in 0..(n - 1)
<1>1. n \in Nat /\ i \in 0..(n - 1)
  BY DEF HeapTypeOK
<1>2. smaller \in {i, left} /\ smaller \in 0..(n - 1)
  BY <1>1 DEF smaller, left, n
<1> QED
  BY <1>1, <1>2 DEF smallest, left, right, n

LEMMA SwapStep ==
  ASSUME HeapTypeOK, NEW j \in 0..(n - 1), NEW k \in 0..(n - 1),
         data' = Swapped(j, k)
  PROVE  /\ data' \in [0..(n - 1) -> Element]
         /\ n' = n
         /\ \A x \in 0..(n - 1) :
               data'[x] = IF x = k THEN data[j] ELSE IF x = j THEN data[k] ELSE data[x]
<1>1. data' = [data EXCEPT ![j] = data[k], ![k] = data[j]]
  BY DEF Swapped
<1>2. data \in [0..(n - 1) -> Element] /\ n \in Nat
  BY DEF HeapTypeOK
<1>3. data' \in [0..(n - 1) -> Element] /\ DOMAIN data' = 0..(n - 1)
  BY <1>1, <1>2
<1>4. n' = n
  BY <1>2, <1>3, SizeOf DEF n, array_size
<1> QED
  BY <1>1, <1>2, <1>3, <1>4

LEMMA LoopStep ==
  ASSUME HeapTypeOK, SiftUp \/ SiftDown
  PROVE  HeapTypeOK' /\ n' = n /\ at # "idle" /\ n > 0 /\ UNCHANGED top
<1>1. /\ n \in Nat /\ at # "idle" /\ i \in 0..(n - 1)
  BY DEF HeapTypeOK, SiftUp, SiftDown
<1>2. CASE at' = "idle" /\ i' = 0 /\ UNCHANGED <<compare, data, capacity, top>>
  BY <1>1, <1>2 DEF HeapTypeOK, n, array_size
<1>3. CASE at = "up" /\ rises /\ data' = Swapped(parent(i), i) /\ i' = parent(i)
           /\ UNCHANGED <<compare, capacity, at, top>>
  <2>1. i > 0 /\ parent(i) \in 0..(n - 1)
    BY <1>1, <1>3, ParentOf DEF rises
  <2>2. data' \in [0..(n - 1) -> Element] /\ n' = n
    BY <1>1, <1>3, <2>1, SwapStep
  <2> QED
    BY <1>1, <1>3, <2>1, <2>2 DEF HeapTypeOK
<1>4. CASE at = "down" /\ smallest # i /\ data' = Swapped(i, smallest)
           /\ i' = smallest /\ UNCHANGED <<compare, capacity, at, top>>
  <2>1. smallest \in 0..(n - 1)
    BY <1>4, SmallestIsChild
  <2>2. data' \in [0..(n - 1) -> Element] /\ n' = n
    BY <1>1, <1>4, <2>1, SwapStep
  <2> QED
    BY <1>1, <1>4, <2>1, <2>2 DEF HeapTypeOK
<1> QED
  BY <1>2, <1>3, <1>4 DEF SiftUp, SiftDown

-----------------------------------------------------------------------------
(* Every patient is accounted for *)

LEMMA InvInit == Init => IInv
<1> SUFFICES ASSUME Init PROVE IInv
  OBVIOUS
<1>1. data = [k \in 0..(-1) |-> NOTHING]
  BY DEF Init, HeapInit, Empty
<1>2. data \in [0..(0 - 1) -> Element] /\ DOMAIN data = 0..(0 - 1)
  BY <1>1
<1>3. n = 0
  BY <1>2, SizeOf DEF n, array_size
<1>4. HeapTypeOK
  BY <1>2, <1>3, HeapAssumption DEF HeapTypeOK, Init, HeapInit
<1>5. RoomTypeOK
  BY <1>3 DEF RoomTypeOK, Init, HeapInit
<1>6. Accounting
  BY <1>3 DEF Accounting, PatientsAccounted, Init, n
<1> QED
  BY <1>4, <1>5, <1>6 DEF IInv

LEMMA AdmitStep ==
  ASSUME IInv, NEW p \in Patient, Admit(p)
  PROVE  IInv'
<1>1. HeapTypeOK' /\ n' = n + 1
  BY AppendStep, QueueOfPatients DEF IInv, Admit
<1>2. UNCHANGED <<stage, iterations, lost, queue>> /\ stage = "reading"
      /\ admitted' = admitted + 1 /\ structs' = structs + 1 /\ names' = names + 1
  BY DEF Admit
<1>3. n \in Nat
  BY DEF IInv, HeapTypeOK
<1>4. RoomTypeOK'
  BY <1>1, <1>2 DEF IInv, RoomTypeOK
<1>5. Accounting'
  BY <1>1, <1>2, <1>3, HeapAssumption
  DEF IInv, RoomTypeOK, Accounting, PatientsAccounted, n
<1> QED
  BY <1>1, <1>4, <1>5 DEF IInv

\* The array is full when a patient is lost, and has room for ARRSIZE at least.
LEMMA LoseStep ==
  ASSUME IInv, Lose
  PROVE  IInv'
<1>1. HeapTypeOK' /\ n' = n /\ n = capacity
  BY DEF IInv, HeapTypeOK, Lose, append_fails, heap, n, array_size
<1>2. UNCHANGED <<stage, iterations, queue>> /\ stage = "reading"
      /\ admitted' = admitted + 1 /\ lost' = lost + 1
      /\ structs' = structs + 1 /\ names' = names + 1
  BY DEF Lose
<1> QED
  BY <1>1, <1>2, HeapAssumption
  DEF IInv, HeapTypeOK, RoomTypeOK, Accounting, PatientsAccounted, n

LEMMA FailStep ==
  ASSUME IInv, Fail
  PROVE  IInv'
<1>1. HeapTypeOK' /\ n' = 0 /\ at' = "idle"
  BY CleanupStep DEF IInv, Fail
<1>2. stage' = "failure" /\ queue' = 0 /\ UNCHANGED <<iterations, admitted, lost>>
      /\ structs' \in Int /\ names' \in Int
  BY DEF Fail, IInv, RoomTypeOK, HeapTypeOK, n
<1>3. /\ n \in Nat /\ lost \in Nat /\ admitted \in Nat
      /\ structs = n + lost /\ names = n + lost /\ n + lost <= admitted
      /\ lost > 0 => admitted > ARRSIZE
  BY DEF Fail, IInv, HeapTypeOK, RoomTypeOK, Accounting, PatientsAccounted, n
<1>4. \/ structs' = lost /\ names' = n + lost
      \/ structs' = lost + 1 /\ names' = lost
  BY <1>3 DEF Fail, n
<1>5. RoomTypeOK'
  BY <1>1, <1>2 DEF IInv, RoomTypeOK
<1>6. Accounting'
  BY <1>1, <1>2, <1>3, <1>4 DEF Accounting, PatientsAccounted
<1> QED
  BY <1>1, <1>5, <1>6 DEF IInv

\* A patient is served, in a step that may end the reading.
LEMMA ServeStep ==
  ASSUME IInv, Serve, stage \in {"reading", "draining"},
         stage' \in {"reading", "draining"}, iterations' \in Nat,
         UNCHANGED <<admitted, lost, queue>>
  PROVE  IInv'
<1>1. HeapTypeOK' /\ n' = n - 1 /\ n > 0
  BY PopStep DEF IInv, Serve
<1>2. structs' = structs - 1 /\ names' = names - 1
  BY DEF Serve
<1> QED
  BY <1>1, <1>2 DEF IInv, HeapTypeOK, RoomTypeOK, Accounting, PatientsAccounted, n

LEMMA DotStep ==
  ASSUME IInv, Dot
  PROVE  IInv'
<1>1. /\ stage = "reading" /\ stage' \in {"reading", "draining"}
      /\ iterations' \in Nat
      /\ UNCHANGED <<admitted, lost, queue>>
  BY DEF Dot, IInv, RoomTypeOK
<1>2. CASE Serve
  BY <1>1, <1>2, ServeStep
<1>3. CASE UNCHANGED <<heap, structs, names>>
  <2>1. HeapTypeOK' /\ n' = n
    BY <1>3 DEF IInv, HeapTypeOK, heap, n, array_size
  <2> QED
    BY <1>1, <1>3, <2>1
    DEF IInv, RoomTypeOK, Accounting, PatientsAccounted, n
<1> QED
  BY <1>2, <1>3 DEF Dot

LEMMA DrainStep ==
  ASSUME IInv, Drain
  PROVE  IInv'
<1>1. /\ stage = "draining"
      /\ UNCHANGED <<iterations, admitted, lost>>
  BY DEF Drain
<1>2. CASE Serve /\ UNCHANGED <<stage, queue>>
  BY <1>1, <1>2, ServeStep DEF IInv, RoomTypeOK
<1>3. CASE /\ array_size = 0
           /\ prioq_cleanup
           /\ stage' = "success"
           /\ queue' = 0
           /\ UNCHANGED <<structs, names>>
  <2>1. HeapTypeOK' /\ n' = 0 /\ at' = "idle"
    BY <1>3, CleanupStep DEF IInv
  <2> QED
    BY <1>1, <1>3, <2>1
    DEF IInv, HeapTypeOK, RoomTypeOK, Accounting, PatientsAccounted, n
<1> QED
  BY <1>1, <1>2, <1>3 DEF Drain

LEMMA LoopsStep ==
  ASSUME IInv, Loops
  PROVE  IInv'
<1>1. HeapTypeOK' /\ n' = n /\ at # "idle" /\ n > 0
  BY LoopStep DEF IInv, Loops
<1>2. UNCHANGED main
  BY DEF Loops
<1> QED
  BY <1>1, <1>2
  DEF IInv, HeapTypeOK, RoomTypeOK, Accounting, PatientsAccounted, main, n

LEMMA InvStep == IInv /\ [Next]_vars => IInv'
<1> SUFFICES ASSUME IInv, [Next]_vars PROVE IInv'
  OBVIOUS
<1>1. CASE UNCHANGED vars
  BY <1>1 DEF vars, heap, main, IInv, HeapTypeOK, RoomTypeOK, Accounting,
              PatientsAccounted, n, array_size
<1>2. CASE Next
  BY <1>2, AdmitStep, LoseStep, FailStep, DotStep, DrainStep, LoopsStep DEF Next
<1> QED
  BY <1>1, <1>2

LEMMA Invariance == Spec => []IInv
BY InvInit, InvStep, PTL DEF Spec

\* However many patients come and whenever memory runs out, each one there was
\* memory for waits, was served and freed, or was lost by a queue that could not
\* grow; main has served all the others when it ends with success.
THEOREM EveryPatientAccounted == Spec => []PatientsAccounted
<1>1. IInv => PatientsAccounted
  BY DEF IInv, Accounting
<1> QED
  BY <1>1, Invariance, PTL

-----------------------------------------------------------------------------
(* The loops repair the heap *)

Compared == Orders(compare) /\ compare \in [Element \X Element -> Int]

\* The facts about the order that the proofs of the steps use.
LEMMA OrderFacts ==
  ASSUME HeapTypeOK, Compared
  PROVE  \A j, k, l \in 0..(n - 1) : InOrder(j, k) /\ InOrder(k, l) => InOrder(j, l)
<1>1. \A k \in 0..(n - 1) : data[k] \in Element
  BY DEF HeapTypeOK
<1> QED
  BY <1>1 DEF Compared, Orders, InOrder

LEMMA CompareFacts ==
  ASSUME HeapTypeOK, Compared, NEW j \in 0..(n - 1), NEW k \in 0..(n - 1)
  PROVE  /\ compare[<<data[j], data[k]>>] \in Int
         /\ ~InOrder(j, k) => InOrder(k, j)
         /\ compare[<<data[k], data[j]>>] >= 0 => InOrder(j, k)
<1>1. data[j] \in Element /\ data[k] \in Element
  BY DEF HeapTypeOK
<1>2. \A x, y \in Element : compare[<<x, y>>] \in Int
  BY DEF Compared
<1> QED
  BY <1>1, <1>2 DEF Compared, Orders, InOrder

LEMMA AppendOrder ==
  ASSUME HeapTypeOK, HeapButOne, NEW e \in Element, array_append(e)
  PROVE  HeapButOne'
<1>1. n' = n + 1 /\ n \in Nat /\ at = "idle"
  BY AppendStep DEF HeapTypeOK
<1>2. \A k \in 0..(n - 1) : data'[k] = data[k]
  BY <1>1 DEF array_append, Appended, n
<1>3. at' = "up" /\ i' = n /\ UNCHANGED compare
  BY DEF array_append, n
<1>4. \A k \in 1..(n' - 1) : parent(k) \in 0..(k - 1)
  BY <1>1, ParentOf
<1>5. \A k \in 1..(n - 1) : InOrder(parent(k), k)
  BY <1>1 DEF HeapButOne
<1>6. ASSUME NEW k \in 1..(n - 1) PROVE InOrder(parent(k), k)'
  <2>1. parent(k) \in 0..(n - 1)
    BY <1>1, <1>4, <1>6
  <2>2. data'[k] = data[k] /\ data'[parent(k)] = data[parent(k)]
    BY <1>2, <2>1, <1>1
  <2> QED
    BY <1>3, <1>5, <2>2 DEF InOrder, parent
<1>7. \A k \in 1..(n' - 1) : InOrder(parent(k), k)' \/ k = i'
  BY <1>1, <1>3, <1>6
<1>8. \A k \in 1..(n' - 1) : parent(k) # i'
  BY <1>1, <1>3, <1>4
<1> QED
  BY <1>3, <1>7, <1>8 DEF HeapButOne, parent

\* The last element takes the place of the root, and nothing else moves.
LEMMA PopOrder ==
  ASSUME HeapTypeOK, HeapButOne, heap_pop
  PROVE  HeapButOne'
<1>1. /\ n' = n - 1 /\ n \in Nat /\ n > 0 /\ at = "idle"
      /\ at' = IF n = 1 THEN "idle" ELSE "down"
      /\ \A k \in 0..(n - 2) : data'[k] = IF k = 0 THEN data[n - 1] ELSE data[k]
  BY PopStep DEF HeapTypeOK
<1>2. i' = 0 /\ UNCHANGED compare
  BY DEF heap_pop
<1>3. \A k \in 1..(n - 1) : parent(k) \in 0..(k - 1)
  BY <1>1, ParentOf
<1>4. \A k \in 1..(n - 1) : InOrder(parent(k), k)
  BY <1>1 DEF HeapButOne
<1>5. ASSUME NEW k \in 1..(n' - 1), parent(k) # 0 PROVE InOrder(parent(k), k)'
  <2>1. k \in 1..(n - 2) /\ parent(k) \in 1..(n - 2) /\ n # 1
    BY <1>1, <1>3, <1>5
  <2>2. data'[k] = data[k] /\ data'[parent(k)] = data[parent(k)]
    BY <1>1, <2>1
  <2> QED
    BY <1>1, <1>2, <1>4, <2>1, <2>2 DEF InOrder, parent
<1>6. ASSUME NEW k \in 1..(n' - 1)
      PROVE  InOrder(parent(k), k)' \/ (at' = "down" /\ parent(k) = i')
  BY <1>1, <1>2, <1>5
<1> QED
  BY <1>2, <1>6 DEF HeapButOne, parent

LEMMA UpOrder ==
  ASSUME HeapTypeOK, Compared, HeapButOne, SiftUp
  PROVE  HeapButOne'
<1>1. at = "up" /\ n \in Nat /\ i \in 0..(n - 1)
  BY DEF HeapTypeOK, SiftUp
<1>2. /\ \A k \in 1..(n - 1) : k # i => InOrder(parent(k), k)
      /\ \A k \in 1..(n - 1) : i > 0 /\ parent(k) = i => InOrder(parent(i), k)
  BY <1>1 DEF HeapButOne
<1>3. \A k \in 1..(n - 1) : parent(k) \in 0..(k - 1)
  BY <1>1, ParentOf
<1>0. \A j, k, l \in 0..(n - 1) : InOrder(j, k) /\ InOrder(k, l) => InOrder(j, l)
  BY OrderFacts
<1>4. CASE /\ rises
           /\ data' = Swapped(parent(i), i)
           /\ i' = parent(i)
           /\ UNCHANGED <<compare, capacity, at, top>>
  <2>0. i \in 1..(n - 1) /\ parent(i) \in 0..(i - 1)
    BY <1>1, <1>3, <1>4 DEF rises
  <2> PICK p \in 0..(i - 1) : p = parent(i)
    BY <2>0
  <2>1. /\ i \in 1..(n - 1) /\ p \in 0..(i - 1) /\ p = parent(i)
        /\ p \in 0..(n - 1) /\ i \in 0..(n - 1)
        /\ compare[<<data[i], data[p]>>] < 0
    BY <1>1, <2>0, <1>4 DEF rises
  <2>2. /\ n' = n
        /\ \A x \in 0..(n - 1) :
              data'[x] = IF x = i THEN data[p] ELSE IF x = p THEN data[i] ELSE data[x]
    BY <1>1, <1>4, <2>1, SwapStep
  <2>3. InOrder(i, p)
    <3>1. compare[<<data[i], data[p]>>] \in Int
      BY <2>1, CompareFacts
    <3> QED
      BY <2>1, <3>1 DEF InOrder
  <2>4. ASSUME NEW k \in 1..(n - 1), k # p PROVE InOrder(parent(k), k)'
    <3>1. parent(k) \in 0..(n - 1) /\ parent(k) # k /\ k \in 0..(n - 1)
      BY <1>1, <1>3
    <3>2. CASE k = i
      <4>1. data'[k] = data[p] /\ data'[parent(k)] = data[i]
        BY <2>1, <2>2, <3>1, <3>2
      <4> QED
        BY <1>4, <2>3, <4>1 DEF InOrder, parent
    <3>3. CASE k # i /\ parent(k) = p
      <4>1. data'[k] = data[k] /\ data'[parent(k)] = data[i]
        BY <2>1, <2>2, <2>4, <3>1, <3>3
      <4>2. InOrder(i, k)
        BY <1>1, <1>2, <2>1, <2>3, <3>1, <3>3, <1>0
      <4> QED
        BY <1>4, <4>1, <4>2 DEF InOrder, parent
    <3>4. CASE k # i /\ parent(k) = i
      <4>1. data'[k] = data[k] /\ data'[parent(k)] = data[p]
        BY <2>1, <2>2, <2>4, <3>1, <3>4
      <4>2. InOrder(p, k)
        BY <1>1, <1>2, <2>1, <3>4
      <4> QED
        BY <1>4, <4>1, <4>2 DEF InOrder, parent
    <3>5. CASE k # i /\ parent(k) # p /\ parent(k) # i
      <4>1. data'[k] = data[k] /\ data'[parent(k)] = data[parent(k)]
        BY <2>1, <2>2, <2>4, <3>1, <3>5
      <4> QED
        BY <1>2, <1>4, <3>5, <4>1 DEF InOrder, parent
    <3> QED
      BY <3>2, <3>3, <3>4, <3>5
  <2>5. ASSUME NEW k \in 1..(n - 1), p > 0, parent(k) = p
        PROVE  InOrder(parent(p), k)'
    <3>1. parent(p) \in 0..(p - 1) /\ p \in 1..(n - 1) /\ k \in 0..(n - 1)
      BY <1>1, <1>3, <2>1, <2>5
    <3>2. data'[parent(p)] = data[parent(p)] /\ InOrder(parent(p), p)
      BY <1>1, <1>2, <2>1, <2>2, <3>1
    <3>3. CASE k = i
      <4>1. data'[k] = data[p]
        BY <2>1, <2>2, <3>3
      <4> QED
        BY <1>1, <1>4, <3>2, <4>1 DEF InOrder, parent
    <3>4. CASE k # i
      <4>1. data'[k] = data[k]
        BY <1>3, <2>1, <2>2, <2>5, <3>1, <3>4
      <4>2. InOrder(parent(p), k)
        BY <1>1, <1>2, <2>1, <2>5, <3>1, <3>2, <3>4, <1>0
      <4> QED
        BY <1>1, <1>4, <3>2, <4>1, <4>2 DEF InOrder, parent
    <3> QED
      BY <3>3, <3>4
  <2>6. i' = p /\ at' = "up"
    BY <1>1, <1>4
  <2>7. \A k \in 1..(n' - 1) : InOrder(parent(k), k)' \/ k = i'
    BY <2>2, <2>4, <2>6
  <2>8. i' > 0 => \A k \in 1..(n' - 1) : parent(k) = i' => InOrder(parent(i), k)'
    BY <1>1, <2>2, <2>5, <2>6 DEF parent
  <2> QED
    BY <2>6, <2>7, <2>8 DEF HeapButOne, parent
<1>5. CASE ~rises /\ at' = "idle" /\ i' = 0 /\ UNCHANGED <<compare, data, capacity, top>>
  <2>1. ASSUME i > 0 PROVE InOrder(parent(i), i)
    <3>1. parent(i) \in 0..(n - 1)
      BY <1>1, <1>3, <2>1
    <3>2. /\ compare[<<data[i], data[parent(i)]>>] \in Int
          /\ compare[<<data[i], data[parent(i)]>>] >= 0 => InOrder(parent(i), i)
      BY <1>1, <3>1, CompareFacts
    <3> QED
      BY <1>5, <2>1, <3>2 DEF rises
  <2>2. \A k \in 1..(n - 1) : InOrder(parent(k), k)
    BY <1>1, <1>2, <2>1
  <2> QED
    BY <1>5, <2>2 DEF HeapButOne, InOrder, parent, n, array_size
<1> QED
  BY <1>4, <1>5 DEF SiftUp

\* The element that goes up comes after neither the sinking one nor its sibling.
LEMMA SmallestFirst ==
  ASSUME HeapTypeOK, Compared, at = "down",
         NEW k \in 0..(n - 1), k \in {i, 2 * i + 1, 2 * i + 2}, k # smallest
  PROVE  InOrder(smallest, k)
<1>1. n \in Nat /\ i \in 0..(n - 1) /\ left = 2 * i + 1 /\ right = 2 * i + 2
  BY DEF HeapTypeOK, left, right
<1>2. PICK m \in 0..(n - 1) : m = smaller /\ m \in {i, left}
  BY <1>1 DEF smaller, left, n
<1>3. PICK s \in 0..(n - 1) : s = smallest /\ s \in {m, right}
  BY <1>1, <1>2, SmallestIsChild DEF smallest
<1>4. ASSUME NEW j \in 0..(n - 1), j \in {i, left}, j # m PROVE InOrder(m, j)
  <2>0. left \in 0..(n - 1)
    BY <1>2, <1>4
  <2>1. compare[<<data[i], data[left]>>] \in Int /\ left \in 0..(n - 1)
    BY <1>1, <2>0, CompareFacts
  <2>2. compare[<<data[i], data[left]>>] >= 0 => InOrder(left, i)
    BY <1>1, <2>1, CompareFacts
  <2>3. CASE j = i
    BY <1>1, <1>2, <1>4, <2>1, <2>2, <2>3 DEF smaller, n
  <2>4. CASE j = left
    BY <1>1, <1>2, <1>4, <2>1, <2>4 DEF smaller, n, InOrder
  <2> QED
    BY <1>4, <2>3, <2>4
<1>5. CASE s = right /\ s # m
  <2>1. compare[<<data[right], data[m]>>] < 0 /\ right \in 0..(n - 1)
    BY <1>2, <1>3, <1>5 DEF smallest
  <2>2. compare[<<data[right], data[m]>>] \in Int
    BY <1>1, <1>2, <2>1, CompareFacts
  <2>3. InOrder(s, m)
    BY <1>5, <2>1, <2>2 DEF InOrder
  <2>4. k = m \/ InOrder(m, k)
    BY <1>1, <1>3, <1>4, <1>5
  <2> QED
    BY <1>2, <1>3, <2>3, <2>4, OrderFacts
<1>6. CASE s = m
  <2>1. CASE k \in {i, left}
    BY <1>3, <1>4, <1>6, <2>1
  <2>2. CASE k = right /\ right < n
    <3>1. ~(compare[<<data[right], data[m]>>] < 0)
      BY <1>2, <1>3, <1>6, <2>2 DEF smallest, n
    <3>2. /\ compare[<<data[right], data[m]>>] \in Int
          /\ compare[<<data[right], data[m]>>] >= 0 => InOrder(m, right)
      BY <1>2, <2>2, CompareFacts
    <3> QED
      BY <1>3, <1>6, <2>2, <3>1, <3>2
  <2> QED
    BY <1>1, <2>1, <2>2
<1> QED
  BY <1>3, <1>5, <1>6

LEMMA DownOrder ==
  ASSUME HeapTypeOK, Compared, HeapButOne, SiftDown
  PROVE  HeapButOne'
<1>1. at = "down" /\ n \in Nat /\ i \in 0..(n - 1)
  BY DEF HeapTypeOK, SiftDown
<1>2. /\ \A k \in 1..(n - 1) : parent(k) # i => InOrder(parent(k), k)
      /\ \A k \in 1..(n - 1) : i > 0 /\ parent(k) = i => InOrder(parent(i), k)
  BY <1>1 DEF HeapButOne
<1>3. \A k \in 1..(n - 1) : /\ parent(k) \in 0..(k - 1)
                            /\ parent(k) = i => k \in {2 * i + 1, 2 * i + 2}
  BY <1>1, ParentOf
<1>4. PICK s \in 0..(n - 1) : s = smallest /\ s \in {i, 2 * i + 1, 2 * i + 2}
  BY <1>1, SmallestIsChild
<1>5. \A k \in 0..(n - 1) : k \in {i, 2 * i + 1, 2 * i + 2} /\ k # s => InOrder(s, k)
  BY <1>1, <1>4, SmallestFirst
<1>6. CASE /\ smallest # i
           /\ data' = Swapped(i, smallest)
           /\ i' = smallest
           /\ UNCHANGED <<compare, capacity, at, top>>
  <2>1. s \in 1..(n - 1) /\ parent(s) = i /\ s # i
    BY <1>1, <1>4, <1>6, ChildOf
  <2>2. /\ n' = n
        /\ \A x \in 0..(n - 1) :
              data'[x] = IF x = s THEN data[i] ELSE IF x = i THEN data[s] ELSE data[x]
    BY <1>1, <1>4, <1>6, SwapStep
  <2>3. ASSUME NEW k \in 1..(n - 1), parent(k) # s PROVE InOrder(parent(k), k)'
    <3>1. parent(k) \in 0..(n - 1) /\ parent(k) # k /\ k \in 0..(n - 1)
      BY <1>1, <1>3
    <3>2. CASE k = s
      <4>1. data'[k] = data[i] /\ data'[parent(k)] = data[s] /\ InOrder(s, i)
        BY <1>1, <1>5, <2>1, <2>2, <3>1, <3>2
      <4> QED
        BY <1>6, <4>1 DEF InOrder, parent
    <3>3. CASE k # s /\ parent(k) = i
      <4>1. data'[k] = data[k] /\ data'[parent(k)] = data[s] /\ InOrder(s, k)
        BY <1>1, <1>3, <1>5, <2>1, <2>2, <3>1, <3>3
      <4> QED
        BY <1>6, <4>1 DEF InOrder, parent
    <3>4. CASE k = i
      <4>1. data'[k] = data[s] /\ data'[parent(k)] = data[parent(k)]
        BY <1>1, <2>1, <2>2, <2>3, <3>1, <3>4
      <4>2. InOrder(parent(k), s)
        BY <1>1, <1>2, <2>1, <3>4
      <4> QED
        BY <1>6, <4>1, <4>2 DEF InOrder, parent
    <3>5. CASE k # s /\ k # i /\ parent(k) # i
      <4>1. data'[k] = data[k] /\ data'[parent(k)] = data[parent(k)]
        BY <2>2, <2>3, <3>1, <3>5
      <4> QED
        BY <1>2, <1>6, <3>5, <4>1 DEF InOrder, parent
    <3> QED
      BY <3>2, <3>3, <3>4, <3>5
  <2>4. ASSUME NEW k \in 1..(n - 1), parent(k) = s PROVE InOrder(parent(s), k)'
    <3>1. k \in 0..(n - 1) /\ k # s /\ k # i
      BY <1>1, <1>3, <1>4, <2>1, <2>4
    <3>2. data'[k] = data[k] /\ data'[parent(s)] = data[s] /\ InOrder(s, k)
      BY <1>1, <1>2, <2>1, <2>2, <2>4, <3>1
    <3> QED
      BY <1>6, <3>2 DEF InOrder, parent
  <2>5. i' = s /\ at' = "down"
    BY <1>1, <1>4, <1>6
  <2>6. \A k \in 1..(n' - 1) : InOrder(parent(k), k)' \/ parent(k) = i'
    BY <2>2, <2>3, <2>5
  <2>7. \A k \in 1..(n' - 1) : parent(k) = i' => InOrder(parent(i), k)'
    BY <2>2, <2>4, <2>5 DEF parent
  <2> QED
    BY <2>5, <2>6, <2>7 DEF HeapButOne, parent
<1>7. CASE smallest = i /\ at' = "idle" /\ i' = 0
           /\ UNCHANGED <<compare, data, capacity, top>>
  <2>1. ASSUME NEW k \in 1..(n - 1) PROVE InOrder(parent(k), k)
    <3>1. CASE parent(k) = i
      BY <1>1, <1>3, <1>4, <1>5, <1>7, <3>1
    <3> QED
      BY <1>2, <3>1
  <2> QED
    BY <1>7, <2>1 DEF HeapButOne, InOrder, parent, n, array_size
<1> QED
  BY <1>6, <1>7 DEF SiftDown

\* What holds of the heap between and during the operations.
HeapInv == Compared /\ HeapButOne

LEMMA HeapInit0 ==
  ASSUME AgesFit, Init
  PROVE  HeapInv
<1>1. n = 0 /\ compare \in Comparisons /\ at = "idle" /\ i = 0
  <2>1. data = [k \in 0..(-1) |-> NOTHING]
    BY DEF Init, HeapInit, Empty
  <2>2. DOMAIN data = 0..(0 - 1)
    BY <2>1
  <2> QED
    BY <2>2, SizeOf DEF n, array_size, Init, HeapInit
<1>2. Compared
  BY <1>1, ComparesOrder DEF Compared
<1>3. HeapButOne
  BY <1>1 DEF HeapButOne
<1> QED
  BY <1>2, <1>3 DEF HeapInv

LEMMA HeapStep ==
  ASSUME IInv, HeapInv, [Next]_vars
  PROVE  HeapInv'
<1>1. HeapTypeOK /\ Compared /\ HeapButOne
  BY DEF IInv, HeapInv
<1>2. CASE UNCHANGED heap
  BY <1>1, <1>2 DEF HeapInv, Compared, HeapButOne, InOrder, parent, heap, n, array_size
<1>3. CASE \E p \in Patient : array_append(p)
  <2>1. HeapButOne' /\ UNCHANGED compare
    BY <1>1, <1>3, AppendOrder, QueueOfPatients DEF array_append
  <2> QED
    BY <1>1, <2>1 DEF HeapInv, Compared
<1>4. CASE heap_pop
  <2>1. HeapButOne' /\ UNCHANGED compare
    BY <1>1, <1>4, PopOrder DEF heap_pop
  <2> QED
    BY <1>1, <2>1 DEF HeapInv, Compared
<1>5. CASE prioq_cleanup
  <2>1. n' = 0 /\ at' = "idle" /\ UNCHANGED compare
    BY <1>1, <1>5, CleanupStep DEF prioq_cleanup
  <2>2. HeapButOne'
    BY <2>1 DEF HeapButOne
  <2> QED
    BY <1>1, <2>1, <2>2 DEF HeapInv, Compared
<1>6. CASE SiftUp \/ SiftDown
  <2>1. HeapButOne' /\ UNCHANGED compare
    BY <1>1, <1>6, UpOrder, DownOrder DEF SiftUp, SiftDown
  <2> QED
    BY <1>1, <2>1 DEF HeapInv, Compared
<1>7. CASE Next
  <2>1. CASE \E p \in Patient : Admit(p)
    BY <2>1, <1>3 DEF Admit
  <2>2. CASE Lose
    BY <2>2, <1>2 DEF Lose, append_fails
  <2>3. CASE Fail
    BY <2>3, <1>5 DEF Fail
  <2>4. CASE Dot
    BY <2>4, <1>2, <1>4 DEF Dot, Serve
  <2>5. CASE Drain
    BY <2>5, <1>4, <1>5 DEF Drain, Serve
  <2>6. CASE Loops
    BY <2>6, <1>6 DEF Loops
  <2> QED
    BY <1>7, <2>1, <2>2, <2>3, <2>4, <2>5, <2>6 DEF Next
<1> QED
  BY <1>2, <1>7 DEF vars

LEMMA HeapInvariance == ASSUME AgesFit PROVE Spec => [](IInv /\ HeapInv)
<1>1. Init => HeapInv
  BY HeapInit0
<1>2. IInv /\ HeapInv /\ [Next]_vars => HeapInv'
  BY HeapStep
<1> QED
  BY <1>1, <1>2, Invariance, PTL DEF Spec

LEMMA IdleInOrder ==
  ASSUME IInv, HeapInv, at = "idle"
  PROVE  \A k \in 1..(n - 1) : InOrder(parent(k), k)
BY DEF HeapInv, HeapButOne

\* Whatever the capacity, the order and the number of patients: when a queue
\* operation is over no patient comes before the parent.  The differences of
\* ages must not overflow; without it the "order" by age is none.
THEOREM HeapInOrder == ASSUME AgesFit PROVE Spec => []HeapOrder
<1>1. IInv /\ HeapInv => HeapOrder
  <2> SUFFICES ASSUME IInv, HeapInv, at = "idle", NEW k \in DOMAIN data \ {0}
               PROVE  compare[<<data[parent(k)], data[k]>>] <= 0
    BY DEF HeapOrder
  <2>1. k \in 1..(n - 1)
    BY DEF IInv, HeapTypeOK
  <2> QED
    BY <2>1, IdleInOrder DEF InOrder
<1> QED
  BY <1>1, HeapInvariance, PTL

-----------------------------------------------------------------------------
(* The root of a heap in order comes first *)

LEMMA LeastElement ==
  ASSUME NEW T \in SUBSET Nat, T # {}
  PROVE  \E m \in T : \A k \in T : m <= k
<1> DEFINE U == {0..t : t \in T}
<1>1. IsWellFoundedOn(StrictSubsetOrdering(Nat), FiniteSubsetsOf(Nat))
  BY FS_StrictSubsetOrderingWellFounded
<1>2. U \subseteq FiniteSubsetsOf(Nat) /\ U # {}
  <2>1. \A t \in T : 0..t \in SUBSET Nat /\ IsFiniteSet(0..t)
    BY FS_Interval
  <2> QED
    BY <2>1 DEF FiniteSubsetsOf
<1> HIDE DEF U
<1>3. PICK u \in U : \A v \in U : <<v, u>> \notin StrictSubsetOrdering(Nat)
  BY <1>1, <1>2, WFMin
<1>4. PICK m \in T : u = 0..m
  BY <1>3 DEF U
<1>5. ASSUME NEW k \in T, k < m PROVE FALSE
  <2>1. 0..k \in U
    BY DEF U
  <2>2. <<0..k, u>> \in StrictSubsetOrdering(Nat)
    BY <1>4, <1>5 DEF StrictSubsetOrdering
  <2> QED
    BY <1>3, <2>1, <2>2
<1> QED
  BY <1>5

\* By induction on the index: the least one at which the root does not come
\* first has a parent that the root comes before.
LEMMA RootFirst ==
  ASSUME HeapTypeOK, Compared, \A k \in 1..(n - 1) : InOrder(parent(k), k),
         NEW j \in 0..(n - 1)
  PROVE  InOrder(0, j)
<1> DEFINE T == {k \in 0..(n - 1) : ~InOrder(0, k)}
<1>0. n \in Nat /\ n > 0
  BY DEF HeapTypeOK
<1>1. SUFFICES ASSUME T # {} PROVE FALSE
  OBVIOUS
<1>2. PICK m \in T : \A k \in T : m <= k
  <2>1. T \in SUBSET Nat
    BY <1>0
  <2> QED
    BY <1>1, <2>1, LeastElement
<1>3. m \in 0..(n - 1) /\ ~InOrder(0, m)
  OBVIOUS
<1>4. m # 0
  <2>1. InOrder(0, 0)
    <3>1. 0 \in 0..(n - 1)
      BY <1>0
    <3>2. ~InOrder(0, 0) => InOrder(0, 0)
      BY ONLY <3>1, HeapTypeOK, Compared, CompareFacts
    <3> QED
      BY <3>2
  <2> QED
    BY <1>3, <2>1
<1>5. parent(m) \in 0..(m - 1) /\ InOrder(parent(m), m)
  BY <1>0, <1>3, <1>4, ParentOf
<1>6. InOrder(0, parent(m))
  BY <1>0, <1>2, <1>3, <1>5
<1>7. InOrder(0, m)
  BY <1>0, <1>3, <1>5, <1>6, OrderFacts
<1> QED
  BY <1>3, <1>7

-----------------------------------------------------------------------------
(* The bag of elements *)

Indices(d, e) == {k \in DOMAIN d : d[k] = e}

LEMMA IndicesFinite ==
  ASSUME NEW m \in Nat, NEW d, DOMAIN d = 0..(m - 1), NEW e
  PROVE  IsFiniteSet(Indices(d, e)) /\ Cardinality(Indices(d, e)) \in Nat
<1>1. IsFiniteSet(0..(m - 1))
  BY FS_Interval
<1>2. Indices(d, e) \subseteq 0..(m - 1)
  BY DEF Indices
<1> QED
  BY <1>1, <1>2, FS_Subset, FS_CardinalityType

\* c is d with two elements exchanged.
Exchanged(c, d, j, k) ==
    /\ DOMAIN c = DOMAIN d
    /\ \A x \in DOMAIN d :
          c[x] = IF x = k THEN d[j] ELSE IF x = j THEN d[k] ELSE d[x]

\* A swap maps the places of an element one to one to its new places.
LEMMA SwapKeeps ==
  ASSUME NEW m \in Nat, NEW d, DOMAIN d = 0..(m - 1), NEW e, NEW c,
         NEW j \in 0..(m - 1), NEW k \in 0..(m - 1), Exchanged(c, d, j, k)
  PROVE  Cardinality(Indices(c, e)) = Cardinality(Indices(d, e))
<1> DEFINE f == [x \in Indices(d, e) |-> IF x = j THEN k ELSE IF x = k THEN j ELSE x]
<1>1. f \in Bijection(Indices(d, e), Indices(c, e))
  <2>1. f \in [Indices(d, e) -> Indices(c, e)]
    BY DEF Indices, Exchanged
  <2>2. \A x, y \in Indices(d, e) : f[x] = f[y] => x = y
    OBVIOUS
  <2>3. \A y \in Indices(c, e) : \E x \in Indices(d, e) : f[x] = y
    <3> TAKE y \in Indices(c, e)
    <3> DEFINE x == IF y = j THEN k ELSE IF y = k THEN j ELSE y
    <3>1. x \in Indices(d, e)
      BY DEF Indices, Exchanged
    <3> QED
      BY <3>1
  <2> QED
    BY <2>1, <2>2, <2>3, Fun_IsBij
<1>0. DOMAIN c = 0..(m - 1)
  BY DEF Exchanged
<1>2. ExistsBijection(Indices(d, e), Indices(c, e))
  BY <1>1 DEF ExistsBijection
<1> QED
  BY <1>0, <1>2, IndicesFinite, FS_Bijection

\* An element that is appended, or the last one dropped.
LEMMA LastCounts ==
  ASSUME NEW m \in Nat, NEW d, DOMAIN d = 0..m, NEW e,
         NEW c, DOMAIN c = 0..(m - 1), \A k \in 0..(m - 1) : c[k] = d[k]
  PROVE  Cardinality(Indices(d, e)) =
            Cardinality(Indices(c, e)) + (IF d[m] = e THEN 1 ELSE 0)
<1>1. IsFiniteSet(Indices(c, e)) /\ Cardinality(Indices(c, e)) \in Nat
  BY IndicesFinite
<1>2. CASE d[m] = e
  <2>1. Indices(d, e) = Indices(c, e) \cup {m} /\ m \notin Indices(c, e)
    BY <1>2 DEF Indices
  <2> QED
    BY <1>1, <1>2, <2>1, FS_AddElement
<1>3. CASE d[m] # e
  <2>1. Indices(d, e) = Indices(c, e)
    BY <1>3 DEF Indices
  <2> QED
    BY <1>1, <1>3, <2>1
<1> QED
  BY <1>2, <1>3

-----------------------------------------------------------------------------
(* The heap implements the priority queue *)

LEMMA WaitingIs ==
  /\ waiting = [e \in Element |-> Cardinality(Indices(data, e))]
  /\ waiting' = [e \in Element |-> Cardinality(Indices(data', e))]
BY DEF waiting, Indices

LEMMA AbstractInsert ==
  ASSUME HeapTypeOK, NEW e \in Element, array_append(e)
  PROVE  P!Insert(e)
<1>1. n \in Nat /\ DOMAIN data = 0..(n - 1)
      /\ data' = [k \in 0..n |-> IF k = n THEN e ELSE data[k]]
  BY DEF HeapTypeOK, array_append, Appended, n
<1>2. /\ DOMAIN data' = 0..n /\ data'[n] = e
      /\ \A k \in 0..(n - 1) : data[k] = data'[k]
  BY <1>1
<1>3. \A x \in Element :
         Cardinality(Indices(data', x)) =
            Cardinality(Indices(data, x)) + (IF data'[n] = x THEN 1 ELSE 0)
  BY <1>1, <1>2, LastCounts
<1>4. \A x \in Element : Cardinality(Indices(data, x)) \in Nat
  BY <1>1, IndicesFinite
<1>5. waiting' = [waiting EXCEPT ![e] = @ + 1]
  BY <1>2, <1>3, <1>4, WaitingIs
<1>6. UNCHANGED <<compare, top>>
  BY DEF array_append
<1> QED
  BY <1>5, <1>6 DEF P!Insert

\* A pop takes the root: swapped with the last element, which is then dropped.
LEMMA AbstractPop ==
  ASSUME IInv, HeapInv, heap_pop
  PROVE  P!Pop(data[0])
<1>1. /\ HeapTypeOK /\ Compared /\ n \in Nat /\ n > 0 /\ at = "idle"
      /\ HeapTypeOK' /\ n' = n - 1 /\ top' = data[0]
      /\ \A k \in 0..(n - 2) : data'[k] = IF k = 0 THEN data[n - 1] ELSE data[k]
  BY PopStep DEF IInv, HeapInv, HeapTypeOK
<1>2. /\ DOMAIN data = 0..(n - 1) /\ data[0] \in Element
      /\ DOMAIN data' = 0..((n - 1) - 1)
  BY <1>1 DEF HeapTypeOK
<1>3. PICK c : c = [k \in 0..(n - 1) |-> IF k = n - 1 THEN data[0]
                                         ELSE IF k = 0 THEN data[n - 1] ELSE data[k]]
  OBVIOUS
<1>4. ASSUME NEW x \in Element
      PROVE  /\ Cardinality(Indices(data, x)) =
                   Cardinality(Indices(data', x)) + (IF data[0] = x THEN 1 ELSE 0)
             /\ Cardinality(Indices(data', x)) \in Nat
  <2>1. Cardinality(Indices(c, x)) = Cardinality(Indices(data, x))
    <3>1. /\ 0 \in 0..(n - 1) /\ n - 1 \in 0..(n - 1)
          /\ Exchanged(c, data, 0, n - 1)
      BY <1>1, <1>2, <1>3 DEF Exchanged
    <3> QED
      BY <1>1, <1>2, <3>1, SwapKeeps
  <2>2. Cardinality(Indices(c, x)) =
           Cardinality(Indices(data', x)) + (IF c[n - 1] = x THEN 1 ELSE 0)
    <3>1. /\ n - 1 \in Nat /\ DOMAIN c = 0..(n - 1)
          /\ \A k \in 0..((n - 1) - 1) : data'[k] = c[k]
      BY <1>1, <1>3
    <3> QED
      BY <1>2, <3>1, LastCounts
  <2>3. c[n - 1] = data[0]
    BY <1>1, <1>3
  <2>4. Cardinality(Indices(data', x)) \in Nat
    BY <1>1, <1>2, IndicesFinite
  <2> QED
    BY <2>1, <2>2, <2>3, <2>4
<1>5. waiting' = [waiting EXCEPT ![data[0]] = @ - 1] /\ waiting[data[0]] > 0
  BY <1>2, <1>4, WaitingIs
<1>6. ASSUME NEW x \in Element, waiting[x] > 0
      PROVE  compare[<<data[0], x>>] <= 0
  <2>1. Cardinality(Indices(data, x)) > 0
    BY <1>6, WaitingIs
  <2>2. Indices(data, x) # {}
    BY <2>1, FS_EmptySet
  <2>3. PICK k \in 0..(n - 1) : data[k] = x
    BY <1>2, <2>2 DEF Indices
  <2>4. InOrder(0, k)
    BY <1>1, IdleInOrder, RootFirst
  <2> QED
    BY <2>3, <2>4 DEF InOrder
<1>7. UNCHANGED compare
  BY DEF heap_pop
<1> QED
  BY <1>1, <1>5, <1>6, <1>7 DEF P!Pop

LEMMA AbstractCleanup ==
  ASSUME HeapTypeOK, prioq_cleanup
  PROVE  P!Cleanup
<1>1. data' = [k \in 0..(-1) |-> NOTHING]
  BY DEF prioq_cleanup, Empty
<1>2. \A x \in Element : Indices(data', x) = {}
  BY <1>1 DEF Indices
<1>3. waiting' = [x \in Element |-> 0]
  BY <1>2, WaitingIs, FS_EmptySet
<1> QED
  BY <1>3 DEF P!Cleanup, prioq_cleanup

LEMMA AbstractLoop ==
  ASSUME HeapTypeOK, SiftUp \/ SiftDown
  PROVE  UNCHANGED <<compare, waiting, top>>
<1>1. /\ n \in Nat /\ at # "idle" /\ i \in 0..(n - 1)
      /\ UNCHANGED <<compare, top>> /\ DOMAIN data = 0..(n - 1)
  BY DEF HeapTypeOK, SiftUp, SiftDown
<1>2. ASSUME NEW j \in 0..(n - 1), NEW k \in 0..(n - 1), data' = Swapped(j, k)
      PROVE  UNCHANGED waiting
  <2>1. Exchanged(data', data, j, k)
    BY <1>1, <1>2, SwapStep DEF Exchanged
  <2>2. \A x \in Element :
           Cardinality(Indices(data', x)) = Cardinality(Indices(data, x))
    BY <1>1, <2>1, SwapKeeps
  <2> QED
    BY <2>2, WaitingIs
<1>3. CASE UNCHANGED data
  BY <1>1, <1>3 DEF waiting
<1>4. CASE at = "up" /\ rises /\ data' = Swapped(parent(i), i)
  <2>1. parent(i) \in 0..(n - 1)
    BY <1>1, <1>4, ParentOf DEF rises
  <2> QED
    BY <1>1, <1>2, <1>4, <2>1
<1>5. CASE at = "down" /\ data' = Swapped(i, smallest)
  BY <1>1, <1>2, <1>5, SmallestIsChild
<1> QED
  BY <1>3, <1>4, <1>5 DEF SiftUp, SiftDown

LEMMA AbstractInit == ASSUME Init PROVE P!Init
<1>1. data = [k \in 0..(-1) |-> NOTHING]
  BY DEF Init, HeapInit, Empty
<1>2. \A x \in Element : Indices(data, x) = {}
  BY <1>1 DEF Indices
<1>3. waiting = [x \in Element |-> 0]
  BY <1>2, WaitingIs, FS_EmptySet
<1> QED
  BY <1>3, HeapAssumption DEF P!Init, Init, HeapInit

LEMMA AbstractStep ==
  ASSUME IInv, HeapInv, [Next]_vars
  PROVE  [P!Next]_<<compare, waiting, top>>
<1>1. HeapTypeOK
  BY DEF IInv
<1>2. CASE UNCHANGED heap
  BY <1>2 DEF heap, waiting
<1>3. CASE heap_pop
  <2>1. data[0] \in Element
    BY <1>1, <1>3, PopStep DEF HeapTypeOK
  <2> QED
    BY <1>3, <2>1, AbstractPop DEF P!Next
<1>4. CASE prioq_cleanup
  BY <1>1, <1>4, AbstractCleanup DEF P!Next
<1>5. CASE Next
  <2>1. ASSUME NEW p \in Patient, Admit(p) PROVE P!Next
    BY <1>1, <2>1, AbstractInsert, QueueOfPatients DEF Admit, P!Next
  <2>2. CASE Lose
    BY <2>2, <1>2 DEF Lose, append_fails
  <2>3. CASE Fail
    BY <2>3, <1>4 DEF Fail
  <2>4. CASE Dot
    BY <2>4, <1>2, <1>3 DEF Dot, Serve
  <2>5. CASE Drain
    BY <2>5, <1>3, <1>4 DEF Drain, Serve
  <2>6. CASE Loops
    BY <2>6, <1>1, AbstractLoop DEF Loops
  <2> QED
    BY <1>5, <2>1, <2>2, <2>3, <2>4, <2>5, <2>6 DEF Next
<1> QED
  BY <1>2, <1>5 DEF vars

\* The heap in its growing array is a priority queue, for every capacity and
\* any number of patients: no step loses or duplicates one, and a pop takes one
\* that no other that waits comes before (prioq_pop), as long as no difference
\* of ages overflows.
THEOREM HeapImplementsPriorityQueue ==
  ASSUME AgesFit PROVE Spec => ImplementsPriorityQueue
<1>1. Init => P!Init
  BY AbstractInit
<1>2. IInv /\ HeapInv /\ [Next]_vars => [P!Next]_<<compare, waiting, top>>
  BY AbstractStep
<1> QED
  BY <1>1, <1>2, HeapInvariance, PTL DEF Spec, ImplementsPriorityQueue, P!Spec
=============================================================================
