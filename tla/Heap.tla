-------------------------------- MODULE Heap --------------------------------
(***************************************************************************)
(* The priority queue of heap.c: a binary heap in the array of array.c.      *)
(* prioq_insert and prioq_pop are split at the iterations of their loops;    *)
(* `at` says where the queue's code stands and `i` is the loop's index.      *)
(* Abstracted: the addresses, and the NULL checks of the array's elements    *)
(* (prioq_insert refuses NULL).                                              *)
(***************************************************************************)
EXTENDS Integers, FiniteSets

CONSTANTS
    Element,      \* what can be inserted
    NOTHING,      \* the null pointer that a pop of an empty queue returns
    Comparisons,  \* the compare functions, as functions of <<x, y>>
    ARRSIZE       \* the initial capacity (20 in the code)

ASSUME HeapAssumption ==
    /\ NOTHING \notin Element
    /\ Comparisons \subseteq [Element \X Element -> Int]
    /\ ARRSIZE \in Nat \ {0}

VARIABLES
    compare,    \* h->compare
    data,       \* the elements of the array, 0 .. size - 1
    capacity,   \* the room of the array
    at,         \* "idle", "up" or "down"
    i,          \* the index of the loop
    top         \* what the last pop took

heap == <<compare, data, capacity, at, i, top>>

array_size == Cardinality(DOMAIN data)
Empty == [k \in 0..(-1) |-> NOTHING]

HeapInit ==
    /\ compare \in Comparisons
    /\ data = Empty
    /\ capacity = ARRSIZE
    /\ at = "idle"
    /\ i = 0
    /\ top = NOTHING

\* The array with e at its end, and without its last element.
Appended(e) == [k \in 0..array_size |-> IF k = array_size THEN e ELSE data[k]]
Popped == [k \in 0..(array_size - 2) |-> data[k]]
Swapped(j, k) == [data EXCEPT ![j] = data[k], ![k] = data[j]]

\* heap_insert up to its loop.  When the array is full and realloc fails the
\* element is not inserted; prioq_insert returns 0 all the same.
array_append(e) ==
    /\ at = "idle"
    /\ data' = Appended(e)
    /\ capacity' = IF array_size = capacity THEN (capacity + 1) * 2 ELSE capacity
    /\ at' = "up"
    /\ i' = array_size
    /\ UNCHANGED <<compare, top>>

append_fails ==
    /\ at = "idle"
    /\ array_size = capacity
    /\ UNCHANGED heap

parent(k) == (k - 1) \div 2

\* Mutant: the element rises once.
rises_once ==
    i = array_size - 1 /\ i > 0 /\ compare[<<data[i], data[parent(i)]>>] < 0

\* The loop of heap_insert goes on: the element comes before its parent.
rises == i > 0 /\ compare[<<data[i], data[parent(i)]>>] < 0

\* An iteration of the loop of heap_insert.
SiftUp ==
    /\ at = "up"
    /\ \/ /\ rises
          /\ data' = Swapped(parent(i), i)
          /\ i' = parent(i)
          /\ UNCHANGED <<compare, capacity, at, top>>
       \/ /\ ~rises
          /\ at' = "idle"
          /\ i' = 0
          /\ UNCHANGED <<compare, data, capacity, top>>

\* heap_pop up to its loop.
heap_pop ==
    /\ at = "idle"
    /\ array_size > 0
    /\ top' = data[0]
    /\ data' = IF array_size = 1 THEN Empty
               ELSE [Popped EXCEPT ![0] = data[array_size - 1]]
    /\ at' = IF array_size = 1 THEN "idle" ELSE "down"
    /\ i' = 0
    /\ UNCHANGED <<compare, capacity>>

left == 2 * i + 1
right == 2 * i + 2

\* Mutant: the left child is taken only when it is the last.
smaller_last ==
    IF left = array_size - 1 /\ compare[<<data[i], data[left]>>] > 0 THEN left ELSE i

\* The smaller of the node and its left child, and the child that an iteration
\* of the loop of heap_pop swaps with, or i.
smaller == IF left < array_size /\ compare[<<data[i], data[left]>>] > 0 THEN left ELSE i
smallest ==
    IF right < array_size /\ compare[<<data[right], data[smaller]>>] < 0
    THEN right ELSE smaller

\* An iteration of the loop of heap_pop.
SiftDown ==
    /\ at = "down"
    /\ \/ /\ smallest # i
          /\ data' = Swapped(i, smallest)
          /\ i' = smallest
          /\ UNCHANGED <<compare, capacity, at, top>>
       \/ /\ smallest = i
          /\ at' = "idle"
          /\ i' = 0
          /\ UNCHANGED <<compare, data, capacity, top>>

\* prioq_cleanup: the array and the heap are freed.
prioq_cleanup ==
    /\ at = "idle"
    /\ data' = Empty
    /\ UNCHANGED <<compare, capacity, at, i, top>>

-----------------------------------------------------------------------------
(* Properties *)

\* Between two operations no element comes before its parent: the loops that
\* stop at the first pair in order repair the whole heap (heap_insert's against
\* the parent only, heap_pop's against the smaller child).
HeapOrder ==
    at = "idle" =>
        \A k \in DOMAIN data \ {0} : compare[<<data[parent(k)], data[k]>>] <= 0

waiting == [e \in Element |-> Cardinality({k \in DOMAIN data : data[k] = e})]

P == INSTANCE PriorityQueue

\* The heap is a priority queue: whatever the order of insertions and pops, a
\* pop takes an element that no waiting one comes before, and none is lost.
ImplementsPriorityQueue == P!Spec
=============================================================================
