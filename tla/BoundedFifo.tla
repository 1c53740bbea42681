----------------------------- MODULE BoundedFifo -----------------------------
(***************************************************************************)
(* What queue.h promises its callers: a first-in first-out queue that holds *)
(* at most `capacity` items and answers every call with a value.           *)
(* capacity = 0 stands for the NULL handle, on which every operation is     *)
(* legal and fails.  The breadth-first solver is composed with this module; *)
(* Queue.tla, the ring buffer of queue.c, implements it.                    *)
(***************************************************************************)
EXTENDS Integers, Sequences

CONSTANTS
    Item,        \* the values a caller stores
    Capacities   \* the capacities a caller asks for

VARIABLES
    capacity,   \* the most items the queue may hold; 0 while there is none
    items,      \* the items held, oldest first
    peak,       \* the most items it ever held, as reported by the statistics
    result      \* what the last call returned

vars == <<capacity, items, peak, result>>

AtLeast(a, b) == IF a >= b THEN a ELSE b

Init ==
    /\ capacity = 0
    /\ items = <<>>
    /\ peak = 0
    /\ result = 0

Create(c) ==
    /\ capacity = 0
    /\ c > 0
    /\ capacity' = c
    /\ items' = <<>>
    /\ peak' = 0
    /\ UNCHANGED result

Push(e) ==
    \/ /\ Len(items) < capacity
       /\ items' = Append(items, e)
       /\ peak' = AtLeast(peak, Len(items) + 1)
       /\ result' = 0
       /\ UNCHANGED capacity
    \/ /\ Len(items) >= capacity
       /\ result' = 1
       /\ UNCHANGED <<capacity, items, peak>>

Pop ==
    \/ /\ items # <<>>
       /\ result' = Head(items)
       /\ items' = Tail(items)
       /\ UNCHANGED <<capacity, peak>>
    \/ /\ items = <<>>
       /\ result' = -1
       /\ UNCHANGED <<capacity, items, peak>>

\* The answer to a peek at an empty queue is left open here: queue.h:27 says -1
\* and the code returns 1.
Peek ==
    /\ \/ items # <<>> /\ result' = Head(items)
       \/ items = <<>> /\ result' \in {-1, 1}
    /\ UNCHANGED <<capacity, items, peak>>

IsEmpty ==
    /\ \/ capacity = 0 /\ result' = -1
       \/ capacity > 0 /\ items = <<>> /\ result' = 1
       \/ capacity > 0 /\ items # <<>> /\ result' = 0
    /\ UNCHANGED <<capacity, items, peak>>

Size ==
    /\ result' = Len(items)
    /\ UNCHANGED <<capacity, items, peak>>

Close ==
    /\ capacity' = 0
    /\ items' = <<>>
    /\ peak' = 0
    /\ UNCHANGED result

Next ==
    \/ \E c \in Capacities : Create(c)
    \/ \E e \in Item : Push(e)
    \/ Pop
    \/ Peek
    \/ IsEmpty
    \/ Size
    \/ Close

Spec == Init /\ [][Next]_vars
=============================================================================
