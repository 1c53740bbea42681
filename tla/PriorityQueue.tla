---------------------------- MODULE PriorityQueue ----------------------------
(***************************************************************************)
(* What prioq.h promises: a bag of elements, and a pop that takes one that   *)
(* no other element of the bag comes before.                                 *)
(***************************************************************************)
EXTENDS Integers

CONSTANT Element

VARIABLES compare,   \* what the queue was created with: <<x, y>> |-> an int
          waiting,   \* how often each element is in the queue
          top        \* the element popped last

Init ==
    /\ compare \in [Element \X Element -> Int]
    /\ waiting = [e \in Element |-> 0]
    /\ top \notin Element

Insert(e) ==
    /\ waiting' = [waiting EXCEPT ![e] = @ + 1]
    /\ UNCHANGED <<compare, top>>

Pop(e) ==
    /\ waiting[e] > 0
    /\ \A x \in Element : waiting[x] > 0 => compare[<<e, x>>] <= 0
    /\ waiting' = [waiting EXCEPT ![e] = @ - 1]
    /\ top' = e
    /\ UNCHANGED compare

\* prioq_cleanup, with the elements that still wait.
Cleanup ==
    /\ waiting' = [e \in Element |-> 0]
    /\ UNCHANGED <<compare, top>>

Next == (\E e \in Element : Insert(e) \/ Pop(e)) \/ Cleanup

Spec == Init /\ [][Next]_<<compare, waiting, top>>
=============================================================================
