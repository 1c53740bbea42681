------------------------------ MODULE BfsSolver ------------------------------
(***************************************************************************)
(* maze_solver_bfs.c: the search of MazeSearch with the bounded queue of    *)
(* queue.h as its frontier.                                                 *)
(***************************************************************************)
EXTENDS MazeSearch, Sequences

VARIABLES queue, capacity, peak, result   \* the queue's items and the rest

queueVars == <<capacity, queue, peak, result>>
vars == <<searchVars, queueVars>>

Q == INSTANCE BoundedFifo
        WITH items <- queue, Item <- Indices, Capacities <- {STACK_SIZE}

Init == SearchInit /\ Q!Init

Begin ==
    \/ NoFrontier /\ UNCHANGED queueVars
    \/ HaveFrontier /\ Q!Create(STACK_SIZE)
    \/ create_visitarray /\ UNCHANGED queueVars
    \/ StartPushed /\ Q!Push(round_trip(start_index))

\* Mutant: the newest position is taken instead of the oldest.
TakeNext_newest ==
    \/ /\ queue # <<>>
       /\ result' = queue[Len(queue)]
       /\ queue' = SubSeq(queue, 1, Len(queue) - 1)
       /\ Popped(result')
       /\ UNCHANGED <<capacity, peak>>
    \/ queue = <<>> /\ NotFound /\ Q!Close

\* The head of the while loop.
TakeNext ==
    \/ queue # <<>> /\ Q!Pop /\ Popped(result')
    \/ queue = <<>> /\ NotFound /\ Q!Close

\* A round of the for loop; what queue_push returns is not looked at.
Examine ==
    \/ ExamineFails /\ UNCHANGED queueVars
    \/ ExamineSkips /\ UNCHANGED queueVars
    \/ ExaminePushes /\ Q!Push(new_index)

Backtrack ==
    \/ BacktrackStart /\ UNCHANGED queueVars
    \/ BacktrackStep /\ UNCHANGED queueVars
    \/ BacktrackEnd /\ Q!Close

Next == Begin \/ TakeNext \/ Examine \/ Backtrack

Spec == Init /\ [][Next]_vars
FairSpec == Spec /\ WF_vars(Next)

-----------------------------------------------------------------------------
(* Properties *)

TypeOK ==
    /\ SearchTypeOK
    /\ queue \in Seq(Int)
    /\ capacity \in {0, STACK_SIZE}
    /\ peak \in 0..STACK_SIZE
    /\ result \in Int
    /\ Len(queue) <= capacity

\* Every solve returns: positions pushed again and again run out, and the walk
\* back reaches the start.
Terminates == <>(pc = "done")
=============================================================================
