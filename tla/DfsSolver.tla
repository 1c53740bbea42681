------------------------------ MODULE DfsSolver ------------------------------
(***************************************************************************)
(* maze_solver_dfs.c: the search of MazeSearch with the growing stack of    *)
(* stack.h as its frontier.                                                 *)
(***************************************************************************)
EXTENDS MazeSearch, Sequences

VARIABLES stack, live, peak, result, aborted  \* the stack's items and the rest

stackVars == <<live, stack, peak, result, aborted>>
vars == <<searchVars, stackVars>>

L == INSTANCE Lifo WITH items <- stack, Item <- Indices

Init == SearchInit /\ L!Init

Begin ==
    \/ NoFrontier /\ UNCHANGED stackVars
    \/ HaveFrontier /\ L!Create
    \/ create_visitarray /\ UNCHANGED stackVars
    \/ StartPushed /\ L!Push(round_trip(start_index))

\* Mutant: the position on top is looked at and stays there.
TakeNext_peeks ==
    \/ stack # <<>> /\ L!Peek /\ Popped(result')
    \/ stack = <<>> /\ NotFound /\ L!Close

\* The head of the while loop.
TakeNext ==
    \/ stack # <<>> /\ L!Pop /\ Popped(result')
    \/ stack = <<>> /\ NotFound /\ L!Close

\* A push beyond the capacity asked for makes the stack grow, which stops the
\* process when memory has run out.
PushCrashes ==
    /\ pc = "examine"
    /\ ExamineInRange
    /\ Fresh
    /\ Len(stack) >= STACK_SIZE
    /\ L!Crash
    /\ UNCHANGED searchVars

\* A round of the for loop.
Examine ==
    \/ ExamineFails /\ UNCHANGED stackVars
    \/ ExamineSkips /\ UNCHANGED stackVars
    \/ ExaminePushes /\ L!Push(new_index)
    \/ PushCrashes

Backtrack ==
    \/ BacktrackStart /\ UNCHANGED stackVars
    \/ BacktrackStep /\ UNCHANGED stackVars
    \/ BacktrackEnd /\ L!Close

Next == ~aborted /\ (Begin \/ TakeNext \/ Examine \/ Backtrack)

Spec == Init /\ [][Next]_vars

-----------------------------------------------------------------------------
(* Properties *)

TypeOK ==
    /\ SearchTypeOK
    /\ stack \in Seq(Int)
    /\ live \in BOOLEAN
    /\ peak \in Nat
    /\ result \in Int
    /\ aborted \in BOOLEAN

\* Nothing is lost: a position that is waiting is on the stack, and every move
\* away from a position that has been dealt with leads to one that is marked.
NothingForgotten ==
    pc = "loop" =>
        /\ \A x \in Indices :
              maze[x] = TO_VISIT => \E k \in 1..Len(stack) : stack[k] = x
        /\ \A x \in Indices, y \in Indices :
              maze[x] = VISITED /\ Move(Walls, x, y) =>
                  maze[y] \in {VISITED, TO_VISIT}
=============================================================================
