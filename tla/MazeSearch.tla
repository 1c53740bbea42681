----------------------------- MODULE MazeSearch -----------------------------
(***************************************************************************)
(* What maze_solver_bfs.c and maze_solver_dfs.c have in common: the state   *)
(* of a solve, the step that examines one neighbour, and the walk back from *)
(* the destination.  The two programs differ in the frontier alone, which   *)
(* BfsSolver and DfsSolver add.                                             *)
(* Abstracted: visitarray[r][c] is kept under the index of (r, c); the      *)
(* addresses; what main prints.                                             *)
(***************************************************************************)
EXTENDS Maze, FiniteSets

CONSTANTS
    STACK_SIZE,   \* capacity the solver asks for its queue or stack
    UNINIT,       \* an int of the visitarray that was never written
    GARBAGE,      \* bound: what reading one may give; -1 stands for every int
                  \* that is no index
    MAX_LENGTH    \* bound: backtrack is not followed beyond this length

ASSUME SearchAssumption ==
    /\ STACK_SIZE \in Nat \ {0}
    /\ UNINIT \notin Int
    /\ GARBAGE \subseteq Indices \cup {-1}
    /\ MAX_LENGTH \in Nat

VARIABLES
    pc,            \* where the solver is
    maze,          \* m->data
    start_index,
    finish_index,
    visitarray,    \* the index from which a position was last pushed
    current_index,
    i,             \* the direction examined next, 0..3
    array_index,   \* backtrack's position
    lengte,        \* backtrack's length
    outcome,       \* what the solve returned
    heap           \* blocks held: "frontier", "visitarray" and its "rows"

input == <<start_index, finish_index>>
search == <<visitarray, current_index, i>>
walk == <<array_index, lengte>>
searchVars == <<pc, maze, input, search, walk, outcome, heap>>

dest_index == round_trip(finish_index)

SearchInit ==
    /\ \E z \in Mazes :
          /\ maze = z.data
          /\ start_index = z.start_index
          /\ finish_index = z.finish_index
    /\ pc = "frontier_init"
    /\ visitarray = [x \in Indices |-> UNINIT]
    /\ current_index = 0
    /\ i = 0
    /\ array_index = 0
    /\ lengte = 0
    /\ outcome = "none"
    /\ heap = {}

Return(value) ==
    /\ pc' = "done"
    /\ outcome' = value

\* The frontier's init returned NULL.
NoFrontier ==
    /\ pc = "frontier_init"
    /\ Return("ERROR")
    /\ UNCHANGED <<maze, input, search, walk, heap>>

HaveFrontier ==
    /\ pc = "frontier_init"
    /\ pc' = "create_visitarray"
    /\ heap' = heap \cup {"frontier"}
    /\ UNCHANGED <<maze, input, search, walk, outcome>>

\* create_visitarray: the array of rows and then the rows.  A row that cannot
\* be had makes it free the array but not the rows before it, and the solver
\* returns without its frontier being cleaned up.
create_visitarray ==
    /\ pc = "create_visitarray"
    /\ \/ /\ heap' = heap \cup {"visitarray", "rows"}
          /\ pc' = "push_start"
          /\ UNCHANGED outcome
       \/ UNCHANGED heap /\ Return("ERROR")
       \/ N > 1 /\ heap' = heap \cup {"rows"} /\ Return("ERROR")
    /\ UNCHANGED <<maze, input, search, walk>>

\* The start was handed to the frontier.
StartPushed ==
    /\ pc = "push_start"
    /\ pc' = "loop"
    /\ UNCHANGED <<maze, input, search, walk, outcome, heap>>

\* free_visitarray and the cleanup of the frontier.
FreeAll == heap' = heap \ {"frontier", "visitarray", "rows"}

\* The frontier gave `index`.
Popped(index) ==
    /\ pc = "loop"
    /\ current_index' = index
    /\ i' = 0
    /\ pc' = IF index = dest_index THEN "found" ELSE "examine"
    /\ UNCHANGED <<maze, input, visitarray, walk, outcome, heap>>

\* The frontier is empty.
NotFound ==
    /\ pc = "loop"
    /\ Return("NOT_FOUND")
    /\ FreeAll
    /\ UNCHANGED <<maze, input, search, walk>>

\* An assertion of maze_get or maze_set fails.
AssertionFails ==
    /\ Return("assert")
    /\ UNCHANGED <<maze, input, search, walk, heap>>

new_index == step(current_index, i)

\* maze_set on the current position and maze_get on its neighbour.
ExamineInRange ==
    /\ in_range(maze_row(current_index), maze_col(current_index))
    /\ in_range(step_row(current_index, i), step_col(current_index, i))

\* Mutant: a visited neighbour is pushed again.
Fresh_revisits ==
    /\ maze[new_index] # WALL
    /\ maze_valid_move(step_row(current_index, i), step_col(current_index, i))

\* Mutant: the border is not kept out.
Fresh_border ==
    /\ maze[new_index] # WALL
    /\ maze[new_index] # VISITED

\* The neighbour in direction i is to be pushed.
Fresh ==
    /\ maze[new_index] # WALL
    /\ maze[new_index] # VISITED
    /\ maze_valid_move(step_row(current_index, i), step_col(current_index, i))

\* Mutant: the last direction is never tried.
NextDirection_three ==
    /\ i' = i + 1
    /\ pc' = IF i + 1 < N_MOVES - 1 THEN "examine" ELSE "loop"

NextDirection ==
    /\ i' = i + 1
    /\ pc' = IF i + 1 < N_MOVES THEN "examine" ELSE "loop"

\* One round of the for loop, but for the push itself.
ExamineFails ==
    /\ pc = "examine"
    /\ ~ExamineInRange
    /\ AssertionFails

ExamineSkips ==
    /\ pc = "examine"
    /\ ExamineInRange
    /\ ~Fresh
    /\ maze' = [maze EXCEPT ![current_index] = VISITED]
    /\ NextDirection
    /\ UNCHANGED <<input, visitarray, current_index, walk, outcome, heap>>

\* Mutant: a neighbour is marked as visited when it is pushed.
pushed_mark_visited == VISITED

pushed_mark == TO_VISIT

ExaminePushes ==
    /\ pc = "examine"
    /\ ExamineInRange
    /\ Fresh
    /\ maze' = [maze EXCEPT ![current_index] = VISITED,
                            ![new_index] = pushed_mark]
    /\ visitarray' = [visitarray EXCEPT ![new_index] = current_index]
    /\ NextDirection
    /\ UNCHANGED <<input, current_index, walk, outcome, heap>>

\* What reading an entry of the visitarray gives; an entry never written may
\* be different at every read.
Read(x) == IF visitarray[x] = UNINIT THEN GARBAGE ELSE {visitarray[x]}

\* Mutant: the length starts at 0.
start_length_zero == 0

start_length == 1

\* backtrack up to its loop.
BacktrackStart ==
    /\ pc = "found"
    /\ array_index' \in Read(dest_index)
    /\ maze' = [maze EXCEPT ![dest_index] = PATH]
    /\ lengte' = start_length
    /\ pc' = "backtrack"
    /\ UNCHANGED <<input, search, outcome, heap>>

\* One round of backtrack's loop.
BacktrackStep ==
    LET x == round_trip(array_index)
    IN  /\ pc = "backtrack"
        /\ x # start_index
        /\ \/ /\ ~in_range(maze_row(array_index), maze_col(array_index))
              /\ AssertionFails
           \/ /\ in_range(maze_row(array_index), maze_col(array_index))
              /\ lengte < MAX_LENGTH
              /\ maze' = [maze EXCEPT ![x] = PATH]
              /\ array_index' \in Read(x)
              /\ lengte' = lengte + 1
              /\ UNCHANGED <<pc, input, search, outcome, heap>>

\* backtrack reaches the start; the solver frees everything and returns lengte.
BacktrackEnd ==
    /\ pc = "backtrack"
    /\ round_trip(array_index) = start_index
    /\ Return("length")
    /\ FreeAll
    /\ UNCHANGED <<maze, input, search, walk>>

-----------------------------------------------------------------------------
(* Properties that both solvers are to have. *)

SearchTypeOK ==
    /\ pc \in {"frontier_init", "create_visitarray", "push_start", "loop",
               "examine", "found", "backtrack", "done"}
    /\ maze \in [Indices -> Marks]
    /\ start_index \in Int
    /\ finish_index \in Int
    /\ visitarray \in [Indices -> Indices \cup {UNINIT}]
    /\ current_index \in Int
    /\ i \in 0..N_MOVES
    /\ array_index \in Indices \cup {-1}
    /\ lengte \in Nat
    /\ outcome \in {"none", "length", "NOT_FOUND", "ERROR", "assert"}
    /\ heap \subseteq {"frontier", "visitarray", "rows"}

Walls == {x \in Indices : maze[x] = WALL}
Path == {x \in Indices : maze[x] = PATH}
Tree == {x \in Indices : visitarray[x] # UNINIT}

\* The visitarray is a tree rooted at the start although entries are
\* overwritten while a position waits: each entry names a position one move
\* away that was visited before, and no set of positions refers only to itself.
VisitTree ==
    /\ start_index \notin Tree
    /\ \A x \in Tree :
          /\ visitarray[x] \in Tree \cup {start_index}
          /\ maze[visitarray[x]] \in {VISITED, PATH}
          /\ Move(Walls, visitarray[x], x)
    /\ \A S \in SUBSET Tree :
          S # {} => \E x \in S : visitarray[x] \notin S

\* backtrack walks that tree: it never reads an entry that was not written,
\* never comes back to a position it marked, and counts each position once.
BacktrackCounts ==
    /\ pc = "found" => dest_index \in Tree /\ Path = {}
    /\ pc = "backtrack" =>
          /\ array_index \in (Tree \cup {start_index}) \ Path
          /\ lengte = Cardinality(Path)

\* A length that is returned is the length of the path left marked in the maze:
\* a chain of single moves over distinct positions from the destination to the
\* neighbour of the start.
LengthIsPath ==
    outcome = "length" =>
        /\ lengte = Cardinality(Path)
        /\ finish_index \in Path
        /\ start_index \notin Path
        /\ \A x \in Path :
              \E y \in Path \cup {start_index} :
                 y = visitarray[x] /\ Move(Walls, y, x)
        /\ \E x \in Path : visitarray[x] = start_index

\* An assertion of maze.c fails only if the text marks a start on the border,
\* or if the start is the destination: otherwise no position outside the grid
\* is ever asked for, although maze_get is called before maze_valid_move.
NoAssertion ==
    outcome = "assert" => \/ start_index \notin Indices
                          \/ ~Inside(start_index)
                          \/ start_index = finish_index

\* A solve that returned an answer left nothing on the heap.
FreedOnReturn == outcome \in {"length", "NOT_FOUND"} => heap = {}

\* A destination reported as not found cannot be reached: the positions that
\* were visited hold the start and not the destination, and no move leaves them.
NotFoundIsRight ==
    outcome = "NOT_FOUND" =>
        Separates(Walls, {x \in Indices : maze[x] = VISITED}, start_index,
                  finish_index)

\* The length returned is that of a shortest path.
LengthIsShortest ==
    outcome = "length" =>
        AtDistance(Walls \ {start_index}, start_index, finish_index, lengte)
=============================================================================
