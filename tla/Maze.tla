-------------------------------- MODULE Maze --------------------------------
(***************************************************************************)
(* The maze of maze.c: a square grid of N rows and columns whose positions  *)
(* are stored as one integer each, and the operators its users call.  A     *)
(* maze as maze_read leaves it is a record of the grid and of the two       *)
(* marked positions; Mazes are the ones considered.                         *)
(***************************************************************************)
EXTENDS Integers

CONSTANTS
    N,           \* m->n
    Mazes,       \* the mazes maze_read may return
    WALL, FLOOR, PATH, VISITED, TO_VISIT

Indices == 0..(N * N - 1)
Marks == {WALL, FLOOR, PATH, VISITED, TO_VISIT}

m_offsets == <<<<-1, 0>>, <<0, 1>>, <<1, 0>>, <<0, -1>>>>
N_MOVES == 4

maze_index(r, c) == N * r + c
maze_row(x) == x \div N
maze_col(x) == x % N

\* The index of the row and column of an index.
round_trip(x) == maze_index(maze_row(x), maze_col(x))

\* The assertion of maze_get and maze_set.
in_range(r, c) == r >= 0 /\ r < N /\ c >= 0 /\ c < N

maze_valid_move(r, c) == r > 0 /\ r < N - 1 /\ c > 0 /\ c < N - 1

\* Row, column and index of the position in direction i (0..3) from x.
step_row(x, i) == maze_row(x) + m_offsets[i + 1][1]
step_col(x, i) == maze_col(x) + m_offsets[i + 1][2]
step(x, i) == maze_index(step_row(x, i), step_col(x, i))

\* maze_init's start and destination, kept when the text marks none.
default_start == maze_index(1, 1)
default_finish == maze_index(N - 2, N - 2)

\* What maze_read returns: everything but a wall is stored as floor, and a
\* position that the text marked is floor (the defaults may be walls).
IsRead(z) ==
    /\ z.data \in [Indices -> {WALL, FLOOR}]
    /\ \/ z.start_index = default_start
       \/ z.start_index \in Indices /\ z.data[z.start_index] = FLOOR
    /\ \/ z.finish_index = default_finish
       \/ z.finish_index \in Indices /\ z.data[z.finish_index] = FLOOR

ASSUME MazeAssumption ==
    /\ N \in Nat \ {0}
    /\ WALL # FLOOR /\ WALL # PATH /\ WALL # VISITED /\ WALL # TO_VISIT
    /\ FLOOR # PATH /\ FLOOR # VISITED /\ FLOOR # TO_VISIT
    /\ PATH # VISITED /\ PATH # TO_VISIT /\ VISITED # TO_VISIT
    /\ \A z \in Mazes : IsRead(z)

Inside(x) == maze_valid_move(maze_row(x), maze_col(x))

\* The searches start inside the border and have somewhere to go.
WellPosed(z) ==
    /\ z.start_index \in Indices
    /\ Inside(z.start_index)
    /\ z.finish_index \in Indices
    /\ z.start_index # z.finish_index

-----------------------------------------------------------------------------
(* Reference definitions the searches are checked against. *)

\* A move leads from x to y in the maze with walls `walls`.
Move(walls, x, y) ==
    /\ y \notin walls
    /\ \E i \in 0..(N_MOVES - 1) :
          maze_valid_move(step_row(x, i), step_col(x, i)) /\ y = step(x, i)

\* A set of positions that no move leaves.
Closed(walls, S) ==
    \A x \in S, y \in Indices : Move(walls, x, y) => y \in S

\* S shows that no sequence of moves leads from s to d.
Separates(walls, S, s, d) == s \in S /\ d \notin S /\ Closed(walls, S)

\* No sequence of moves leads from s to d.
Unreachable(walls, s, d) == \E S \in SUBSET Indices : Separates(walls, S, s, d)

\* The positions at most k moves away from s.
Ball(walls, s) ==
    LET ball[k \in Nat] ==
            IF k = 0 THEN {s}
            ELSE LET near == ball[k - 1]
                 IN  near \cup {y \in Indices : \E x \in near : Move(walls, x, y)}
    IN  ball

\* d is exactly k moves away from s.
AtDistance(walls, s, d, k) ==
    /\ d \in Ball(walls, s)[k]
    /\ k > 0 => d \notin Ball(walls, s)[k - 1]
=============================================================================
