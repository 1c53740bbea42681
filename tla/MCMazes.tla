------------------------------- MODULE MCMazes -------------------------------
(* The small mazes the solvers are run on.                                   *)
EXTENDS Integers

CONSTANTS SIZE,      \* rows and columns
          STARTS,    \* candidate start positions, as <<row, column>>
          FINISHES,  \* candidate destinations
          BORDERS,   \* what the border is made of
          MCWALL, MCFLOOR

At(p) == SIZE * p[1] + p[2]
Interior == {At(p) : p \in (1..(SIZE - 2)) \X (1..(SIZE - 2))}
Everywhere == (0..(SIZE - 1)) \X (0..(SIZE - 1))

\* Every choice of walls inside a border of one kind, with every start and
\* destination, that maze_read can return: a position that is marked is floor.
AllMazes ==
    {z \in
       {[data |-> [x \in 0..(SIZE * SIZE - 1) |->
                      IF x \in Interior
                      THEN IF x \in w THEN MCWALL ELSE MCFLOOR
                      ELSE IF x \in {s, f} THEN MCFLOOR ELSE b],
         start_index |-> s, finish_index |-> f] :
            w \in SUBSET Interior, b \in BORDERS,
            s \in {At(p) : p \in STARTS}, f \in {At(p) : p \in FINISHES}} :
       /\ z.start_index = At(<<1, 1>>) \/ z.data[z.start_index] = MCFLOOR
       /\ \/ z.finish_index = At(<<SIZE - 2, SIZE - 2>>)
          \/ z.data[z.finish_index] = MCFLOOR}
=============================================================================
