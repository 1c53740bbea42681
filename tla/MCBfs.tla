-------------------------------- MODULE MCBfs --------------------------------
(* Instances of BfsSolver.tla small enough for TLC.                          *)
EXTENDS BfsSolver

CONSTANTS STARTS, FINISHES, BORDERS

G == INSTANCE MCMazes WITH SIZE <- N, MCWALL <- WALL, MCFLOOR <- FLOOR

MCMazes == {z \in G!AllMazes : WellPosed(z)}
MCAllMazes == G!AllMazes

\* Starts and destinations: inside, and with some on the border.
MCInside == (1..(N - 2)) \X (1..(N - 2))
MCSomeStarts == {<<1, 1>>, <<1, 2>>, <<2, 2>>}
MCAnyStarts == MCSomeStarts \cup
    {<<N - 2, 2>>, <<0, 0>>, <<0, 1>>, <<2, N - 1>>, <<N - 1, 3>>}
MCAnyFinishes ==
    {<<1, 1>>, <<2, 1>>, <<2, 2>>, <<N - 2, N - 2>>, <<0, 1>>, <<2, N - 1>>}
MCBorders == {WALL, FLOOR}
MCWallBorder == {WALL}

\* No index, the first one, and two inner ones.
MCGarbage == {-1, 0, maze_index(1, 1), maze_index(1, 2)}
=============================================================================
