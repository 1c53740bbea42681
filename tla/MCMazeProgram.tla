---------------------------- MODULE MCMazeProgram ----------------------------
(* Instances of MazeProgram.tla small enough for TLC.                        *)
EXTENDS MazeProgram

CONSTANTS STARTS, FINISHES, BORDERS

G == INSTANCE MCMazes WITH SIZE <- N, MCWALL <- WALL, MCFLOOR <- FLOOR

MCNoMazes == {}
MCStarts == {<<1, 1>>, <<1, 2>>, <<2, 2>>}
MCInside == (1..(N - 2)) \X (1..(N - 2))
MCBorders == {WALL}

\* No index, the first one, and inner ones: -1 stops the walk at an assertion, and
\* it can go round through the others.
MCGarbage == {-1, 0, maze_index(1, 1), maze_index(1, 2), maze_index(N - 2, N - 2)}

\* The text of a maze; a marked position is one that is floor.
Char(z, x) == IF z.data[x] = WALL THEN WALL_CHAR
              ELSE IF x = z.start_index THEN START
              ELSE IF x = z.finish_index THEN DEST ELSE SPACE
Line(chars) == [chars |-> chars, newline |-> TRUE]
Text(z) == [r \in 1..N |->
              Line([c \in 1..N |-> Char(z, maze_index(r - 1, c - 1))])]

\* The square texts, and two of them with marks left out or repeated.
Wellformed == {Text(z) : z \in {y \in G!AllMazes : WellPosed(y)}}
Floor == [k \in 1..N |-> IF k \in {1, N} THEN WALL_CHAR ELSE SPACE]
Wall == [k \in 1..N |-> WALL_CHAR]
Plain == <<Line(Wall)>> \o [k \in 1..(N - 2) |-> Line(Floor)] \o <<Line(Wall)>>
Repeated ==
    {[[Plain EXCEPT ![2].chars[2] = START] EXCEPT ![3].chars[3] = START,
                                                   ![3].chars[4] = DEST],
     [Plain EXCEPT ![2].chars[2] = START, ![2].chars[3] = START,
                   ![4].chars[2] = DEST, ![4].chars[4] = DEST]}

\* The first k lines, and a text with another line after them.
Lines(k) == SubSeq(Plain, 1, k)
Open(chars) == [chars |-> chars, newline |-> FALSE]
Malformed ==
    {<<>>, <<Line(<<>>)>>, <<Open(<<SPACE>>)>>}
    \cup {Lines(k) : k \in 1..(N - 1)}
    \cup {Lines(k) \o <<Open(Wall)>> : k \in 1..N}
    \cup {Lines(k) \o <<Open(Wall \o <<WALL_CHAR>>)>> : k \in 0..N}
    \cup {Lines(k) \o <<Line(<<SPACE>>)>> : k \in 1..N}
    \cup {Lines(k) \o <<Line(Wall \o <<WALL_CHAR>>), Line(Wall)>> : k \in 1..N}
    \cup {Lines(N) \o <<Line(Wall)>>}

\* A start on the border, at which an assertion of maze.c stops the solver.
BorderStart == [Plain EXCEPT ![1].chars[2] = START]

\* A start that is the destination: one is marked where the other is by default.
StartIsDestination ==
    {[Plain EXCEPT ![2].chars[2] = DEST],
     [Plain EXCEPT ![N - 1].chars[N - 1] = START]}

MCTexts == Wellformed \cup {Plain, BorderStart} \cup StartIsDestination
           \cup Repeated \cup Malformed
=============================================================================
