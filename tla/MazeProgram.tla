----------------------------- MODULE MazeProgram -----------------------------
(***************************************************************************)
(* The depth-first program as a whole: main reads a maze from its standard  *)
(* input with maze_read, has it solved by DfsSolver and frees it.  The maze *)
(* that is read is the solver's: `maze`, start_index and finish_index are   *)
(* the fields of one struct.                                                *)
(* A line is [chars, newline]; the characters are WALL_CHAR, START, DEST and *)
(* any other.  N being a constant, the texts are those whose first line     *)
(* makes maze_init create a maze of N columns or none.                      *)
(* Abstracted: what main prints and writes to out.ppm.                      *)
(***************************************************************************)
EXTENDS DfsSolver, FiniteSetsExt

CONSTANTS
    Texts,       \* what the standard input may hold: sequences of lines
    WALL_CHAR, START, DEST,
    SPACE        \* any other character

VARIABLES
    text,        \* the lines of the standard input
    at,          \* where main is
    row,
    held,        \* blocks of main: getline's "buf", the "maze", its "data"
    starved      \* 1 when an allocation of maze_read failed

reading == <<text, row, starved>>
programVars == <<vars, reading, at, held>>

\* What getline returns for the k-th line.
getline(k) ==
    IF k > Len(text) THEN -1
    ELSE Len(text[k].chars) + (IF text[k].newline THEN 1 ELSE 0)

ncols == getline(1) - 1

Chars == {WALL_CHAR, START, DEST, SPACE}

ASSUME TextAssumption ==
    /\ WALL_CHAR \notin {START, DEST}
    /\ Texts \subseteq Seq([chars : Seq(Chars), newline : BOOLEAN])
    /\ \A t \in Texts :
       /\ \A k \in 1..(Len(t) - 1) : t[k].newline
       /\ t # <<>> => LET n == Len(t[1].chars) - (IF t[1].newline THEN 0 ELSE 1)
                      IN  n = N \/ n <= 0

ProgramInit ==
    /\ text \in Texts
    /\ at = "maze_read"
    /\ row = 0
    /\ held = {}
    /\ starved = 0
    /\ maze = [x \in Indices |-> WALL]
    /\ start_index = default_start
    /\ finish_index = default_finish
    /\ pc = "main"
    /\ visitarray = [x \in Indices |-> UNINIT]
    /\ current_index = 0 /\ i = 0 /\ array_index = 0 /\ lengte = 0
    /\ outcome = "none"
    /\ heap = {}
    /\ L!Init

\* maze_read returns NULL, with which main ends, and leaves `blocks`.
NoMaze(blocks) ==
    /\ at' = "exit"
    /\ held' = blocks
    /\ UNCHANGED <<vars, text, row>>

\* The first line is read; getline has no buffer if memory is short.
ReadFirst ==
    /\ at = "maze_read"
    /\ \/ at' = "maze_init" /\ held' = {"buf"} /\ UNCHANGED <<vars, reading>>
       \/ NoMaze({}) /\ starved' = 1

\* maze_init up to its second allocation.
maze_init ==
    /\ at = "maze_init"
    /\ \/ ncols <= 0 /\ NoMaze({}) /\ UNCHANGED starved
       \/ ncols > 0 /\ NoMaze({}) /\ starved' = 1
       \/ /\ ncols > 0
          /\ at' = "maze_data"
          /\ held' = held \cup {"maze"}
          /\ UNCHANGED <<vars, reading>>

\* The rest of maze_init: the maze of walls with its default start and
\* destination, or the struct given back.
maze_init_data ==
    /\ at = "maze_data"
    /\ \/ NoMaze({}) /\ starved' = 1
       \/ /\ at' = "row"
          /\ held' = held \cup {"data"}
          /\ maze' = [x \in Indices |-> WALL]
          /\ start_index' = default_start
          /\ finish_index' = default_finish
          /\ UNCHANGED <<stackVars, pc, search, walk, outcome, heap, reading>>

line == text[row + 1].chars

\* Mutant: a marker is stored as a wall.
set_value_markers(char) == IF char \in {WALL_CHAR, START, DEST} THEN WALL ELSE FLOOR

set_value(char) == IF char = WALL_CHAR THEN WALL ELSE FLOOR

\* check_for_start_and_dest over the line: the last marker counts.
check_for(marker, index) ==
    LET marked == {k \in 1..N : line[k] = marker}
    IN  IF marked = {} THEN index ELSE maze_index(row, Max(marked) - 1)

\* A round of the do-while loop on a line of N characters, and its condition.
ReadRow ==
    /\ at = "row"
    /\ row # ncols
    /\ text[row + 1].newline
    /\ maze' = [x \in Indices |->
                  IF maze_row(x) = row THEN set_value(line[maze_col(x) + 1])
                  ELSE maze[x]]
    /\ start_index' = check_for(START, start_index)
    /\ finish_index' = check_for(DEST, finish_index)
    /\ row' = row + 1
    /\ at' = IF getline(row + 2) = ncols + 1 THEN "row" ELSE "read"
    /\ UNCHANGED <<stackVars, pc, search, walk, outcome, heap, text, held, starved>>

\* A line of N + 1 characters that ends with the input holds no newline at
\* which its loop would stop: maze_set is asked for column N.
ReadRowFails ==
    /\ at = "row"
    /\ row # ncols
    /\ ~text[row + 1].newline
    /\ at' = "abort"
    /\ UNCHANGED <<vars, reading, held>>

TooManyRows ==
    /\ at = "row"
    /\ row = ncols
    /\ NoMaze({})
    /\ UNCHANGED starved

\* The end of maze_read; main has the maze solved.
EndOfText ==
    /\ at = "read"
    /\ \/ row < ncols /\ NoMaze({}) /\ UNCHANGED starved
       \/ /\ row >= ncols
          /\ at' = "dfs_solve"
          /\ pc' = "frontier_init"
          /\ held' = held \ {"buf"}
          /\ UNCHANGED <<stackVars, maze, input, search, walk, outcome, heap, reading>>

dfs_solve == at = "dfs_solve" /\ Next /\ UNCHANGED <<reading, at, held>>

\* Mutant: the maze is kept when no path is found.
Report_keeps ==
    /\ at = "dfs_solve"
    /\ outcome \in {"length", "NOT_FOUND", "ERROR"}
    /\ at' = "exit"
    /\ held' = IF outcome = "NOT_FOUND" THEN held ELSE held \ {"maze", "data"}
    /\ UNCHANGED <<vars, reading>>

\* The rest of main, which frees the maze whatever dfs_solve returned.
Report ==
    /\ at = "dfs_solve"
    /\ outcome \in {"length", "NOT_FOUND", "ERROR"}
    /\ at' = "exit"
    /\ held' = held \ {"maze", "data"}
    /\ UNCHANGED <<vars, reading>>

ProgramNext ==
    \/ ReadFirst \/ maze_init \/ maze_init_data
    \/ ReadRow \/ ReadRowFails \/ TooManyRows \/ EndOfText
    \/ dfs_solve \/ Report

ProgramSpec ==
    ProgramInit /\ [][ProgramNext]_programVars /\ WF_programVars(ProgramNext)

-----------------------------------------------------------------------------
(* Properties *)

\* Line k of the text is one of N characters and its newline.
FullLine(k) == k <= Len(text) /\ text[k].newline /\ Len(text[k].chars) = N

\* The text is a square: N full lines, and what follows is not another one.
Square == (\A k \in 1..N : FullLine(k)) /\ getline(N + 1) # N + 1

\* The character of the text at an index, and the indices of a character.
CharAt(x) == text[maze_row(x) + 1].chars[maze_col(x) + 1]
Places(char) == {x \in Indices : CharAt(x) = char}

\* What the search is given is what the text shows: walls where it has walls,
\* the last start and destination it marks or else the corners, both on floor.
\* A text that is not square is refused, and a square one only for lack of
\* memory; reading stops the process just when a last line of N + 1 characters
\* ends without a newline among the first N.
ReadRight ==
    /\ pc = "frontier_init" =>
          /\ Square
          /\ IsRead([data |-> maze, start_index |-> start_index,
                     finish_index |-> finish_index])
          /\ Walls = Places(WALL_CHAR)
          /\ start_index = IF Places(START) = {} THEN default_start
                           ELSE Max(Places(START))
          /\ finish_index = IF Places(DEST) = {} THEN default_finish
                            ELSE Max(Places(DEST))
    /\ at = "exit" /\ pc = "main" => ~Square \/ starved = 1
    /\ at = "abort" =>
          /\ row < N
          /\ Len(text) = row + 1
          /\ Len(line) = N + 1

\* When main returns, whichever way, it has freed the line buffer and the maze;
\* blocks that remain are the solver's, and only after it failed for lack of
\* memory.
ProgramFrees ==
    at = "exit" =>
        /\ held = {}
        /\ heap # {} => outcome = "ERROR" /\ "visitarray" \notin heap

\* backtrack has read an entry that was never written: with the start as the
\* destination none is, and the walk goes where the memory happens to lead.
Astray == pc = "backtrack" /\ start_index = finish_index

\* Every run of the program ends - it returns, or is stopped by an assertion or
\* for lack of memory - or goes astray, which takes a text whose start is its
\* destination; in particular every text that is refused and every maze with
\* two distinct marks.
ProgramEnds ==
    <>(at \in {"exit", "abort"} \/ aborted \/ outcome = "assert" \/ Astray)
=============================================================================
