---------------------------- MODULE SearchProofs ----------------------------
(***************************************************************************)
(* Proofs about what the two maze solvers share, for mazes of every size:   *)
(* the geometry of maze.c, and an invariant that every step of MazeSearch   *)
(* keeps whatever the frontier hands out, provided it only hands out        *)
(* positions that were pushed; then what is needed so that nothing that can *)
(* be reached is missed.  BfsProofs and DfsProofs add the frontier.         *)
(***************************************************************************)
EXTENDS MazeSearch, FiniteSetTheorems, WellFoundedInduction, TLAPS

AllWellPosed == \A z \in Mazes : WellPosed(z)

Directions == 0..(N_MOVES - 1)

-----------------------------------------------------------------------------
(* Numbers *)

\* A set of naturals that has an element has a least one.
LEMMA LeastElement ==
  ASSUME NEW T \in SUBSET Nat, T # {}
  PROVE  \E m \in T : \A k \in T : m <= k
<1> DEFINE U == {0..t : t \in T}
<1>1. IsWellFoundedOn(StrictSubsetOrdering(Nat), FiniteSubsetsOf(Nat))
  BY FS_StrictSubsetOrderingWellFounded
<1>2. U \subseteq FiniteSubsetsOf(Nat) /\ U # {}
  <2>1. \A t \in T : 0..t \in SUBSET Nat /\ IsFiniteSet(0..t)
    BY FS_Interval
  <2> QED
    BY <2>1 DEF FiniteSubsetsOf
<1> HIDE DEF U
<1>3. PICK u \in U : \A v \in U : <<v, u>> \notin StrictSubsetOrdering(Nat)
  BY <1>1, <1>2, WFMin
<1>4. PICK m \in T : u = 0..m
  BY <1>3 DEF U
<1>5. ASSUME NEW k \in T, k < m PROVE FALSE
  <2>1. 0..k \in U
    BY DEF U
  <2>2. <<0..k, u>> \in StrictSubsetOrdering(Nat)
    BY <1>4, <1>5 DEF StrictSubsetOrdering
  <2> QED
    BY <1>3, <2>1, <2>2
<1> QED
  BY <1>5

-----------------------------------------------------------------------------
(* The geometry of the grid *)

\* The row and the column of an index are in range and give the index back.
LEMMA IndexToRowCol ==
  ASSUME NEW x \in Indices
  PROVE  /\ maze_row(x) \in 0..(N - 1)
         /\ maze_col(x) \in 0..(N - 1)
         /\ round_trip(x) = x
<1> DEFINE q == x \div N
           m == x % N
<1>1. N \in Nat \ {0} /\ x \in Nat /\ x < N * N
  BY MazeAssumption DEF Indices
<1>2. q \in Nat /\ m \in 0..(N - 1) /\ x = N * q + m
  BY <1>1
<1> HIDE DEF q, m
<1>3. q < N
  <2> SUFFICES ASSUME q >= N PROVE FALSE
    BY <1>1, <1>2
  <2>1. N * q >= N * N
    BY <1>1, <1>2
  <2> QED
    BY <1>1, <1>2, <2>1
<1> QED
  BY <1>1, <1>2, <1>3 DEF q, m, round_trip, maze_index, maze_row, maze_col

\* A row and a column in range give an index, which gives them back.
LEMMA RowColToIndex ==
  ASSUME NEW r \in 0..(N - 1), NEW c \in 0..(N - 1)
  PROVE  /\ maze_index(r, c) \in Indices
         /\ maze_row(maze_index(r, c)) = r
         /\ maze_col(maze_index(r, c)) = c
<1> DEFINE x == N * r + c
           q == x \div N
           m == x % N
<1>1. N \in Nat \ {0} /\ r \in Nat /\ c \in Nat /\ r <= N - 1 /\ c <= N - 1
  BY MazeAssumption
<1>2. N * r \in Nat /\ N * r <= N * (N - 1) /\ N * (N - 1) = N * N - N
  BY <1>1
<1>3. x \in Nat /\ x <= N * N - 1
  BY <1>1, <1>2
<1>4. q \in Nat /\ m \in 0..(N - 1) /\ x = N * q + m
  BY <1>1, <1>3
<1>5. N * r + c = N * q + m
  BY <1>4
<1> HIDE DEF q, m
<1>6. q = r
  <2>1. ASSUME q < r PROVE FALSE
    <3>1. N * (q + 1) <= N * r /\ N * (q + 1) = N * q + N
      BY <1>1, <1>4, <2>1
    <3> QED
      BY <1>1, <1>2, <1>4, <1>5, <3>1
  <2>2. ASSUME r < q PROVE FALSE
    <3>1. N * (r + 1) <= N * q /\ N * (r + 1) = N * r + N
      BY <1>1, <1>4, <2>2
    <3> QED
      BY <1>1, <1>2, <1>4, <1>5, <3>1
  <2> QED
    BY <1>1, <1>4, <2>1, <2>2
<1>7. m = c
  BY <1>1, <1>2, <1>4, <1>5, <1>6
<1> QED
  BY <1>1, <1>3, <1>6, <1>7 DEF q, m, maze_index, maze_row, maze_col, Indices

\* One step changes the row or the column by one.
LEMMA Steps ==
  ASSUME NEW x \in Indices, NEW d \in Directions
  PROVE  /\ step_row(x, d) \in Int /\ step_col(x, d) \in Int
         /\ \/ step_row(x, d) = maze_row(x) /\ step_col(x, d) = maze_col(x) + 1
            \/ step_row(x, d) = maze_row(x) /\ step_col(x, d) = maze_col(x) - 1
            \/ step_row(x, d) = maze_row(x) + 1 /\ step_col(x, d) = maze_col(x)
            \/ step_row(x, d) = maze_row(x) - 1 /\ step_col(x, d) = maze_col(x)
<1>1. d = 0 \/ d = 1 \/ d = 2 \/ d = 3
  BY DEF Directions, N_MOVES
<1>2. maze_row(x) \in Int /\ maze_col(x) \in Int
  BY IndexToRowCol
<1>3. /\ m_offsets[1] = <<-1, 0>> /\ m_offsets[2] = <<0, 1>>
      /\ m_offsets[3] = <<1, 0>> /\ m_offsets[4] = <<0, -1>>
  BY DEF m_offsets
<1> QED
  BY <1>1, <1>2, <1>3 DEF step_row, step_col

\* From a position inside the border every step stays on the grid and leads to
\* another position.
LEMMA StepFromInside ==
  ASSUME NEW x \in Indices, Inside(x), NEW d \in Directions
  PROVE  /\ in_range(step_row(x, d), step_col(x, d))
         /\ in_range(maze_row(x), maze_col(x))
         /\ step(x, d) \in Indices
         /\ step(x, d) # x
         /\ maze_row(step(x, d)) = step_row(x, d)
         /\ maze_col(step(x, d)) = step_col(x, d)
<1>1. N \in Nat \ {0}
  BY MazeAssumption
<1>2. /\ maze_row(x) \in 1..(N - 2)
      /\ maze_col(x) \in 1..(N - 2)
  BY <1>1, IndexToRowCol DEF Inside, maze_valid_move
<1>3. /\ step_row(x, d) \in 0..(N - 1)
      /\ step_col(x, d) \in 0..(N - 1)
      /\ step_row(x, d) # maze_row(x) \/ step_col(x, d) # maze_col(x)
  BY <1>1, <1>2, Steps
<1>4. /\ step(x, d) \in Indices
      /\ maze_row(step(x, d)) = step_row(x, d)
      /\ maze_col(step(x, d)) = step_col(x, d)
  BY <1>3, RowColToIndex DEF step
<1> QED
  BY <1>1, <1>2, <1>3, <1>4 DEF in_range

\* A move starts and ends where the solver may go: its end is inside.
LEMMA MoveInside ==
  ASSUME NEW walls, NEW x \in Indices, NEW y, Move(walls, x, y)
  PROVE  y \in Indices /\ Inside(y)
<1>1. PICK d \in Directions :
         /\ maze_valid_move(step_row(x, d), step_col(x, d))
         /\ y = step(x, d)
  BY DEF Move, Directions
<1>2. /\ step_row(x, d) \in 0..(N - 1)
      /\ step_col(x, d) \in 0..(N - 1)
  BY <1>1, Steps, MazeAssumption DEF maze_valid_move
<1> QED
  BY <1>1, <1>2, RowColToIndex DEF step, Inside

\* A valid step from a position leads to a position.
LEMMA ValidStep ==
  ASSUME NEW x \in Indices, NEW d \in Directions,
         maze_valid_move(step_row(x, d), step_col(x, d))
  PROVE  step(x, d) \in Indices
<1>1. /\ step_row(x, d) \in 0..(N - 1)
      /\ step_col(x, d) \in 0..(N - 1)
  BY Steps, MazeAssumption DEF maze_valid_move
<1> QED
  BY <1>1, RowColToIndex DEF step

-----------------------------------------------------------------------------
(* The invariant *)

Posed ==
    /\ start_index \in Indices
    /\ Inside(start_index)
    /\ finish_index \in Indices
    /\ start_index # finish_index

\* The positions a push has recorded, and the start.
Pushed == Tree \cup {start_index}

\* Until the walk back begins no position is marked as path; until the start has
\* been examined nothing but the start was pushed.
Searching ==
    /\ pc \in {"frontier_init", "create_visitarray", "push_start", "loop",
               "examine", "found"} => Path = {}
    /\ pc \in {"frontier_init", "create_visitarray", "push_start", "loop",
               "examine"} =>
          (maze[start_index] # VISITED => Tree = {})
    /\ pc = "examine" => i \in Directions /\ current_index \in Pushed
    /\ pc = "found" => finish_index \in Tree

\* The path marked so far is a chain of the tree that ends where backtrack is.
Chain ==
    /\ Path \subseteq Tree
    /\ lengte = Cardinality(Path)
    /\ finish_index \in Path
    /\ array_index \in Pushed
    /\ \A x \in Path : visitarray[x] \in Path \cup {array_index}
    /\ \E x \in Path : visitarray[x] = array_index

SInv ==
    /\ SearchTypeOK
    /\ Posed
    /\ VisitTree
    /\ Searching
    /\ pc = "backtrack" => Chain
    /\ pc # "done" => outcome = "none"
    /\ outcome = "length" => Chain /\ array_index = start_index
    /\ outcome # "assert"

\* A search that is about to start in a maze that was read.
StartOfSearch ==
    /\ maze \in [Indices -> {WALL, FLOOR}]
    /\ Posed
    /\ visitarray = [x \in Indices |-> UNINIT]
    /\ pc = "frontier_init" /\ outcome = "none" /\ heap = {}
    /\ current_index = 0 /\ i = 0 /\ array_index = 0 /\ lengte = 0

\* Then nothing was pushed, whatever the maze.
LEMMA StartInv == StartOfSearch => SInv
<1> SUFFICES ASSUME StartOfSearch PROVE SInv
  OBVIOUS
<1> USE DEF StartOfSearch
<1>1. 0 \in Indices
  BY RowColToIndex, MazeAssumption DEF Indices, maze_index
<1>2. SearchTypeOK
  BY <1>1 DEF SearchTypeOK, Posed, Indices, Marks, N_MOVES
<1>3. Tree = {} /\ Path = {}
  BY MazeAssumption DEF Tree, Path
<1>4. VisitTree
  BY <1>3 DEF VisitTree
<1>5. Searching
  BY <1>3 DEF Searching
<1> QED
  BY <1>2, <1>4, <1>5 DEF SInv

LEMMA SearchInitInv == ASSUME AllWellPosed PROVE SearchInit => StartOfSearch /\ SInv
<1> SUFFICES ASSUME SearchInit PROVE StartOfSearch
  BY StartInv
<1>1. PICK z \in Mazes : /\ maze = z.data
                        /\ start_index = z.start_index
                        /\ finish_index = z.finish_index
  BY DEF SearchInit
<1>2. /\ maze \in [Indices -> {WALL, FLOOR}]
      /\ Posed
  BY <1>1, MazeAssumption DEF AllWellPosed, WellPosed, IsRead, Posed
<1> QED
  BY <1>2 DEF SearchInit, StartOfSearch

\* A step that touches neither the maze, the visitarray nor the walk.
LEMMA QuietInv ==
  ASSUME SInv, UNCHANGED <<maze, input, visitarray, walk>>,
         SearchTypeOK', Searching',
         pc # "backtrack", pc' # "backtrack",
         outcome' \notin {"length", "assert"},
         pc' # "done" => outcome' = "none"
  PROVE  SInv'
<1>1. Posed'
  BY DEF SInv, Posed, input
<1>2. VisitTree'
  <2>1. Tree' = Tree /\ Walls' = Walls
    BY DEF Tree, Walls
  <2> QED
    BY <2>1 DEF SInv, VisitTree, input
<1> QED
  BY <1>1, <1>2 DEF SInv

\* The steps before the search proper.
LEMMA BeginInv ==
  ASSUME SInv, NoFrontier \/ HaveFrontier \/ create_visitarray \/ StartPushed
  PROVE  SInv'
<1>1. /\ UNCHANGED <<maze, input, search, walk>>
      /\ pc \in {"frontier_init", "create_visitarray", "push_start"}
      /\ \/ pc' \in {"create_visitarray", "push_start", "loop"} /\ outcome' = outcome
         \/ pc' = "done" /\ outcome' = "ERROR"
      /\ heap' \subseteq heap \cup {"frontier", "visitarray", "rows"}
  BY DEF NoFrontier, HaveFrontier, create_visitarray, StartPushed, Return
<1>2. UNCHANGED <<maze, start_index, finish_index, visitarray, current_index, i,
                  array_index, lengte>>
  BY <1>1 DEF input, search, walk
<1>3. SearchTypeOK'
  BY <1>1, <1>2 DEF SInv, SearchTypeOK
<1>4. Tree' = Tree /\ Path' = Path
  BY <1>2 DEF Tree, Path
<1>5. Searching'
  BY <1>1, <1>2, <1>4 DEF SInv, Searching
<1>6. outcome' \notin {"length", "assert"} /\ (pc' # "done" => outcome' = "none")
  BY <1>1 DEF SInv
<1> QED
  BY <1>1, <1>2, <1>3, <1>5, <1>6, QuietInv DEF input, walk

\* The frontier hands out a position that was pushed.
LEMMA PoppedInv ==
  ASSUME SInv, NEW index \in Pushed, Popped(index)
  PROVE  SInv'
<1>1. /\ pc = "loop"
      /\ current_index' = index /\ i' = 0
      /\ pc' = IF index = dest_index THEN "found" ELSE "examine"
      /\ UNCHANGED <<maze, start_index, finish_index, visitarray, array_index,
                     lengte, outcome, heap>>
  BY DEF Popped, input, walk
<1>2. index \in Indices
  BY DEF SInv, Pushed, Posed, Tree
<1>3. SearchTypeOK'
  BY <1>1, <1>2 DEF SInv, SearchTypeOK, N_MOVES, Indices
<1>4. Tree' = Tree /\ Path' = Path /\ Pushed' = Pushed
  BY <1>1 DEF Tree, Path, Pushed
<1>5. dest_index = finish_index
  BY IndexToRowCol DEF SInv, Posed, dest_index
<1>6. Searching'
  <2>1. index = finish_index => index \in Tree
    BY DEF SInv, Posed, Pushed
  <2> QED
    BY <1>1, <1>4, <1>5, <2>1 DEF SInv, Searching, Directions, N_MOVES
<1> QED
  BY <1>1, <1>3, <1>6, QuietInv DEF SInv, input, walk

\* The search ends without having met the destination.
LEMMA NotFoundInv ==
  ASSUME SInv, NotFound
  PROVE  SInv'
<1>1. /\ UNCHANGED <<maze, start_index, finish_index, visitarray, current_index,
                     i, array_index, lengte>>
      /\ pc = "loop" /\ pc' = "done" /\ outcome' = "NOT_FOUND"
      /\ heap' \subseteq heap
  BY DEF NotFound, Return, FreeAll, input, search, walk
<1>2. SearchTypeOK'
  BY <1>1 DEF SInv, SearchTypeOK
<1>3. Searching'
  BY <1>1 DEF Searching
<1> QED
  BY <1>1, <1>2, <1>3, QuietInv DEF input, walk

\* Whatever was pushed lies inside the border.
LEMMA PushedInside ==
  ASSUME SInv, NEW x \in Pushed
  PROVE  x \in Indices /\ Inside(x)
<1>1. CASE x = start_index
  BY <1>1 DEF SInv, Posed
<1>2. CASE x \in Tree
  <2>1. x \in Indices /\ visitarray[x] \in Indices
    BY <1>2 DEF Tree, SInv, SearchTypeOK
  <2>2. Move(Walls, visitarray[x], x)
    BY <1>2 DEF SInv, VisitTree
  <2> QED
    BY <2>1, <2>2, MoveInside
<1> QED
  BY <1>1, <1>2 DEF Pushed

\* With fewer walls every move is still a move.
LEMMA MoveMonotone ==
  ASSUME NEW V, NEW W, V \subseteq W, NEW x, NEW y, Move(W, x, y)
  PROVE  Move(V, x, y)
  BY DEF Move

\* What is known of the position examined and its neighbour.
LEMMA Examining ==
  ASSUME SInv, pc = "examine"
  PROVE  /\ i \in Directions
         /\ current_index \in Indices
         /\ current_index \in Pushed
         /\ new_index \in Indices
         /\ new_index # current_index
         /\ ExamineInRange
         /\ Path = {}
         /\ maze \in [Indices -> Marks]
         /\ current_index # start_index => maze[start_index] = VISITED
<1>1. i \in Directions /\ current_index \in Pushed /\ Path = {}
  BY DEF SInv, Searching
<1>2. current_index \in Indices /\ Inside(current_index)
  BY <1>1, PushedInside
<1>3. current_index # start_index => maze[start_index] = VISITED
  BY <1>1 DEF SInv, Searching, Pushed
<1> QED
  BY <1>1, <1>2, <1>3, StepFromInside DEF new_index, ExamineInRange, SInv,
     SearchTypeOK

\* maze.c's assertions hold while a neighbour is examined.
LEMMA ExamineFailsInv == ASSUME SInv, ExamineFails PROVE FALSE
  BY Examining DEF ExamineFails

\* A neighbour that is a wall, was visited or lies on the border.
LEMMA ExamineSkipsInv ==
  ASSUME SInv, ExamineSkips
  PROVE  SInv'
<1>1. /\ pc = "examine"
      /\ maze' = [maze EXCEPT ![current_index] = VISITED]
      /\ i' = i + 1
      /\ pc' = IF i + 1 < N_MOVES THEN "examine" ELSE "loop"
      /\ UNCHANGED <<start_index, finish_index, visitarray, current_index,
                     array_index, lengte, outcome, heap>>
  BY DEF ExamineSkips, NextDirection, input, walk
<1>2. /\ i \in Directions /\ current_index \in Indices /\ Path = {}
      /\ current_index \in Pushed /\ maze \in [Indices -> Marks]
      /\ current_index # start_index => maze[start_index] = VISITED
  BY <1>1, Examining
<1>3. maze' \in [Indices -> Marks]
  BY <1>1, <1>2 DEF Marks
<1>4. SearchTypeOK'
  BY <1>1, <1>2, <1>3 DEF SInv, SearchTypeOK, Directions, N_MOVES
<1>5. Tree' = Tree /\ Pushed' = Pushed
  BY <1>1 DEF Tree, Pushed
<1>6. Walls' \subseteq Walls /\ Path' = {}
  BY <1>1, <1>2, MazeAssumption DEF Walls, Path
<1>7. Posed'
  BY <1>1 DEF SInv, Posed
<1>8. VisitTree'
  <2>1. start_index' \notin Tree'
    BY <1>1, <1>5 DEF SInv, VisitTree
  <2>2. ASSUME NEW x \in Tree
        PROVE  /\ visitarray[x] \in Pushed
               /\ maze'[visitarray[x]] \in {VISITED, PATH}
               /\ Move(Walls', visitarray[x], x)
    <3>1. /\ visitarray[x] \in Pushed
          /\ maze[visitarray[x]] \in {VISITED, PATH}
          /\ Move(Walls, visitarray[x], x)
      BY DEF SInv, VisitTree, Pushed
    <3>2. visitarray[x] \in Indices
      BY <3>1, PushedInside
    <3> QED
      BY <1>1, <1>2, <1>6, <3>1, <3>2, MoveMonotone
  <2>3. \A S \in SUBSET Tree : S # {} => \E x \in S : visitarray[x] \notin S
    BY DEF SInv, VisitTree
  <2> QED
    BY <1>1, <1>5, <2>1, <2>2, <2>3 DEF VisitTree, Pushed
<1>9. Searching'
  <2>1. maze'[start_index] = VISITED
    BY <1>1, <1>2 DEF SInv, Posed
  <2> QED
    BY <1>1, <1>2, <1>5, <1>6, <2>1 DEF Searching, Directions, N_MOVES
<1> QED
  BY <1>1, <1>4, <1>7, <1>8, <1>9 DEF SInv

\* A neighbour that is pushed: it enters the tree below the position examined,
\* or moves there, without any visited position referring to it.
LEMMA ExaminePushesInv ==
  ASSUME SInv, ExaminePushes
  PROVE  SInv'
<1>1. /\ pc = "examine"
      /\ Fresh
      /\ maze' = [maze EXCEPT ![current_index] = VISITED,
                              ![new_index] = TO_VISIT]
      /\ visitarray' = [visitarray EXCEPT ![new_index] = current_index]
      /\ i' = i + 1
      /\ pc' = IF i + 1 < N_MOVES THEN "examine" ELSE "loop"
      /\ UNCHANGED <<start_index, finish_index, current_index,
                     array_index, lengte, outcome, heap>>
  BY DEF ExaminePushes, pushed_mark, NextDirection, input, walk
<1>2. /\ i \in Directions /\ current_index \in Indices /\ Path = {}
      /\ current_index \in Pushed /\ maze \in [Indices -> Marks]
      /\ current_index # start_index => maze[start_index] = VISITED
      /\ new_index \in Indices
      /\ new_index # current_index
  BY <1>1, Examining
<1>3. /\ maze' \in [Indices -> Marks]
      /\ \A x \in Indices :
            maze'[x] = IF x = new_index THEN TO_VISIT
                       ELSE IF x = current_index THEN VISITED
                       ELSE maze[x]
  BY <1>1, <1>2 DEF Marks
<1>4. /\ visitarray' \in [Indices -> Indices \cup {UNINIT}]
      /\ visitarray'[new_index] = current_index
      /\ \A x \in Indices \ {new_index} : visitarray'[x] = visitarray[x]
  BY <1>1, <1>2 DEF SInv, SearchTypeOK
<1>5. SearchTypeOK'
  BY <1>1, <1>2, <1>3, <1>4 DEF SInv, SearchTypeOK, Directions, N_MOVES
<1>6. Tree' = Tree \cup {new_index}
  BY <1>2, <1>4, SearchAssumption DEF Tree, Indices
<1>7. new_index # start_index
  BY <1>1, <1>2 DEF Fresh
<1>8. /\ Walls' \subseteq Walls
      /\ new_index \notin Walls
      /\ Path' = {}
  BY <1>1, <1>2, <1>3, MazeAssumption DEF Walls, Path, Fresh
<1>9. Posed'
  BY <1>1 DEF SInv, Posed
<1>10. ASSUME NEW x \in Tree
       PROVE  /\ visitarray[x] \in Indices
              /\ visitarray[x] \in Pushed
              /\ maze[visitarray[x]] = VISITED
              /\ visitarray[x] # new_index
  <2>1. visitarray[x] \in Pushed /\ maze[visitarray[x]] \in {VISITED, PATH}
    BY DEF SInv, VisitTree, Pushed
  <2>2. visitarray[x] \in Indices
    BY <2>1, PushedInside
  <2> QED
    BY <1>1, <1>2, <2>1, <2>2 DEF Path, Fresh
<1>11. VisitTree'
  <2>1. start_index' \notin Tree'
    BY <1>1, <1>6, <1>7 DEF SInv, VisitTree
  <2>2. ASSUME NEW x \in Tree'
        PROVE  /\ visitarray'[x] \in Tree' \cup {start_index'}
               /\ maze'[visitarray'[x]] \in {VISITED, PATH}
               /\ Move(Walls', visitarray'[x], x)
    <3>1. CASE x = new_index
      <4>1. Move(Walls', current_index, new_index)
        BY <1>1, <1>2, <1>8 DEF Move, Fresh, new_index, Directions
      <4> QED
        BY <1>1, <1>2, <1>3, <1>4, <1>6, <3>1, <4>1 DEF Pushed
    <3>2. CASE x # new_index
      <4>1. x \in Tree /\ x \in Indices /\ visitarray'[x] = visitarray[x]
        BY <1>4, <1>6, <3>2 DEF Tree
      <4>2. Move(Walls, visitarray[x], x)
        BY <4>1 DEF SInv, VisitTree
      <4>3. Move(Walls', visitarray[x], x)
        BY <1>8, <4>2, MoveMonotone
      <4>4. maze'[visitarray[x]] = VISITED
        BY <1>3, <1>10, <4>1
      <4> QED
        BY <1>1, <1>6, <1>10, <4>1, <4>3, <4>4 DEF Pushed
    <3> QED
      BY <3>1, <3>2
  <2>3. ASSUME NEW S \in SUBSET Tree', S # {}
        PROVE  \E x \in S : visitarray'[x] \notin S
    <3>1. CASE S \subseteq {new_index}
      BY <1>2, <1>4, <2>3, <3>1
    <3>2. CASE ~(S \subseteq {new_index})
      <4> DEFINE R == S \ {new_index}
      <4>1. R \in SUBSET Tree /\ R # {}
        BY <1>6, <3>2
      <4>2. PICK x \in R : visitarray[x] \notin R
        BY <4>1 DEF SInv, VisitTree
      <4>3. x \in Tree /\ x \in Indices \ {new_index}
        BY <4>1 DEF Tree
      <4>4. visitarray'[x] \notin S
        BY <1>4, <1>10, <4>2, <4>3
      <4> QED
        BY <4>4
    <3> QED
      BY <3>1, <3>2
  <2> QED
    BY <2>1, <2>2, <2>3 DEF VisitTree
<1>12. Searching'
  <2>1. maze'[start_index] = VISITED
    BY <1>2, <1>3, <1>7 DEF SInv, Posed
  <2>2. current_index \in Pushed'
    BY <1>1, <1>2, <1>6 DEF Pushed
  <2> QED
    BY <1>1, <1>2, <1>8, <2>1, <2>2 DEF Searching, Directions, N_MOVES
<1> QED
  BY <1>1, <1>5, <1>9, <1>11, <1>12 DEF SInv

\* Marking a position of the tree as path keeps the tree.
LEMMA MarkPathKeepsTree ==
  ASSUME SInv, NEW x \in Tree,
         maze' = [maze EXCEPT ![x] = PATH],
         UNCHANGED <<visitarray, start_index>>
  PROVE  /\ maze' \in [Indices -> Marks]
         /\ Tree' = Tree
         /\ Path' = Path \cup {x}
         /\ VisitTree'
<1>1. /\ x \in Indices /\ maze \in [Indices -> Marks]
  BY DEF Tree, SInv, SearchTypeOK
<1>2. \A y \in Indices : maze'[y] = IF y = x THEN PATH ELSE maze[y]
  BY <1>1
<1>3. maze' \in [Indices -> Marks]
  BY <1>1 DEF Marks
<1>4. Tree' = Tree
  BY DEF Tree
<1>5. Path' = Path \cup {x} /\ Walls' \subseteq Walls
  BY <1>1, <1>2, MazeAssumption DEF Path, Walls
<1>6. ASSUME NEW y \in Tree
      PROVE  /\ maze'[visitarray[y]] \in {VISITED, PATH}
             /\ Move(Walls', visitarray[y], y)
  <2>1. /\ visitarray[y] \in Pushed
        /\ maze[visitarray[y]] \in {VISITED, PATH}
        /\ Move(Walls, visitarray[y], y)
    BY DEF SInv, VisitTree, Pushed
  <2>2. visitarray[y] \in Indices
    BY <2>1, PushedInside
  <2> QED
    BY <1>2, <1>5, <2>1, <2>2, MoveMonotone
<1>7. VisitTree'
  <2>1. /\ start_index \notin Tree
        /\ \A y \in Tree : visitarray[y] \in Tree \cup {start_index}
        /\ \A S \in SUBSET Tree : S # {} => \E y \in S : visitarray[y] \notin S
    BY DEF SInv, VisitTree
  <2> QED
    BY <1>4, <1>6, <2>1 DEF VisitTree
<1> QED
  BY <1>3, <1>4, <1>5, <1>7

\* Reading an entry that was written gives that entry.
LEMMA ReadTree ==
  ASSUME SInv, NEW x \in Tree, NEW v \in Read(x)
  PROVE  v = visitarray[x] /\ v \in Pushed
  BY DEF Read, Tree, SInv, VisitTree, Pushed

\* The path is a finite set.
LEMMA PathFinite == IsFiniteSet(Path)
<1>1. IsFiniteSet(Indices)
  <2>1. N * N - 1 \in Int
    BY MazeAssumption
  <2> QED
    BY <2>1, FS_Interval DEF Indices
<1> QED
  BY <1>1, FS_Subset DEF Path

\* The walk back starts at the destination.
LEMMA BacktrackStartInv ==
  ASSUME SInv, BacktrackStart
  PROVE  SInv'
<1>1. dest_index = finish_index
  BY IndexToRowCol DEF SInv, Posed, dest_index
<1>2. /\ pc = "found" /\ pc' = "backtrack"
      /\ array_index' \in Read(finish_index)
      /\ maze' = [maze EXCEPT ![finish_index] = PATH]
      /\ lengte' = 1
      /\ UNCHANGED <<start_index, finish_index, visitarray, current_index, i,
                     outcome, heap>>
  BY <1>1 DEF BacktrackStart, start_length, input, search
<1>3. finish_index \in Tree /\ Path = {}
  BY <1>2 DEF SInv, Searching
<1>4. array_index' = visitarray[finish_index] /\ array_index' \in Pushed
  BY <1>2, <1>3, ReadTree
<1>5. /\ maze' \in [Indices -> Marks]
      /\ Tree' = Tree
      /\ Path' = {finish_index}
      /\ VisitTree'
  BY <1>2, <1>3, MarkPathKeepsTree
<1>6. array_index' \in Indices
  BY <1>4, PushedInside
<1>7. SearchTypeOK'
  BY <1>2, <1>5, <1>6 DEF SInv, SearchTypeOK
<1>8. Posed'
  BY <1>2 DEF SInv, Posed
<1>9. Chain'
  <2>1. Cardinality({finish_index}) = 1
    BY FS_Singleton
  <2>2. Cardinality(Path)' = Cardinality(Path')
    OBVIOUS
  <2> QED
    BY <1>2, <1>3, <1>4, <1>5, <2>1, <2>2 DEF Chain, Pushed
<1>10. Searching'
  BY <1>2 DEF Searching
<1> QED
  BY <1>2, <1>5, <1>7, <1>8, <1>9, <1>10 DEF SInv

\* backtrack is never where it has been: a path that came back to itself would
\* be a set of positions that refer only to each other.
LEMMA ChainIsFresh ==
  ASSUME SInv, Chain
  PROVE  array_index \notin Path
<1> SUFFICES ASSUME array_index \in Path PROVE FALSE
  OBVIOUS
<1>1. \A x \in Path : visitarray[x] \in Path
  BY DEF Chain
<1>2. Path \in SUBSET Tree /\ Path # {}
  BY DEF Chain
<1> QED
  BY <1>1, <1>2 DEF SInv, VisitTree

\* One more position is marked.
LEMMA BacktrackStepInv ==
  ASSUME SInv, BacktrackStep
  PROVE  SInv'
<1>1. pc = "backtrack" /\ Chain
  BY DEF SInv, BacktrackStep
<1>2. array_index \in Indices /\ array_index \in Pushed
  BY <1>1, PushedInside DEF Chain
<1>3. /\ round_trip(array_index) = array_index
      /\ in_range(maze_row(array_index), maze_col(array_index))
  BY <1>2, IndexToRowCol, MazeAssumption DEF in_range
<1>4. /\ array_index # start_index
      /\ maze' = [maze EXCEPT ![array_index] = PATH]
      /\ array_index' \in Read(array_index)
      /\ lengte' = lengte + 1
      /\ UNCHANGED <<pc, start_index, finish_index, visitarray, current_index,
                     i, outcome, heap>>
  BY <1>3 DEF BacktrackStep, round_trip, input, search
<1>5. array_index \in Tree
  BY <1>2, <1>4 DEF Pushed
<1>6. array_index' = visitarray[array_index] /\ array_index' \in Pushed
  BY <1>4, <1>5, ReadTree
<1>7. /\ maze' \in [Indices -> Marks]
      /\ Tree' = Tree
      /\ Path' = Path \cup {array_index}
      /\ VisitTree'
  BY <1>4, <1>5, MarkPathKeepsTree
<1>8. array_index' \in Indices
  BY <1>6, PushedInside
<1>9. SearchTypeOK'
  BY <1>4, <1>7, <1>8 DEF SInv, SearchTypeOK
<1>10. Posed'
  BY <1>4 DEF SInv, Posed
<1>11. Chain'
  <2>1. array_index \notin Path
    BY <1>1, ChainIsFresh
  <2>2. Cardinality(Path') = Cardinality(Path) + 1
    BY <1>7, <2>1, PathFinite, FS_AddElement
  <2>3. lengte' = Cardinality(Path')
    BY <1>1, <1>4, <2>2 DEF Chain
  <2>4. /\ Path' \subseteq Tree' /\ finish_index' \in Path'
        /\ array_index' \in Pushed'
    BY <1>1, <1>4, <1>5, <1>6, <1>7 DEF Chain, Pushed
  <2>5. /\ \A x \in Path' : visitarray'[x] \in Path' \cup {array_index'}
        /\ \E x \in Path' : visitarray'[x] = array_index'
    BY <1>1, <1>4, <1>6, <1>7 DEF Chain
  <2> QED
    BY <2>3, <2>4, <2>5 DEF Chain
<1>12. Searching'
  BY <1>1, <1>4 DEF Searching
<1> QED
  BY <1>1, <1>4, <1>7, <1>9, <1>10, <1>11, <1>12 DEF SInv

\* backtrack has reached the start.
LEMMA BacktrackEndInv ==
  ASSUME SInv, BacktrackEnd
  PROVE  SInv'
<1>1. /\ pc = "backtrack" /\ pc' = "done" /\ outcome' = "length"
      /\ round_trip(array_index) = start_index
      /\ heap' \subseteq heap
      /\ UNCHANGED <<maze, start_index, finish_index, visitarray, current_index,
                     i, array_index, lengte>>
  BY DEF BacktrackEnd, Return, FreeAll, input, search, walk
<1>2. Chain
  BY <1>1 DEF SInv
<1>3. array_index = start_index
  BY <1>1, <1>2, PushedInside, IndexToRowCol DEF Chain
<1>4. SearchTypeOK'
  BY <1>1 DEF SInv, SearchTypeOK
<1>5. Path' = Path /\ Tree' = Tree /\ Walls' = Walls
  BY <1>1 DEF Path, Tree, Walls
<1>6. Chain' /\ array_index' = start_index'
  BY <1>1, <1>2, <1>3, <1>5 DEF Chain, Pushed
<1>7. Posed' /\ VisitTree' /\ Searching'
  BY <1>1, <1>5 DEF SInv, Posed, VisitTree, Searching
<1> QED
  BY <1>1, <1>4, <1>6, <1>7 DEF SInv

\* A step of the frontier alone.
LEMMA StutterInv == ASSUME SInv, UNCHANGED searchVars PROVE SInv'
<1>1. UNCHANGED <<pc, maze, start_index, finish_index, visitarray, current_index,
                  i, array_index, lengte, outcome, heap>>
  BY DEF searchVars, input, search, walk
<1>2. Tree' = Tree /\ Path' = Path /\ Walls' = Walls
  BY <1>1 DEF Tree, Path, Walls
<1>3. SearchTypeOK' /\ Posed'
  BY <1>1 DEF SInv, SearchTypeOK, Posed
<1>4. VisitTree' /\ Searching'
  BY <1>1, <1>2 DEF SInv, VisitTree, Searching, Pushed
<1>5. Chain => Chain'
  BY <1>1, <1>2 DEF Chain, Pushed
<1> QED
  BY <1>1, <1>3, <1>4, <1>5 DEF SInv

-----------------------------------------------------------------------------
(* What the frontiers need to know *)

\* Only a push adds to what was pushed.
LEMMA PushedKept == ASSUME UNCHANGED <<visitarray, start_index>> PROVE Pushed' = Pushed
  BY DEF Pushed, Tree

LEMMA PushedGrows ==
  ASSUME SInv, ExaminePushes
  PROVE  Pushed' = Pushed \cup {new_index} /\ new_index \in Indices
<1>1. current_index \in Indices /\ new_index \in Indices
  BY Examining DEF ExaminePushes, pushed_mark
<1>2. /\ visitarray' = [visitarray EXCEPT ![new_index] = current_index]
      /\ visitarray \in [Indices -> Indices \cup {UNINIT}]
      /\ start_index' = start_index
  BY DEF ExaminePushes, pushed_mark, input, SInv, SearchTypeOK
<1> QED
  BY <1>1, <1>2, SearchAssumption DEF Pushed, Tree, Indices

\* The start that is handed to the frontier.
LEMMA StartIsPushed == SInv => round_trip(start_index) \in Pushed
  BY IndexToRowCol DEF SInv, Posed, Pushed

\* The steps that return an answer free everything; no other gives one.
LEMMA FreedWhenAnswered ==
  ASSUME SInv, NotFound \/ BacktrackEnd
  PROVE  FreedOnReturn'
  BY DEF NotFound, BacktrackEnd, FreeAll, SInv, SearchTypeOK, FreedOnReturn

LEMMA FreedElsewhere ==
  ASSUME FreedOnReturn,
         \/ UNCHANGED <<outcome, heap>>
         \/ outcome' \in {"none", "ERROR"}
  PROVE  FreedOnReturn'
  BY DEF FreedOnReturn

-----------------------------------------------------------------------------
(* Nothing is missed *)

\* The position whose neighbours are being examined.
InHand(x) == pc = "examine" /\ x = current_index

\* A move in direction d leads from x to a position that is marked, if anywhere.
Covered(x, d) ==
    maze_valid_move(step_row(x, d), step_col(x, d)) /\ step(x, d) \notin Walls
        => maze[step(x, d)] \in {VISITED, TO_VISIT}

\* What has been visited has had its neighbours found, up to direction i for the
\* position in hand; the destination was not visited.
Covering ==
    /\ pc \in {"frontier_init", "create_visitarray", "push_start"} =>
          \A x \in Indices : maze[x] \notin {VISITED, TO_VISIT}
    /\ pc \in {"loop", "examine"} =>
          /\ \A x \in Indices, d \in Directions :
                IF InHand(x) THEN d < i => Covered(x, d)
                             ELSE maze[x] = VISITED => Covered(x, d)
          /\ maze[finish_index] # VISITED
          /\ ~InHand(finish_index)

\* At the start nothing is marked.
LEMMA CoveringAtStart == StartOfSearch => Covering
  BY MazeAssumption DEF StartOfSearch, Covering

\* Covering says nothing once the search is over.
LEMMA CoveringAfter ==
  ASSUME pc' \notin {"frontier_init", "create_visitarray", "push_start", "loop",
                     "examine"}
  PROVE  Covering'
  BY DEF Covering

LEMMA CoveringKept == ASSUME Covering, UNCHANGED searchVars PROVE Covering'
<1>1. UNCHANGED <<pc, maze, finish_index, current_index, i>> /\ Walls' = Walls
  BY DEF searchVars, input, search, Walls
<1> QED
  BY <1>1 DEF Covering, InHand, Covered

\* The steps before the search proper mark nothing.
LEMMA CoveringBegins ==
  ASSUME SInv, Covering, NoFrontier \/ HaveFrontier \/ create_visitarray \/ StartPushed
  PROVE  Covering'
<1>1. /\ UNCHANGED <<maze, start_index, finish_index>>
      /\ pc \in {"frontier_init", "create_visitarray", "push_start"}
      /\ pc' \in {"create_visitarray", "push_start", "loop", "done"}
  BY DEF NoFrontier, HaveFrontier, create_visitarray, StartPushed, Return, input
<1>2. \A x \in Indices : maze'[x] \notin {VISITED, TO_VISIT} /\ ~InHand(x)'
  BY <1>1 DEF Covering, InHand
<1>3. finish_index' \in Indices
  BY <1>1 DEF SInv, Posed
<1> QED
  BY <1>1, <1>2, <1>3 DEF Covering

\* The next position is taken in hand.
LEMMA CoveringPopped ==
  ASSUME SInv, Covering, NEW index \in Pushed, Popped(index)
  PROVE  Covering'
<1>1. /\ pc = "loop"
      /\ current_index' = index /\ i' = 0
      /\ pc' = IF index = dest_index THEN "found" ELSE "examine"
      /\ UNCHANGED <<maze, start_index, finish_index>>
  BY DEF Popped, input
<1>2. CASE index = dest_index
  BY <1>1, <1>2, CoveringAfter
<1>3. CASE index # dest_index
  <2>1. finish_index \in Indices /\ Walls' = Walls
    BY <1>1 DEF SInv, Posed, Walls
  <2>2. dest_index = finish_index
    BY <2>1, IndexToRowCol DEF dest_index
  <2>3. \A x \in Indices, d \in Directions :
           IF InHand(x)' THEN d < i' => Covered(x, d)'
                         ELSE maze'[x] = VISITED => Covered(x, d)'
    <3>1. \A x \in Indices, d \in Directions : Covered(x, d)' <=> Covered(x, d)
      BY <1>1, <2>1 DEF Covered
    <3>2. \A d \in Directions : ~(d < 0)
      BY DEF Directions
    <3> QED
      BY <1>1, <3>1, <3>2 DEF Covering, InHand
  <2>4. pc' = "examine" /\ ~InHand(finish_index)'
    BY <1>1, <1>3, <2>2 DEF InHand
  <2>5. maze'[finish_index'] # VISITED
    BY <1>1 DEF Covering
  <2> QED
    BY <1>1, <2>3, <2>4, <2>5 DEF Covering
<1> QED
  BY <1>2, <1>3

\* A neighbour has been examined: `found` is what was pushed, if anything.
LEMMA CoveringExamined ==
  ASSUME SInv, Covering, pc = "examine",
         NEW found \in SUBSET {new_index},
         maze' = [x \in Indices |-> IF x \in found THEN TO_VISIT
                                    ELSE IF x = current_index THEN VISITED
                                    ELSE maze[x]],
         found = {} => ~Fresh,
         NextDirection,
         UNCHANGED <<start_index, finish_index, current_index>>
  PROVE  Covering'
<1>1. /\ i \in Directions
      /\ current_index \in Indices
      /\ new_index \in Indices
      /\ new_index # current_index
      /\ maze \in [Indices -> Marks]
  BY Examining
<1>2. /\ i' = i + 1
      /\ pc' = IF i + 1 < N_MOVES THEN "examine" ELSE "loop"
  BY DEF NextDirection
<1>3. finish_index \in Indices /\ current_index # finish_index
  BY DEF SInv, Posed, Covering, InHand
<1>4. \A x \in Indices :
         /\ x \notin Walls' /\ maze[x] \in {WALL, VISITED, TO_VISIT}
               => maze'[x] \in {VISITED, TO_VISIT}
         /\ maze'[x] = VISITED => x = current_index \/ maze[x] = VISITED
  BY <1>1, MazeAssumption DEF Walls
<1>5. ASSUME NEW x \in Indices, NEW d \in Directions,
             IF InHand(x)' THEN d < i' ELSE maze'[x] = VISITED
      PROVE  Covered(x, d)'
  <2> DEFINE y == step(x, d)
  <2> SUFFICES ASSUME maze_valid_move(step_row(x, d), step_col(x, d)),
                      y \notin Walls'
               PROVE  maze'[y] \in {VISITED, TO_VISIT}
    BY DEF Covered
  <2>1. y \in Indices
    BY ValidStep
  <2>2. ASSUME Covered(x, d) PROVE maze'[y] \in {VISITED, TO_VISIT}
    <3>1. y \in Walls \/ maze[y] \in {VISITED, TO_VISIT}
      BY <2>2 DEF Covered
    <3> QED
      BY <1>4, <2>1, <3>1 DEF Walls
  <2>3. CASE x # current_index
    BY <1>4, <1>5, <2>2, <2>3 DEF Covering, InHand
  <2>4. CASE x = current_index /\ d = i
    <3>1. y = new_index
      BY <2>4 DEF new_index
    <3>2. CASE found = {}
      <4>1. maze[y] \in {WALL, VISITED}
        BY <2>4, <3>1, <3>2 DEF Fresh
      <4> QED
        BY <1>4, <2>1, <4>1
    <3>3. CASE found # {}
      <4>1. y \in found
        BY <3>1, <3>3
      <4> QED
        BY <2>1, <4>1
    <3> QED
      BY <3>2, <3>3
  <2>5. CASE x = current_index /\ d # i
    <3>1. d < i
      BY <1>1, <1>2, <1>5, <2>5 DEF Directions, N_MOVES, InHand
    <3> QED
      BY <2>2, <2>5, <3>1 DEF Covering, InHand
  <2> QED
    BY <2>3, <2>4, <2>5
<1>6. maze'[finish_index] # VISITED
  BY <1>3, <1>4 DEF Covering
<1> QED
  BY <1>2, <1>3, <1>5, <1>6 DEF Covering, InHand

\* Both ways to examine a neighbour.
LEMMA CoveringExamines ==
  ASSUME SInv, Covering, ExamineSkips \/ ExaminePushes
  PROVE  Covering'
<1>1. maze \in [Indices -> Marks] /\ new_index \in Indices
  BY Examining DEF ExamineSkips, ExaminePushes
<1>2. CASE ExamineSkips
  <2>1. /\ pc = "examine" /\ ~Fresh /\ NextDirection
        /\ maze' = [maze EXCEPT ![current_index] = VISITED]
        /\ UNCHANGED <<start_index, finish_index, current_index>>
    BY <1>2 DEF ExamineSkips, input
  <2>2. maze' = [x \in Indices |-> IF x \in {} THEN TO_VISIT
                                   ELSE IF x = current_index THEN VISITED
                                   ELSE maze[x]]
    BY <1>1, <2>1
  <2>3. {} \in SUBSET {new_index}
    OBVIOUS
  <2> QED
    BY <2>1, <2>2, <2>3, CoveringExamined
<1>3. CASE ExaminePushes
  <2>1. /\ pc = "examine" /\ NextDirection
        /\ maze' = [maze EXCEPT ![current_index] = VISITED,
                                ![new_index] = TO_VISIT]
        /\ UNCHANGED <<start_index, finish_index, current_index>>
    BY <1>3 DEF ExaminePushes, pushed_mark, input
  <2>2. maze' = [x \in Indices |-> IF x \in {new_index} THEN TO_VISIT
                                   ELSE IF x = current_index THEN VISITED
                                   ELSE maze[x]]
    BY <1>1, <2>1
  <2> QED
    BY <2>1, <2>2, CoveringExamined
<1> QED
  BY <1>2, <1>3

\* A visited position whose neighbours were all examined has marked neighbours.
LEMMA NeighboursMarked ==
  ASSUME Covering, pc \in {"loop", "examine"},
         NEW x \in Indices, NEW y \in Indices,
         maze[x] = VISITED, ~InHand(x), Move(Walls, x, y)
  PROVE  maze[y] \in {VISITED, TO_VISIT}
<1>1. PICK d \in Directions : /\ maze_valid_move(step_row(x, d), step_col(x, d))
                              /\ y = step(x, d)
  BY DEF Move, Directions
<1>2. Covered(x, d)
  BY DEF Covering
<1> QED
  BY <1>1, <1>2 DEF Covered, Move

\* When nothing waits, no move leaves the set of visited positions.
LEMMA NotFoundRight ==
  ASSUME SInv, Covering, NotFound, maze[start_index] = VISITED,
         \A x \in Indices : maze[x] # TO_VISIT
  PROVE  NotFoundIsRight'
<1> DEFINE S == {x \in Indices : maze[x] = VISITED}
<1>1. pc = "loop" /\ UNCHANGED <<maze, start_index, finish_index>>
  BY DEF NotFound, input
<1>2. \A x \in Indices : ~InHand(x)
  BY <1>1 DEF InHand
<1>3. start_index \in S /\ finish_index \notin S
  BY <1>1 DEF Covering, SInv, Posed
<1>4. Closed(Walls, S)
  BY <1>1, <1>2, NeighboursMarked DEF Closed
<1>5. Separates(Walls, S, start_index, finish_index)
  BY <1>3, <1>4 DEF Separates
<1>6. Walls' = Walls /\ S' = S
  BY <1>1 DEF Walls
<1> QED
  BY <1>1, <1>5, <1>6 DEF NotFoundIsRight

\* A step that gives no such answer.
LEMMA RightElsewhere == ASSUME outcome' # "NOT_FOUND" PROVE NotFoundIsRight'
  BY DEF NotFoundIsRight

-----------------------------------------------------------------------------
(* What the invariant says *)

\* The properties of MazeSearch follow from the invariant.
LEMMA SInvImplies ==
  SInv => SearchTypeOK /\ VisitTree /\ BacktrackCounts /\ LengthIsPath /\ NoAssertion
<1> SUFFICES ASSUME SInv
             PROVE  /\ SearchTypeOK /\ VisitTree /\ BacktrackCounts
                    /\ LengthIsPath /\ NoAssertion
  OBVIOUS
<1>1. SearchTypeOK /\ VisitTree /\ NoAssertion
  BY DEF SInv, NoAssertion
<1>2. BacktrackCounts
  <2>1. dest_index = finish_index
    BY IndexToRowCol DEF SInv, Posed, dest_index
  <2>2. pc = "backtrack" => /\ array_index \in (Tree \cup {start_index}) \ Path
                            /\ lengte = Cardinality(Path)
    BY ChainIsFresh DEF SInv, Chain, Pushed
  <2> QED
    BY <2>1, <2>2 DEF SInv, Searching, BacktrackCounts
<1>3. LengthIsPath
  <2> SUFFICES ASSUME outcome = "length"
               PROVE  /\ lengte = Cardinality(Path)
                      /\ finish_index \in Path
                      /\ start_index \notin Path
                      /\ \A x \in Path :
                            \E y \in Path \cup {start_index} :
                               y = visitarray[x] /\ Move(Walls, y, x)
                      /\ \E x \in Path : visitarray[x] = start_index
    BY DEF LengthIsPath
  <2>1. Chain /\ array_index = start_index
    BY DEF SInv
  <2> QED
    BY <2>1 DEF Chain, SInv, VisitTree
<1> QED
  BY <1>1, <1>2, <1>3
=============================================================================
