# Data-Structuren in TLA+

The repository holds five C programs of a course on data structures, one per
directory `src/DS Opdr N`. They share no code and no state: each reads its
standard input, drives one or two data structures of its own and ends. This
directory models them one by one in TLA+, with the fault injection that their tests
use, model-checks them with TLC and proves with TLAPS what matters most about
each of them.

Contents: [inventory](#1-inventory), [modules](#2-modules-and-how-they-correspond-to-the-code),
[runs and bounds](#3-runs-what-they-show-and-their-bounds), [fairness](#4-fairness),
[proofs](#5-proofs), [where code and docs differ](#6-where-the-code-and-its-docs-differ),
[not modelled](#7-not-modelled), [plan](#8-plan).

## 1. Inventory

No program has threads, messages or persistent data. What is hard here is:
allocations that fail between two updates of the same structure; two records of
one fact (a capacity and a block, a stored and a real height, a counter and a
chain) that drift apart; long sequences of legal calls that bring a structure into
a shape that no test built; boundaries (empty, full, wrap-around, capacity 0);
and loops that end only because of an invariant. `PROJECT.json` lists 40 such
hazards at their lines.

| Program | Part (source) | State | Operations | What makes it correct |
|---|---|---|---|---|
| 1 Maze solver | bounded queue (`queue.c`) | ring buffer, two `size_t` counters that only grow, peak | init, cleanup, push, pop, peek, empty, size | a FIFO of at most `capacity` items, whatever the counters did; no leak when the second `malloc` fails |
| | growing stack (`stack.c`) | block, capacity, top, counts | the same, with `realloc` in push | a LIFO; what is held stays in the block |
| | maze (`maze.c`) | grid of marks, start, destination | index arithmetic, get, set, valid move, `maze_read` | conversions are exact, assertions do not fail; what is read is what the text shows, and a text that is no square is refused |
| | depth-first program (`main` of `maze_solver_dfs.c`) | line buffer, maze, row | read, solve, free | on every way out all that `main` holds is freed; it ends |
| | two solvers (`maze_solver_bfs.c`, `maze_solver_dfs.c`) | marks, `visitarray` of predecessors, frontier, `backtrack` position | search loop, neighbour loop, walk back | the length returned is that of the path marked (a shortest one for BFS), NOT_FOUND is right, all ends, all is freed |
| 2 Sort | doubly linked list (`list.c`) | nodes with two pointers, head, tail | 19 functions of `list.h` | lists stay well linked; each call does to the order what it promises |
| | sort program (`main.c`) | cursors of the insertion sorts | read, three sort functions, print, clean up | the output is the sorted input; all ends |
| 3 Hash table | chained table (`hash_table.c`) | buckets, capacity, load | init, insert (resizes), lookup, delete, load factor, cleanup | a dictionary of lists of values; index, load and heap agree |
| | int array (`array.c`) | block, size, capacity | init, append, get, size | appends in order |
| | word index (`main.c`), hash functions (`hash_func.c`) | line, delimiters, file, line number | index a file, look up the words of stdin, time constructions | a lookup prints the lines of its word; every exit frees; lookups end |
| 4 Waiting room | heap (`heap.c`), array (`array.c`) | array of pointers, compare function | prioq init, insert, pop, size, cleanup | a priority queue for any consistent comparison |
| | program (`main.c`) | patients on the heap, iterations | one line at a time, drain, failure exits | every patient served in order, freed, or known to be lost |
| 5 Set | search tree (`tree.c`) | nodes with stored height; balanced (`turbo`) or not | insert, find, remove, print, cleanup | an ordered set; in balance |
| | set and program (`set.c`, `main.c`) | the handle, the input buffer | one command per line, exits | every exit frees what it owns |
| Tests | fault injection (`malloc-test.c`, `check_malloc.c`) | counters of allocations, refusals and frees | replaced `malloc`, `calloc`, `free`, `exit`; MALLOC_LOOP | a function passes exactly when it answers each refusal with an error and gives back what it got; the loop ends |

How they interact: in each program a caller owns a handle and calls the functions
of a header; the only callbacks are `hash_func` (program 3), `compare` and
`free_func` (program 4). The tests of programs 1 and 2 interpose `malloc` and its
kin between the code and the C library. The solvers push into a queue or a stack whose answer
they do not look at; `table_insert` does not look at `array_append`'s answer, nor
`prioq_insert` at `heap_insert`'s, nor the word index at `table_insert`'s. Several properties are about exactly that.

## 2. Modules and how they correspond to the code

Each detailed module names its state after the C fields and its actions after the
functions. An action is a whole call where a call has no inner loop that matters,
and an iteration where it has one (solvers, sorts, heap). Allocation is a
disjunction: it succeeds or fails. Memory that was never written is a constant
(`JUNK`, `UNINIT`). An access outside a block, a null pointer that is followed and
a remainder by zero stop the process (`aborted`, `crashed`, `CRASH`), which is
what the default builds with the address sanitizer do. History variables are
marked as such. Operators whose comment begins with "Mutant" are wrong variants
that show that a property can fail; nothing uses them.

| Module | Models | Promise it is shown to keep |
|---|---|---|
| `Queue` | `queue.c`, counters modulo `WORD` | `BoundedFifo` (`ImplementsFifo`) |
| `Stack` | `stack.c`, block and capacity apart | `Lifo` (`ImplementsLifo`) |
| `Maze` | geometry of `maze.c`; reference definitions of moves, reachability, distance, of which mazes can be read | |
| `MazeSearch` | what the two solvers share | |
| `BfsSolver`, `DfsSolver` | `MazeSearch` composed with `BoundedFifo` and `Lifo` as frontiers (the promises, which the refinements justify) | |
| `MazeProgram` | `maze_read`, `maze_init` and the `main` of the depth-first program, composed with `DfsSolver`: the solver's maze is the one that was read | |
| `List` | `list.c`, pointer by pointer | |
| `Sorting` | the users of `list.c`: any client, or `main.c` | |
| `HashTable` | `hash_table.c` and its `array.c` | `Dictionary` (`ImplementsDictionary`) |
| `HashFunctions` | `hash_func.c`, modulo the width of an `unsigned long` | |
| `WordIndex` | the users of `HashTable`: any client, or `main.c` (index and lookups, or timing) | |
| `Heap` | `heap.c` and its `array.c`, loops step by step | `PriorityQueue` (`ImplementsPriorityQueue`) |
| `WaitingRoom` | `main.c` over `Heap` | |
| `Tree` | `tree.c` as operators on tree values | |
| `SetProgram` | `set.c` and `main.c` over `Tree` | `OrderedSet` (`ImplementsSet`) |
| `MallocLoop` | the fault injection of the tests around the functions they name, or any function | |
| `MC*` | instances for TLC | |
| `StackProofs`, `HashProofs`, `RoomProofs`, `SetProofs` | theorems about `Stack`, `WordIndex` over `HashTable`, `WaitingRoom` over `Heap`, `SetProgram` over `Tree` (section 5) | |
| `ListProofs` | theorems about program 2: `Sorting` over `List`, and the `MallocLoop` of its tests | |
| `SearchProofs`, `BfsProofs`, `DfsProofs` | lemmas about `MazeSearch`; theorems about `BfsSolver` and its `Queue`, and about `DfsSolver` and the `MazeProgram` around it | |

Points worth knowing when reading them next to the code:

* `Queue`: `live_size` is a subtraction modulo `WORD`; `capacity 0` makes
  `queue_init` return NULL. After a cleanup the caller forgets the handle.
* `Stack`: `block` is what `realloc` gave, `stack_capacity` what the code believes.
  `stack_init` multiplies by `sizeof(size_t)`, hence `WIDTH`.
* `MazeSearch`: the condition of the neighbour loop is evaluated in the order of
  the code (`maze_get` before `maze_valid_move`). The current position is marked
  VISITED in every round, as in the code. `visitarray[r][c]` is stored under the
  index of `(r, c)`. Reading an entry that was never written
  gives any member of `GARBAGE`, chosen anew at each read.
* `MazeProgram`: a line is its characters and whether a newline ends it; the characters
  are a wall, the two markers and any other. The rows of `maze_read`'s loop are steps,
  so that a row can be refused after others were stored. `N` is a constant, hence the
  texts of a run have one width (or give no maze); `TextAssumption` says so.
* `List`: `list_node_present` compares the three fields, not the address. `Walk` is
  the sequence a traversal from the head meets.
* `HashTable`: `array` has the size of the block, `capacity` the one the code goes
  by. A chain is the set of its nodes: every walk along one looks for a key, and a key
  has at most one node (part of `IndexSound`, so this is checked, not assumed), hence the
  order of a chain decides nothing that is answered, printed or freed. The hash
  functions are a table of values (`HASH`), so that the properties do not rest on what
  they compute; `MCHash` fills it with `HashFunctions`.
* `WordIndex`: a step is one library call and what follows it; `stage` is the place in
  `main`, `held` what it must give back, `round` the loops of `timed_construction`.
  `read` and `output` are history variables that stand for the counters `line_number`
  and `i` besides. A line is a sequence of words.
* `MallocLoop`: `other` is a function without any rule; the functions that the tests
  name follow the rule of their code (ask in turn; when refused, free and answer).
* `Heap`: between the calls `at` is "idle"; the loops move `i`. The NULL checks on
  elements never matter, since `prioq_insert` refuses NULL.
* `Tree`: recursion of the code is recursion here, by recursive functions over the
  trees of at most `MAX_NODES` levels, with the height bookkeeping at the same
  places; a function that follows a null pointer gives `CRASH`. Since a node is a value,
  the node blocks are counted in `nodes` beside the tree, and `calloc` may fail at any
  time and does at `MAX_NODES`.

## 3. Runs, what they show, and their bounds

| Run | Checks | Bounds, and why they are enough |
|---|---|---|
| `MCQueue` | FIFO refinement, leaks | capacities 0, 1, 2, 4, counters that wrap at 8: pushes are unbounded, so the ring goes round and the counters wrap in every alignment. Capacities divide `WORD`; for others the slot jumps at the wrap, after 2^64 pushes in the code |
| `MCStack` | LIFO refinement, block contents, growth | capacities 0, 1, 2 and 7 pushes: two growths (1, 3, 7), each of which may fail |
| `MCBfs` | shortest path, sound NOT_FOUND, walk back, termination | all 512 interiors of 5x5 mazes, three starts (corner, edge, centre), all destinations: detours, several shortest paths, positions pushed twice; `STACK_SIZE` 9 is the number of inner positions, so the queue never fills |
| `MCBfsAny` | predecessors are a tree, assertions | 5x5 mazes of every interior, border of wall or of floor, eight starts and six destinations inside and on the border, start = destination included; queue of 2: the first position alone may have four neighbours to push, so pushes are refused and still recorded |
| `MCBfsShort` | *violation*: the length is that of a shortest path | 5x5, queue of 3 |
| `MCMazeProgram` | what is read, what is freed, nothing forgotten, NOT_FOUND, termination | the texts of the mazes of `MCBfs`, markers left out and repeated, a start on the border, a start that is the destination, and every way of being no square (too few and too many rows, short and long lines, no newline, empty), N = 5; a stack that grows from 4; each allocation may fail |
| `MCSorting` | well-linked lists, order kept by calls, sorted output, termination | client: two lists, three nodes, two values, which reaches lists of one, two and three nodes, cuts, moves between lists and equal-looking nodes; `main`: all inputs of at most four ints of {-1, 1, 2} |
| `MCHash` | dictionary refinement, index, sizes, load; output, frees and end of the word index | client: three keys that share a bucket of two (two of them one of four), capacities 0 and 2 that double several times, arrays that grow from 1, two load factors. `main`: files of two lines of up to two words, a table that starts at 1 and grows three times, all three hash functions in `timed_construction` |
| `MCRoom` | priority-queue refinement, heap order, accounting, drain | up to six patients of four kinds (equal ones too), both orders, three iterations, array that grows from 2 to 6 or fails to: heaps of depth three with one and two children at the end |
| `MCSet` | set refinement, nodes, heights, balance, exits | all sequences over six numbers, so that six nodes are all that is ever asked for (an operand that is another modulo the width of an int besides), both trees, failing allocations, all exits: every rotation, at the root and below |
| `MCSetTurbo` | *violation*: an operation on a set returns | as above |
| `MCMalloc` | verdict, termination | the six tested functions and one with up to four allocations and four frees per call, in any order: enough for two blocks to be leaked, freed twice over, or asked for after a refusal |

`CHECK_DEADLOCK FALSE` stands where a program ends or an aborted process stops.
`INT_VALUES`, `WORD` and `WIDTH` are the machine's widths; `MAX_PUSHES`,
`MAX_LENGTH` (how far `backtrack` is followed; only a walk that began at an unwritten entry gets
there), `GARBAGE` (what an unwritten entry may hold: no index, and three of the indices), `MAX_VALUES`, `MAX_LINES`,
`MAX_WORDS`, `MAX_CALLS`, `MAX_PATIENTS`, `MAX_NODES`,
`CLIENT_NODES`, `CLIENT_VALUES`, `Values` and the number of nodes are bounds on the
environment, named in the modules.

What the properties say, beyond the tables:

* `VisitTree`: although the entry of a waiting position is overwritten when it is
  pushed again, the predecessors never form a cycle and every entry is one move.
* `NothingForgotten`: between two positions each waiting one is on the stack and each
  neighbour of a visited one is marked; this is why NOT_FOUND is right.
* `ReadRight`: `maze_read` is judged by the text, with a definition of a square text that
  does not follow its loop: what is accepted is searched as the text shows it, what is
  no square is refused, and the one text that stops the process is described.
* `HeapMatchesHandle`, `ProgramFrees`, `IndexSound`, `MainFreesAll`, `PatientsAccounted`,
  `ExitFreesAll`: who owns the memory, also after failures - including which memory
  is *not* freed where the code forgets it.
* `SizesAgree`, `HeldIsOwned`, `RoomWhileMemoryLasts`: `memory_lasts` is chosen once
  per behaviour. As long as no allocation fails the believed and the real sizes agree;
  section 6 says what happens otherwise.
* `PrintsOccurrences`: what a lookup prints is compared with the file, not with the
  table: with memory enough each line of the word is found in order and as often as the
  word occurs in it, through all resizes of the table and the arrays; with failing
  allocations some can be missing but none is wrong.
* `VerdictExact`: the harness is judged by what the calls really did (`faults`, a history
  variable), in both directions, for functions that do not free NULL.
* `LoadBounded`: the load factor may reach the maximum and pass it by less than one
  node, because it is tested before the insertion.
* `HeightsLagByOne`, `InsertsBalance`: a new leaf stores height 0, which is also the
  height of no node; the stored heights are one too low in some subtrees and right in
  others. Insertions still keep the depths of two siblings at most two apart (an AVL
  tree promises one); removals keep no such bound.
* `CrashesOnlyTurbo`: only the balanced tree can stop the process, and an insertion
  does so only after a removal, however many allocations failed.
* `CallsKeepOrder`: what each list call does to the sequence of nodes. `list_node_present`
  compares fields, so a new node that stands alone is taken for the only node of a list
  of one when their values are equal (`Twin`). The property says exactly what follows:
  an insertion is refused for a twin and for no other node, and only a twin makes a call
  crash.
* `ProgramEnds`: the one run that need not end is a text whose start is its destination
  (`Astray`), as with the D at (1, 1) and no S. Without that exception TLC finds the walk
  of `backtrack` that goes round entries never written.
* `PatientsAccounted`: on the failure exits the waiting patients are freed too, but for
  the names of all of them, or for the patient in hand, as the code forgets either.

## 4. Fairness

The programs are sequential and run by themselves between inputs, so weak fairness
on their own steps is justified: `BfsSolver` on every step (the maze is read before),
`MazeProgram` on every step (the text is there from the start), `MallocLoop` on every
step (a function under test that never returned would hang any test; its calls are
bounded), `WordIndex` on the steps of `main` that wait for no line, `Sorting` on the work of `main` (not on its input: it may wait for
ever, and a list client is never forced to call), `WaitingRoom` on the drain and the
loops of the heap (not on lines). `ProgramEnds` excepts the text whose start is its destination, where no
fairness helps. `Terminates`, `ProgramEnds`, `LookupsEnd`, `TestEnds`, `SortEnds` and `DrainEnds` rest on
nothing else. The queue, the stack and the set have no liveness: each call is one action
that is enabled whenever its guard holds.

## 5. Proofs

All theorems hold for every value of the constants; the assumptions are the named
`ASSUME`s of the modules (which TLC evaluates in the runs) and what a theorem's own
ASSUME says.

**Queue** (end of `BfsProofs`, assumption `SlotsGoOn`: either fewer pushes than a `size_t`
can count, `NoWrap`, or capacities that divide its range, as those of `MCQueue` do). The
invariant `QueueInv` says, beyond types, that the counters are at most the peak apart
(and in order until they wrap), the peak at most the capacity, and that every slot
between them was written. `QueueTyped`, `NoLeak` and `CapacityKept` follow.
`RingBufferImplementsFifo` shows that every step is a step of `BoundedFifo` or
stutters. The central lemmas are `SlotsDiffer` (two counts less than a capacity apart
have different remainders, by uniqueness of division), `PushSlot` and `PopSlots` (the
slots count on from that of `pop_count`, over the wrap of the counters too, by
`WordSlot`: a whole range further is the same slot), `PushAppends` and `PopTakesHead`.
Outside `SlotsGoOn` it can fail: TLC finds the order broken at capacity 3 with counters
that wrap at 8, where the slot jumps as it would in the code after 2^64 pushes.

**Stack** (`StackProofs`, no assumption beyond those of `Stack`: `realloc` may fail at any
time, capacities and pushes are unlimited). `HeldIsOwned` and `RoomWhileMemoryLasts` are
inductive once `Handle` adds that the top stays below the capacity: since a push resizes
at the capacity, the block asked for (`2 * capacity + 1`) has room for it. The LIFO
refinement follows from `PushKeeps` (growing and writing at the top change no slot
below). `DfsProofs` and `MazeProgram` use the LIFO in the stack's place; this is what
entitles them to.

**Solvers** (`SearchProofs` for what they share, `BfsProofs`, `DfsProofs`; assumption
`AllWellPosed`: starts inside the border and different from the destination). `SInv`
strengthens `VisitTree` with: the start has no predecessor, nothing is recorded
before the start was examined, what is examined was pushed, and during the walk back the
marked path is a chain of the tree that ends where `backtrack` stands, with as many
positions as `lengte` says. That chain is what keeps the positions
distinct and the count right; without the tree being free of cycles the step of the
walk back cannot be proved. The acyclicity is stated as "no non-empty set of
positions refers only to itself", which a push preserves because the position pushed
is not VISITED and so is nobody's predecessor. `BfsProofs` adds that all queued
positions are recorded; a refused push preserves this, so these results hold for a queue
that fills up as well.

For NOT_FOUND two more parts are needed: `Covering` (every neighbour of a visited
position is marked, but for the directions that are still to be tried; shared, in
`SearchProofs`) and each solver's own `NoLoss` (what waits is in the frontier or in
hand). The stack loses no push, so depth first has them always; `NoneForgotten` and
`NotFoundIsSound` follow.

**Shortest paths** (`BfsProofs!ShortestUnlessRefused`; premise `[][~Refused]_vars`: no
push meets a full queue). Two facts carry it. The queue is ordered by distance and holds
two successive distances at most (`InOrder`); and the predecessor of a waiting position,
of whatever was pushed last, is one nearer to the start (`Descends`). The second is not
the textbook argument, since this solver pushes a position that waits again and
overwrites its entry: it holds because the grid is a chessboard (`DistancesDiffer`: the
distances of neighbours differ in parity), so that the second push comes from a position
as near as the first. In a grid with diagonal moves the code would be wrong. From both
follows `NearerVisited`: all that is nearer than the front of the queue was visited, so
the destination is found at its distance, and the walk back descends one at a time. The
reference definition `Distance` of `Maze` is by a recursive function (`Ball`); its
recursion is justified, and its radii compared, by least elements
(`BallIs`, `BallsGrow`).

The premise is about behaviours because there is no useful bound on the constants that
would replace it: a position is pushed once for each of its neighbours that is examined,
and examined once for each time it was pushed, so the waiting positions count shortest
paths, whose number is exponential in an open maze. In `MCBfs` (capacity 9, interior
3x3) no push is ever refused, so there the premise is met; in `MCBfsShort` it is not,
and the conclusion fails.

**Program around the search** (`DfsProofs`, over `MazeProgram`; only the assumptions on
the constants). `ProgramInv` says what `held` is at each place of `main`, that the
rows above `row` are those of the text with `start_index` and `finish_index` the last
marks above it, and that the solver has not moved before it is called. `TextIsReadRight`
and `ProgramFreesAll` need no assumption on the text; `ProgramSearchesRight` joins the
two halves: whatever is read, either the start is where the solver may not begin (on the
border, or at the destination), or the invariant of the solver holds of it.

**Word index and hash table** (`HashProofs`, for any hash functions, keys, files, number of
growths and failed allocations). `TInv`: the table is the set of its nodes, distributed
over the chains by hash (`array = ByHash(...)`), no two nodes with one key, `load` and
`blocks` count them, and the capacity is a multiple of the size (larger after a resize
without memory). One equation for the whole table makes each call a statement about a
set: `table_insert` adds or replaces one node, `resize` changes the distribution and no
node. `IndexIsSound` and `SizesStayEqual` follow. `IInv` adds what `main` holds at each
stage, hence `MainEndsClean`. For `TableImplementsDictionary` the map of `Dictionary` is
read off the nodes (`EntriesAreData`). `LookupPrintsOccurrences` relates that map to the
file: what is listed for a word is an ordered list of its lines with the multiplicity of
each, except for the words of the last line that `strtok` has still to give (`Listed`,
`IndexOK`); while it prints, the index is the one of the lookup (`PrintOK`).
`LoadIsBounded` is about `TableSpec`, any client of the library, since its premise
(a maximum that lets one node in) speaks of the client's choice of capacities.

**Waiting room** (`RoomProofs`, for any number of patients, iterations, capacity and
memory). `EveryPatientAccounted` needs that the array holds at most those admitted and
not lost. `HeapButOne` is the invariant of both loops: all edges are in order but those
at `i`, upwards while an element rises and downwards while one sinks, and the children of
`i` are in order with its parent; without the latter the swap cannot be proved to restore
the parent's edge. `HeapInOrder` is its case `at = "idle"`. For
`HeapImplementsPriorityQueue` swaps keep the bag of elements, and the root comes before
every element by a least element that it would not precede (a child is one index above
its parent at least). The premise `AgesFit`: no difference of two ages overflows an int; without it
`compare_patient_age` is no order and the heap promises nothing.

**Lists and sort program** (`ListProofs`, for any number of nodes, lists and values and
inputs of any length; assumption `ListAssumption`: finitely many nodes). The invariant
says that there *is* a function `sq` from handles to sequences of nodes that describes the
pointers (`Lists(sq)`): no node occurs twice (`Apart`), heads and tails are the ends
(`Ends`), each node points to its neighbours in the sequence (`Links`), and other nodes to
none (`Loose`). A witness is easier to carry from state to state than the walk itself, which
no step changes in one place: `Walks` shows once that the walk from a head meets exactly
the sequence, cut off at the number of nodes or not, and each call puts one node into one
sequence (`Inserted`), takes one out (`Removed`), cuts one in two (`CutOff`), or keeps
them. `ListsWellLinked` follows. For `OrderOfCalls` the sequences before and after a call are
compared with the operators that the property names. The one way to crash is
`list_node_present` finding an equal node that is another one; `PresentOf` says when that is
possible, and `ClientCrash` that nothing else makes a call follow a null pointer.

For `main` the invariant says at each place of the sort functions what is true
(`MainInv`): the part of the list before `current_node` is sorted (`SortedTo`), what the
inner loop passed belongs before the number in hand (`Searched`), the node in hand is in no
list, and all others are the list's, so that the numbers allocated are those read
(`Numbers`), counted by value. `OutputSorted` is what remains when the cursor is at the
end. `insertion_sort` takes up again nodes that it has placed; the invariant covers this,
because `SortedTo` speaks of positions and not of nodes. That `main` never crashes
(`MainNeverCrashes`) is not a consequence of the lists alone: `list_insert_after` is called
only for a node that was unlinked before and that goes between two nodes of the list, and in
a list of two nodes none looks like one outside; at the front `list_add_front` is called,
which compares nothing.

**Set and its trees** (`SetProofs`, for any operands, width of an int and number of nodes,
both trees, and a `calloc` that fails at any time; only the assumptions on the constants).
First what the recursive functions compute: `TreeRecursion` shows that a function given by
its value at NULL and by one step from two subtrees to a node exists, so that the functions
of `Tree` satisfy their equations (`InsertIs`, `DeleteIs`, `FindIs`, `PrintIs`, ...), and
`TreeInduction` that what passes from two subtrees to a node holds of every tree. On this
rest the numbers of a tree (`DataOf`), its nodes (`SubOf`), their count (`SizeOf`) and depth
(`DepOf`).

The invariant `IInv` says that the tree is `Sound`: sorted, with as many nodes as are
allocated, its stored heights lagging by one at most; that a balanced tree without removals
is `Even`; and what is on the heap at each outcome. Sortedness is needed for nearly
everything: without it an insertion could put a number where `tree_find` does not look, and
equal numbers in two places would make the removal of a successor take the wrong node.
`RightRotateKeeps`, `LeftRotateKeeps` and `BalanceKeeps` show that a rotation keeps numbers,
nodes, order and lag; `InsertKeeps` and `DeleteKeeps` lift this to the whole descent, the
latter with the removal of the successor inside the removal of a number (`LeftmostLeast`: it
is the least of the right subtree, so its copy keeps the order).

`Even` is the stronger invariant behind `InsertsBalance` and `CrashesOnlyTurbo`: stored
heights of siblings differ by one at most, and each is exact above the stored heights below
it, but for a leaf, which may have 0 or 1. `InsertGrows` proves it with what an
induction needs besides: a subtree grows by one level at most, and if it does it leans towards the
number inserted (`Leans`). That is why `balance_node`, which chooses by where the number
lies and not by which side is higher, chooses right, and why the inner subtree of a double
rotation is there. After a removal the number says nothing about the higher side; so
neither property goes further, and `MCSetTurbo` shows the crash. `Refines` maps
the numbers of the tree to those of the set.

**Fault injection** (end of `ListProofs`, for every bound `MAX_CALLS`). `VerdictExact` follows
from an invariant that relates the counters to the history: without a fault the blocks
held are the allocations granted less the frees, and at most one allocation was refused;
so `allocations - 1 = frees` says exactly that nothing is held.

| Theorem | States |
|---|---|
| `BfsProofs!QueueTyped`, `NoLeak`, `CapacityKept`, `RingBufferImplementsFifo` | `QueueTypeOK`, `HeapMatchesHandle`, `WithinCapacity`, `ImplementsFifo` of `Queue` |
| `StackProofs!NoLeak`, `HeldStaysOwned`, `PushesHaveRoom`, `GrowingArrayImplementsLifo` | `HeapMatchesHandle`, `HeldIsOwned`, `RoomWhileMemoryLasts`, `ImplementsLifo` of `Stack` |
| `BfsProofs!TypeCorrect`, `VisitarrayIsTree`, `WalkBackCounts`, `LengthIsSound`, `SafeAndClean`, `ShortestUnlessRefused` | `TypeOK`, `VisitTree`, `BacktrackCounts`, `LengthIsPath`, no failed assertion with `FreedOnReturn`, and `LengthIsShortest` with `NotFoundIsRight` |
| `DfsProofs!TypeCorrect`, `PathIsSound`, `SafeAndClean`, `NoneForgotten`, `NotFoundIsSound` | the same for depth first, with `NothingForgotten` and `NotFoundIsRight` |
| `DfsProofs!TextIsReadRight`, `ProgramFreesAll`, `ProgramSearchesRight` | `ReadRight`, `ProgramFrees` of `MazeProgram`, and all of the above for the maze of any text |
| `HashProofs!IndexIsSound`, `SizesStayEqual`, `LoadIsBounded`, `TableImplementsDictionary` | `IndexSound`, `SizesAgree`, `LoadBounded`, `ImplementsDictionary` of `HashTable` |
| `HashProofs!MainEndsClean`, `LookupPrintsOccurrences` | `MainFreesAll`, `PrintsOccurrences` of `WordIndex` |
| `RoomProofs!HeapInOrder`, `HeapImplementsPriorityQueue`, `EveryPatientAccounted` | `HeapOrder`, `ImplementsPriorityQueue` of `Heap`, `PatientsAccounted` of `WaitingRoom` |
| `ListProofs!ListsWellLinked`, `OrderOfCalls` | `WellLinked`, `CallsKeepOrder` of `List` |
| `ListProofs!OutputSorted`, `MainNeverCrashes` | `SortedOutput` of `Sorting`, and that `main` follows no null pointer |
| `SetProofs!Accounted`, `Lags`, `Balances`, `Frees`, `Crashes`, `Refines` | `NodesAccounted`, `HeightsLagByOne`, `InsertsBalance`, `ExitFreesAll`, `CrashesOnlyTurbo`, `ImplementsSet` of `SetProgram` |
| `ListProofs!VerdictIsExact` | `VerdictExact` of `MallocLoop` |

The assumptions on constants are ranges (what a `size_t` or an array of settings can
be), except these, each met by the code's own constants: `QueueOfPatients` (what the
heap holds are patients and its comparisons those of `main.c`), `IndexAssumption` (there
is something to time, and fewer words than `ULONG_MAX`), `TextAssumption` (`getline`
returns lines, of the width `N` where the text may be a square) and `SlotsGoOn`.

What is proved for every value is not always run as well: types, `WithinCapacity` and
`FreedOnReturn` have theorems and no run of their own.

Induction is by least elements throughout (`LeastElement`, or well-founded subsets of a
finite set): a theorem with an operator as parameter, as the usual rule of induction is,
cannot be instantiated by the installed provers, but the set of counterexamples can. This
reaches recursive functions (`Ball` of `Maze`, those of `Tree`), which is why no module
that is proved about has a RECURSIVE operator.

Only model-checked: every liveness property (`Terminates`, `ProgramEnds`, `LookupsEnd`,
`TestEnds`, `SortEnds`, `DrainEnds`: fairness and ENABLED are out of the prover's reach);
the hash functions themselves (the theorems hold for any). The two violations are shown by TLC.

## 6. Where the code and its docs differ

Shown by a run (`findings` in `PROJECT.json`):

* `maze_solver_bfs.c:125`: when the queue is full a push is dropped and the length may
  not be the shortest (`MCBfsShort`; comment at `maze_solver_bfs.c:78`). With
  `STACK_SIZE` 4000 an open maze of 16x16 is enough, since positions are pushed more
  than once.
* `tree.c:154`: rebalancing after a removal follows a null pointer (`MCSetTurbo`;
  `tree.h:23`). It needs no failed allocation; the sequence
  +14 +4 +13 +9 +6 +7 +3 -7 +15 +2 +16 -4 +12 makes even an insertion do it.

Modelled as the code does it, and not given a run of their own:

* A failed `realloc` is not noticed (`stack.c:99`): a later push writes outside the block
  and does not return 1 (`stack.h:19`).
* A text whose last line lacks its newline is refused although it is a square; one whose
  last line has one character more stops the process at an assertion (`maze.c:182`).
* `queue_peek` answers 1 on an empty queue (`queue.c:111`; `queue.h:27` says -1);
  `stack_peek` reads below the block on an empty stack (`stack.c:135`).
* The breadth-first solver may answer NOT_FOUND for a reachable destination when the
  queue fills; with start = destination `backtrack` reads an entry that was never
  written, and walks for ever or stops at an assertion (`maze_solver_bfs.c:24`,
  `maze_solver_dfs.c:24`); a row of `visitarray` that cannot be had leaks the rows before it and the
  frontier (`maze_solver_bfs.c:70`).
* `list_node_present` compares fields (`list.c:200`; `list.h:64`): inserting a fresh
  node into a list of one equal value is refused, and a node of another list may be
  followed to a null pointer.
* `remove_odd` keeps negative odd numbers and lists of one (`main.c:106-117`).
* The load factor may exceed its maximum (`check_hash_resize.c:41` says it cannot);
  `resize_bucket` and `array_append` raise capacities before they have the block; a
  lookup that then computes an index outside the block stops the process; a table of
  capacity 0 divides by zero; `table_insert` answers 0 when the append failed.
* The lookup of a word that is not in the index prints `* -1` 2^64 - 1 times
  (`main.c:119`; `array.h:21-22` leaves the size of NULL undefined, and the code answers -1). Only the first word
  of a line is looked up (`main.c:115`; the comment at `main.c:103` says "per word"), and
  a line without one passes NULL to `printf`. When there is no memory for the
  delimiters, `strtok` follows the null pointer (`main.c:83,111`).
* The fault injection counts a `free` of NULL as a block given back (`malloc-test.c:86`),
  so that a function that leaks one block and frees NULL once passes; a function that
  asks again after a refusal fails even if it gives everything back. `realloc` is not
  replaced: the growth of stack, arrays and heap is never refused by a test.
* `prioq_insert` answers 0 when the array cannot grow, and the patient is never freed
  (`heap.c:104`); at the end of the input the names leak (`WaitingRoom` `main.c:82`);
  an age that is missing is whatever `malloc` returned.
* `tree_insert` answers 0 when there was no memory (`tree.h:14` says -1);
  `set_cleanup`, `set_print` and `set_verify` follow a NULL set (`set.c:69,78,86`) and
  `main` goes on after `set_init` failed; `tree_dot` ends the process with the set
  allocated.

## 7. Not modelled

* Printing and files: `queue_stats`, `stack_stats`, `maze_print`, `maze_output_ppm`, the
  text of `tree_dot`, the clock of `timed_construction`. They read the state and change
  none of it.
* Input as text: `strtok`, `strtol`, `tolower`; the models take numbers, names, words and
  commands. Lines longer than the buffer are further lines.
* Answers to NULL arguments of `list.h` and `prioq.h`, which return at once.
* `main` of the breadth-first program, which differs from that of the depth-first one in the name of the solver alone.
* `prot.c`, which is not built, and the test drivers other than the fault injection:
  they hold no state, but fixed sequences of calls that the models' clients include.
* Overflow of `age` differences is in `WaitingRoom!difference`, with ages in `MCRoom`
  that do not overflow; with ages 2^31 apart the comparison is not an order.

## 8. Plan

Done: all five programs and the fault injection of the tests modelled and checked, and
every safety property and refinement that a run checks proved for every value of the
constants, under the assumptions of section 5.

Left: the stack of `MazeProgram`, composed with `Stack` itself instead of its `Lifo`.
