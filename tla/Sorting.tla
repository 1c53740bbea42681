------------------------------- MODULE Sorting -------------------------------
(***************************************************************************)
(* The users of list.c: a client that makes any call (`user` = "client"),    *)
(* or the program of main.c (`user` = "main"), which reads ints, sorts them  *)
(* by the way its options choose, prints and cleans up.  The steps of main   *)
(* are its calls of list.c and the iterations of its loops; `stage` says     *)
(* what it does next.                                                        *)
(* Abstracted: the text of the input, the options -c and -z, which change    *)
(* nothing, and a failing list_init, after which main ends at once.          *)
(***************************************************************************)
EXTENDS List

CONSTANTS
    Values,        \* bound: the ints in the input
    LIST,          \* main's list
    CLIENT_NODES,  \* bound: nodes that a client has at one time
    CLIENT_VALUES  \* bound: the ints that a client puts in them

ASSUME SortingAssumption ==
    /\ LIST \in ListId /\ CLIENT_NODES \in Nat
    /\ Values \subseteq Int /\ CLIENT_VALUES \subseteq Int

VARIABLES
    user,
    function,   \* "insertion_sort", "descending_order" or "remove_odd"
    stage,
    current_node, next_node, insertion_node, previous_node,
    read,       \* history: the ints read
    printed

cursors == <<current_node, next_node, insertion_node, previous_node>>
main_vars == <<user, function, stage, cursors, read, printed>>
vars == <<list_vars, main_vars>>

SortInit ==
    /\ function \in {"insertion_sort", "descending_order", "remove_odd"}
    /\ stage = "reading"
    /\ current_node = NULL
    /\ next_node = NULL
    /\ insertion_node = NULL
    /\ previous_node = NULL
    /\ read = <<>>
    /\ printed = <<>>

Init ==
    \/ user = "client" /\ ListInit /\ SortInit /\ function = "insertion_sort"
    \/ user = "main" /\ ListInit /\ SortInit

\* list_next and list_node_get_value.
next_of(p) == IF p = NULL THEN NULL ELSE next[p]
value_of(p) == IF p = NULL THEN 0 ELSE value[p]

At(here, there) == stage = here /\ stage' = there

-----------------------------------------------------------------------------
(* main: from the input to the call of a sorting function *)

MakeList ==
    /\ stage = "reading" /\ LIST \notin live
    /\ list_init(LIST)
    /\ UNCHANGED main_vars

Read(v) ==
    /\ stage = "reading" /\ LIST \in live
    /\ Node \ allocated # {}
    /\ list_new_node(v)
    /\ stage' = IF answer' = NULL THEN "failed" ELSE "add"
    /\ read' = Append(read, v)
    /\ UNCHANGED <<user, function, cursors, printed>>

AddBack ==
    /\ At("add", "reading")
    /\ list_add_back(LIST, answer)
    /\ UNCHANGED <<user, function, cursors, read, printed>>

EndOfInput ==
    /\ LIST \in live
    /\ At("reading", "start")
    /\ UNCHANGED <<list_vars, user, function, cursors, read, printed>>

-----------------------------------------------------------------------------
(* insertion_sort, descending_order and remove_odd *)

\* The test at the start of each function, and its first node.
Start ==
    /\ stage = "start"
    /\ \/ /\ next_of(head[LIST]) = NULL
          /\ stage' = "print"
          /\ UNCHANGED current_node
       \/ /\ next_of(head[LIST]) # NULL
          /\ stage' = IF function = "remove_odd" THEN "odd" ELSE "outer"
          /\ current_node' = IF function = "remove_odd" THEN head[LIST]
                             ELSE next[head[LIST]]
    /\ UNCHANGED <<list_vars, user, function, next_node, insertion_node,
                   previous_node, read, printed>>

\* The head of the outer loop.
Outer ==
    /\ stage = "outer"
    /\ \/ /\ current_node = NULL
          /\ stage' = "print"
          /\ UNCHANGED cursors
       \/ /\ current_node # NULL
          /\ stage' = "inner"
          /\ next_node' = next[current_node]
          /\ insertion_node' = head[LIST]
          /\ previous_node' = NULL
          /\ UNCHANGED current_node
    /\ UNCHANGED <<list_vars, user, function, read, printed>>

\* Mutant: both functions compare as insertion_sort does.
passes_same ==
    insertion_node # current_node /\ value_of(insertion_node) <= value_of(current_node)

\* Mutant: the inner loop does not stop at the current node.
passes_on ==
    IF function = "insertion_sort"
    THEN value_of(insertion_node) <= value_of(current_node)
    ELSE value_of(insertion_node) > value_of(current_node)

\* The condition of the inner loop.
passes ==
    /\ insertion_node # current_node
    /\ IF function = "insertion_sort"
       THEN value_of(insertion_node) <= value_of(current_node)
       ELSE value_of(insertion_node) > value_of(current_node)

Inner ==
    /\ stage = "inner"
    /\ \/ /\ passes
          /\ previous_node' = insertion_node
          /\ insertion_node' = next_of(insertion_node)
          /\ UNCHANGED stage
       \/ /\ ~passes
          /\ stage' = IF insertion_node # current_node THEN "unlink" ELSE "advance"
          /\ UNCHANGED <<insertion_node, previous_node>>
    /\ UNCHANGED <<list_vars, user, function, current_node, next_node, read, printed>>

Unlink ==
    /\ At("unlink", "insert")
    /\ list_unlink_node(LIST, current_node)
    /\ UNCHANGED <<user, function, cursors, read, printed>>

Insert ==
    /\ At("insert", "advance")
    /\ \/ previous_node = NULL /\ list_add_front(LIST, current_node)
       \/ previous_node # NULL /\ list_insert_after(LIST, current_node, previous_node)
    /\ UNCHANGED <<user, function, cursors, read, printed>>

\* insertion_sort goes on behind the place where the node stands now, the
\* others behind the place where it stood.
Advance ==
    /\ At("advance", "outer")
    /\ current_node' = IF function = "insertion_sort" THEN next_of(current_node)
                       ELSE next_node
    /\ UNCHANGED <<list_vars, user, function, next_node, insertion_node,
                   previous_node, read, printed>>

\* C's remainder by 2.
rem2(x) == IF x < 0 THEN -((-x) % 2) ELSE x % 2

\* An iteration of the loop of remove_odd, which ends in descending_order.
Odd ==
    /\ stage = "odd"
    /\ \/ /\ current_node = NULL
          /\ stage' = "start"
          /\ function' = "descending_order"
          /\ UNCHANGED <<cursors, list_vars>>
       \/ /\ current_node # NULL
          /\ next_node' = next[current_node]
          /\ UNCHANGED <<function, insertion_node, previous_node>>
          /\ \/ /\ rem2(value[current_node]) = 1
                /\ list_unlink_node(LIST, current_node)
                /\ stage' = "free"
                /\ UNCHANGED current_node
             \/ /\ rem2(value[current_node]) # 1
                /\ current_node' = next_node'
                /\ UNCHANGED <<list_vars, stage>>
    /\ UNCHANGED <<user, read, printed>>

FreeOdd ==
    /\ At("free", "odd")
    /\ list_free_node(current_node)
    /\ current_node' = next_node
    /\ UNCHANGED <<user, function, next_node, insertion_node, previous_node,
                   read, printed>>

-----------------------------------------------------------------------------
(* main: to the end *)

PrintList ==
    /\ At("print", "cleanup")
    /\ printed' = [k \in 1..Len(Walk(LIST)) |-> value[Walk(LIST)[k]]]
    /\ UNCHANGED <<list_vars, user, function, cursors, read>>

CleanUp ==
    /\ At("cleanup", "done")
    /\ list_cleanup(LIST)
    /\ UNCHANGED <<user, function, cursors, read, printed>>

Main == MakeList \/ (\E v \in Values : Read(v)) \/ EndOfInput

Work ==
    \/ AddBack \/ Start \/ Outer \/ Inner \/ Unlink \/ Insert \/ Advance
    \/ Odd \/ FreeOdd \/ PrintList \/ CleanUp

Next ==
    /\ ~crashed
    /\ \/ user = "main" /\ (Main \/ Work)
       \/ /\ user = "client"
          /\ Client(CLIENT_VALUES)
          /\ Cardinality(allocated') <= CLIENT_NODES
          /\ UNCHANGED main_vars

Spec == Init /\ [][Next]_vars

\* main runs by itself but for its input.
FairSpec == Spec /\ WF_vars(user = "main" /\ Work)

-----------------------------------------------------------------------------
(* Properties *)

Count(s, v) == Cardinality({k \in 1..Len(s) : s[k] = v})

\* What is printed: all that was read, ascending for insertion_sort and
\* descending for the others; remove_odd drops the positive odd numbers only,
\* and drops and sorts nothing when there are fewer than two.  (function is
\* "descending_order" for a remove_odd that got to its end.)
SortedOutput ==
    stage = "cleanup" =>
        /\ \A j, k \in 1..Len(printed) :
              j < k => IF function = "insertion_sort" THEN printed[j] <= printed[k]
                       ELSE printed[j] >= printed[k]
        /\ \A v \in Values :
              \/ Count(printed, v) = Count(read, v)
              \/ rem2(v) = 1 /\ Count(printed, v) = 0 /\ Len(read) > 1
                 /\ function = "descending_order"

\* Every sorting function returns and main ends, although insertion_sort takes
\* up again nodes that it has placed.
SortEnds == stage = "start" ~> stage = "done"
=============================================================================
