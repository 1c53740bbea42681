-------------------------------- MODULE Tree --------------------------------
(***************************************************************************)
(* The search tree of tree.c as a value: NULL, or a node with its data, its *)
(* two subtrees and the height stored in it.  The operators have the names  *)
(* of the functions and return the tree that the function leaves behind,    *)
(* or CRASH when it follows a null pointer on the way.                      *)
(* Abstracted: the addresses of the nodes, and the text of tree_dot.        *)
(***************************************************************************)
EXTENDS Integers, Sequences

CONSTANT MAX_NODES  \* bound: the nodes that calloc can give at a time

ASSUME TreeAssumption == MAX_NODES \in Nat

NULL == [null |-> TRUE]    \* the null pointer
CRASH == [crash |-> TRUE]  \* no tree: the function followed a null pointer

\* The trees of at most k levels, and those that calloc has the nodes for.
Trees[k \in Nat] ==
    IF k = 0 THEN {NULL}
    ELSE LET T == Trees[k - 1]
         IN  {NULL} \cup [data : Int, lhs : T, rhs : T, height : Nat]

AllTrees == Trees[MAX_NODES]

\* make_node: calloc leaves the height of a new leaf at 0, that of no node.
make_node(d) == [data |-> d, lhs |-> NULL, rhs |-> NULL, height |-> 0]

height(n) == IF n = NULL THEN 0 ELSE n.height
max(a, b) == IF a > b THEN a ELSE b
get_balance(n) == height(n.lhs) - height(n.rhs)

\* A node whose height is computed anew from its subtrees.
Raised(n) == [n EXCEPT !.height = 1 + max(height(n.lhs), height(n.rhs))]

\* Mutant: only the new top of the two nodes gets its height anew.
right_rotate_stale(n) ==
    IF n.lhs = NULL THEN CRASH
    ELSE Raised([n.lhs EXCEPT !.rhs = [n EXCEPT !.lhs = n.lhs.rhs]])

right_rotate(n) ==
    IF n.lhs = NULL THEN CRASH
    ELSE Raised([n.lhs EXCEPT !.rhs = Raised([n EXCEPT !.lhs = n.lhs.rhs])])

left_rotate(n) ==
    IF n.rhs = NULL THEN CRASH
    ELSE Raised([n.rhs EXCEPT !.lhs = Raised([n EXCEPT !.rhs = n.rhs.lhs])])

\* A node, unless the call that made one of its subtrees crashed.
Joined(n) == IF n.lhs = CRASH \/ n.rhs = CRASH THEN CRASH ELSE n

\* Mutant: no double rotations.
balance_node_single(root, d) ==
    LET balance == get_balance(root)
    IN  CASE balance > 1 /\ d < root.lhs.data -> right_rotate(root)
          [] balance < -1 /\ d > root.rhs.data -> left_rotate(root)
          [] OTHER -> root

\* balance_node chooses a rotation by where d lies, whether or not d is what
\* made the tree lean; a double rotation takes the inner subtree for granted.
balance_node(root, d) ==
    LET balance == get_balance(root)
    IN  CASE balance > 1 /\ d < root.lhs.data -> right_rotate(root)
          [] balance < -1 /\ d > root.rhs.data -> left_rotate(root)
          [] balance > 1 /\ d > root.lhs.data ->
                LET n == Joined([root EXCEPT !.lhs = left_rotate(@)])
                IN  IF n = CRASH THEN CRASH ELSE right_rotate(n)
          [] balance < -1 /\ d < root.rhs.data ->
                LET n == Joined([root EXCEPT !.rhs = right_rotate(@)])
                IN  IF n = CRASH THEN CRASH ELSE left_rotate(n)
          [] OTHER -> root

\* Mutant: every tree is balanced.
Settled_always(root, d, turbo) ==
    IF root \in {NULL, CRASH} THEN root ELSE balance_node(Raised(root), d)

\* The end that insert_node and delete_node share.
Settled(root, d, turbo) ==
    IF root \in {NULL, CRASH} THEN root
    ELSE IF turbo THEN balance_node(Raised(root), d) ELSE Raised(root)

\* insert_node; `memory` says whether calloc can give a node.
insert_node(root, d, turbo, memory) ==
    LET insert[n \in AllTrees] ==
            IF n = NULL THEN IF memory THEN make_node(d) ELSE NULL
            ELSE IF d = n.data THEN n
            ELSE Settled(
                    Joined(IF d < n.data THEN [n EXCEPT !.lhs = insert[@]]
                                         ELSE [n EXCEPT !.rhs = insert[@]]),
                    d, turbo)
    IN  insert[root]

\* Mutant: the root of the right subtree is taken for its least node.
leftmost_root(n) == n.data

\* The loop of delete_node that looks for the least number of a subtree.
leftmost(n) ==
    LET least[m \in AllTrees \ {NULL}] ==
            IF m.lhs = NULL THEN m.data ELSE least[m.lhs]
    IN  least[n]

\* Mutant: the successor is copied and not deleted.
replaced_copy(n, temp, rest) == [n EXCEPT !.data = temp]

\* A node with two subtrees takes the data of its successor; `rest` is what
\* deleting that from the right subtree leaves.
replaced(n, temp, rest) == Joined([n EXCEPT !.data = temp, !.rhs = rest])

delete_node(root, d, turbo) ==
    LET delete[n \in AllTrees] == [x \in Int |->
            IF n = NULL THEN NULL
            ELSE Settled(
                    CASE x < n.data -> Joined([n EXCEPT !.lhs = delete[@][x]])
                      [] x > n.data -> Joined([n EXCEPT !.rhs = delete[@][x]])
                      [] x = n.data /\ n.lhs = NULL -> n.rhs
                      [] x = n.data /\ n.lhs # NULL /\ n.rhs = NULL -> n.lhs
                      [] OTHER -> LET temp == leftmost(n.rhs)
                                  IN  replaced(n, temp, delete[n.rhs][temp]),
                    x, turbo)]
    IN  delete[root][d]

tree_find(curr, d) ==
    LET found[n \in AllTrees] ==
            /\ n # NULL
            /\ \/ n.data = d
               \/ found[IF d > n.data THEN n.rhs ELSE n.lhs]
    IN  found[curr]

\* tree_print: the numbers in the order they are printed.
tree_print(root) ==
    LET print[n \in AllTrees] ==
            IF n = NULL THEN <<>>
            ELSE print[n.lhs] \o <<n.data>> \o print[n.rhs]
    IN  print[root]

-----------------------------------------------------------------------------
(* What the properties say of a tree *)

\* The nodes of a tree, and the number of nodes on its longest path.
Subtrees(root) ==
    LET below[n \in AllTrees] ==
            IF n = NULL THEN {} ELSE {n} \cup below[n.lhs] \cup below[n.rhs]
    IN  below[root]

Depth(root) ==
    LET depth[n \in AllTrees] ==
            IF n = NULL THEN 0 ELSE 1 + max(depth[n.lhs], depth[n.rhs])
    IN  depth[root]
=============================================================================
