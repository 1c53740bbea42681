----------------------------- MODULE SetProgram -----------------------------
(***************************************************************************)
(* The program of main.c over the set of set.c: it reads one command per    *)
(* line from stdin until the end of the input, or until a line it refuses.  *)
(* One action per kind of line, the whole call included.  main goes on when *)
(* set_init fails, with s = NULL (`created` is FALSE then).                 *)
(* `turbo` is the argument of set_init: main passes TURBO = 1, the tests    *)
(* also 0.  Abstracted: the text of the lines, the printed messages, and a  *)
(* last line of nothing but spaces, on which main follows a null command.   *)
(***************************************************************************)
EXTENDS Tree, FiniteSets

CONSTANTS
    Operand,    \* the longs that strtol reads from a line
    INT_VALUES  \* number of values of an int

ASSUME SetAssumption == Operand \subseteq Int /\ INT_VALUES \in Nat \ {0}

VARIABLES
    turbo,
    created,      \* s is not NULL
    root,         \* s->tree_t->root
    nodes,        \* node blocks that were allocated and not freed
    heap,         \* the other blocks: "buf", "set" and "tree"
    answer,       \* what the last call returned or printed
    outcome,      \* "reading", or how the process ended
    undisturbed   \* history: no number was removed

vars == <<turbo, created, root, nodes, heap, answer, outcome, undisturbed>>

\* The cast of a long to an int.
to_int(x) == ((x + INT_VALUES \div 2) % INT_VALUES) - INT_VALUES \div 2

\* The state of main when it starts to read: both of set_init's blocks can
\* fail, and a set block without a tree is freed again.  (A failing malloc of
\* buf ends main before anything else happens.)
Init ==
    /\ turbo \in BOOLEAN
    /\ created \in BOOLEAN
    /\ root = NULL
    /\ nodes = 0
    /\ heap = {"buf"} \cup (IF created THEN {"set", "tree"} ELSE {})
    /\ answer = <<>>
    /\ outcome = "reading"
    /\ undisturbed = TRUE

Crash ==
    /\ outcome' = "crash"
    /\ UNCHANGED <<turbo, created, root, nodes, heap, answer, undisturbed>>

\* set_insert, and tree_insert, which answers 0 even when there was no memory.
set_insert(n) ==
    \/ /\ ~created
       /\ answer' = <<-1>>
       /\ UNCHANGED <<turbo, created, root, nodes, heap, outcome, undisturbed>>
    \/ /\ created
       /\ tree_find(root, n)
       /\ answer' = <<1>>
       /\ UNCHANGED <<turbo, created, root, nodes, heap, outcome, undisturbed>>
    \/ /\ created
       /\ ~tree_find(root, n)
       /\ \E memory \in {m \in BOOLEAN : m => nodes < MAX_NODES} :
             LET new == insert_node(root, n, turbo, memory)
             IN  \/ new = CRASH /\ Crash
                 \/ /\ new # CRASH
                    /\ root' = new
                    /\ nodes' = IF memory THEN nodes + 1 ELSE nodes
                    /\ answer' = <<0>>
                    /\ UNCHANGED <<turbo, created, heap, outcome, undisturbed>>

set_find(n) ==
    /\ answer' = IF created /\ tree_find(root, n) THEN <<1>> ELSE <<0>>
    /\ UNCHANGED <<turbo, created, root, nodes, heap, outcome, undisturbed>>

set_remove(n) ==
    \/ /\ ~created \/ ~tree_find(root, n)
       /\ answer' = <<1>>
       /\ UNCHANGED <<turbo, created, root, nodes, heap, outcome, undisturbed>>
    \/ /\ created
       /\ tree_find(root, n)
       /\ LET new == delete_node(root, n, turbo)
          IN  \/ new = CRASH /\ Crash
              \/ /\ new # CRASH
                 /\ root' = new
                 /\ nodes' = nodes - 1
                 /\ undisturbed' = FALSE
                 /\ answer' = <<0>>
                 /\ UNCHANGED <<turbo, created, heap, outcome>>

\* set_print and set_verify follow s before they know that there is one.
set_print ==
    \/ ~created /\ Crash
    \/ /\ created
       /\ answer' = tree_print(root)
       /\ UNCHANGED <<turbo, created, root, nodes, heap, outcome, undisturbed>>

\* Mutant: the tree block is not freed.
set_cleanup_keeps_tree(buf_before, end) ==
    /\ outcome' = end
    /\ root' = NULL
    /\ nodes' = nodes - Cardinality(Subtrees(root))
    /\ heap' = heap \ {"set", "buf"}
    /\ UNCHANGED <<turbo, created, answer, undisturbed>>

\* set_cleanup on a set: tree_dot ends the process when it cannot open its
\* file; otherwise every node, the tree and the set are freed.  The caller frees
\* buf before or after it.
set_cleanup(buf_before, end) ==
    \/ /\ outcome' = "no dot file"
       /\ heap' = IF buf_before THEN heap \ {"buf"} ELSE heap
       /\ UNCHANGED <<turbo, created, root, nodes, answer, undisturbed>>
    \/ /\ outcome' = end
       /\ root' = NULL
       /\ nodes' = nodes - Cardinality(Subtrees(root))
       /\ heap' = heap \ {"set", "tree", "buf"}
       /\ UNCHANGED <<turbo, created, answer, undisturbed>>

\* A line with an operation whose operand is missing or no number.
cleanup_and_fail ==
    \/ created /\ set_cleanup(FALSE, "failure")
    \/ /\ ~created
       /\ outcome' = "failure"
       /\ heap' = heap \ {"buf"}
       /\ UNCHANGED <<turbo, created, root, nodes, answer, undisturbed>>

EndOfInput ==
    \/ ~created /\ Crash
    \/ created /\ set_cleanup(TRUE, "success")

Next ==
    /\ outcome = "reading"
    /\ \/ \E x \in Operand :
             set_insert(to_int(x)) \/ set_remove(to_int(x)) \/ set_find(to_int(x))
       \/ set_print
       \/ cleanup_and_fail
       \/ EndOfInput

Spec == Init /\ [][Next]_vars

-----------------------------------------------------------------------------
(* Properties *)

\* The numbers of the tree.
members == {n.data : n \in Subtrees(root)}

\* Every node block belongs to exactly one place of the tree, whatever the
\* rotations and the deletions that replace a node by another's content did:
\* none is lost and none is reached twice (delete_node, the rotations).
NodesAccounted ==
    /\ nodes = Cardinality(Subtrees(root))
    /\ nodes = Len(tree_print(root))

\* The height stored in a node is that of its subtree or one less, also after
\* rotations, removals and insertions that found no memory: a new leaf counts
\* as no node, a leaf that a rotation made counts as one.
HeightsLagByOne ==
    \A n \in Subtrees(root) : n.height \in {Depth(n) - 1, Depth(n)}

\* tree.h:11 "a fast balanced binary search tree": although the stored heights
\* are inexact, insertions leave subtrees of one node at most two apart in
\* depth (balance_node).  Removals do not keep this.
InsertsBalance ==
    turbo /\ undisturbed =>
        \A n \in Subtrees(root) : Depth(n.lhs) - Depth(n.rhs) \in -2..2

\* Of the operations on a set that exists only those of a balanced tree stop
\* the process, and an insertion only after a removal.
CrashesOnlyTurbo ==
    [][/\ created /\ outcome' = "crash" => turbo
       /\ (undisturbed /\ \E x \in Operand : set_insert(to_int(x)))
             => outcome' # "crash"]_vars

\* Whether the input ends or is refused, an exit through set_cleanup leaves
\* nothing on the heap; the exit of tree_dot leaves the set behind.
ExitFreesAll ==
    /\ outcome \in {"success", "failure"} => heap = {} /\ nodes = 0
    /\ outcome = "no dot file" => {"set", "tree"} \subseteq heap

S == INSTANCE OrderedSet
        WITH Num <- {to_int(x) : x \in Operand}, numbers <- members,
             stopped <- outcome # "reading"

\* The tree, balanced or not, answers as the set of set.h does and prints its
\* numbers in ascending order, as long as the process runs.
ImplementsSet == S!Spec

\* tree.h:23 "Remove data from the tree. Return 0 if successful.  If the data
\* is not found 1 is returned.": an operation on a set that exists returns.
OperationsReturn == created => outcome # "crash"
=============================================================================
