-------------------------------- MODULE List --------------------------------
(***************************************************************************)
(* The doubly linked lists of list.c, pointer by pointer.  A client may have *)
(* two lists (the second one from list_cut_after or list_init) and calls any *)
(* function with any node that exists, but frees and adds only nodes that    *)
(* are in no list: list.h asks for no more.  Following a null pointer stops  *)
(* the process.  list_node_present compares the fields of nodes, not their   *)
(* addresses.                                                                *)
(* Abstracted: the addresses (malloc gives the least unused one).            *)
(***************************************************************************)
EXTENDS Integers, Sequences, FiniteSets, SequencesExt

CONSTANTS
    Node,    \* the addresses of nodes
    NULL,
    ListId   \* the client's handles

ASSUME ListAssumption ==
    /\ Node \subseteq Nat /\ IsFiniteSet(Node)
    /\ NULL \notin Nat

VARIABLES
    allocated,             \* the nodes that were malloc'ed and not freed
    value, next, previous, \* the fields of the nodes
    live,                  \* the handles that are lists
    head, tail,            \* the fields of the lists
    answer,                \* what the last call returned
    crashed

fields == <<value, next, previous>>
ends == <<head, tail>>
lists == <<allocated, fields, live, ends>>
list_vars == <<lists, answer, crashed>>

Pointer == Node \cup {NULL}

ListInit ==
    /\ allocated = {}
    /\ value = [n \in Node |-> 0]
    /\ next = [n \in Node |-> NULL]
    /\ previous = [n \in Node |-> NULL]
    /\ live = {}
    /\ head = [l \in ListId |-> NULL]
    /\ tail = [l \in ListId |-> NULL]
    /\ answer = 0
    /\ crashed = FALSE

Crash == crashed' = TRUE /\ UNCHANGED <<lists, answer>>
Answer(a) == answer' = a /\ UNCHANGED <<lists, crashed>>

\* The nodes that a walk from the head meets, in order (cut off when it has
\* met as many as there are).
Walk(l) ==
    LET nodes == Cardinality(Node)
        met[k \in 0..nodes] ==
            IF k = 0 THEN head[l]
            ELSE IF met[k - 1] = NULL THEN NULL ELSE next[met[k - 1]]
    IN  [k \in 1..Cardinality({j \in 0..(nodes - 1) : met[j] # NULL}) |-> met[k - 1]]

In(l, n) == Contains(Walk(l), n)
Attached == {n \in Node : \E l \in live : In(l, n)}

\* Mutant: nodes with one value are the same.
Same_value(t, n) == value[t] = value[n]

\* list_node_present: some node of the list has the fields of n.
Same(t, n) == next[t] = next[n] /\ previous[t] = previous[n] /\ value[t] = value[n]
Present(l, n) == \E t \in ToSet(Walk(l)) : Same(t, n)

-----------------------------------------------------------------------------
(* list.c *)

list_init(l) ==
    /\ l \notin live
    /\ live' = live \cup {l}
    /\ head' = [head EXCEPT ![l] = NULL]
    /\ tail' = [tail EXCEPT ![l] = NULL]
    /\ UNCHANGED <<allocated, fields, answer, crashed>>

list_new_node(v) ==
    \/ Answer(NULL)
    \/ \E n \in Node \ allocated :
          /\ \A k \in Node \ allocated : n <= k
          /\ allocated' = allocated \cup {n}
          /\ value' = [value EXCEPT ![n] = v]
          /\ next' = [next EXCEPT ![n] = NULL]
          /\ previous' = [previous EXCEPT ![n] = NULL]
          /\ answer' = n
          /\ UNCHANGED <<live, ends, crashed>>

list_node_set_value(n, v) ==
    /\ value' = [value EXCEPT ![n] = v]
    /\ answer' = 0
    /\ UNCHANGED <<allocated, next, previous, live, ends, crashed>>

\* The fields of a freed node are forgotten.
Forgotten(f, gone, blank) == [n \in Node |-> IF n \in gone THEN blank ELSE f[n]]
Free(gone) ==
    /\ allocated' = allocated \ gone
    /\ value' = Forgotten(value, gone, 0)
    /\ next' = Forgotten(next, gone, NULL)
    /\ previous' = Forgotten(previous, gone, NULL)

list_free_node(n) == Free({n}) /\ UNCHANGED <<live, ends, answer, crashed>>

list_cleanup(l) ==
    /\ Free(ToSet(Walk(l)))
    /\ live' = live \ {l}
    /\ head' = [head EXCEPT ![l] = NULL]
    /\ tail' = [tail EXCEPT ![l] = NULL]
    /\ answer' = 0
    /\ UNCHANGED crashed

Empty(l) == head[l] = NULL \/ tail[l] = NULL

list_add_front(l, n) ==
    /\ head' = [head EXCEPT ![l] = n]
    /\ \/ /\ Empty(l)
          /\ tail' = [tail EXCEPT ![l] = n]
          /\ UNCHANGED <<next, previous>>
       \/ /\ ~Empty(l)
          /\ next' = [next EXCEPT ![n] = head[l]]
          /\ previous' = [previous EXCEPT ![head[l]] = n]
          /\ UNCHANGED tail
    /\ answer' = 0
    /\ UNCHANGED <<allocated, value, live, crashed>>

list_add_back(l, n) ==
    /\ tail' = [tail EXCEPT ![l] = n]
    /\ \/ /\ Empty(l)
          /\ head' = [head EXCEPT ![l] = n]
          /\ UNCHANGED <<next, previous>>
       \/ /\ ~Empty(l)
          /\ previous' = [previous EXCEPT ![n] = tail[l]]
          /\ next' = [next EXCEPT ![tail[l]] = n]
          /\ UNCHANGED head
    /\ answer' = 0
    /\ UNCHANGED <<allocated, value, live, crashed>>

\* f with the pointer of p set to q, when p points to a node.
Set(f, p, q) == IF p = NULL THEN f ELSE [f EXCEPT ![p] = q]

\* Mutant: the node after n still points back to n.
previous_without_one_way(n) == [previous EXCEPT ![n] = NULL]

\* The pointers when the neighbours of n are linked to each other.
next_without(n) == [Set(next, previous[n], next[n]) EXCEPT ![n] = NULL]
previous_without(n) == [Set(previous, next[n], previous[n]) EXCEPT ![n] = NULL]

list_unlink_node(l, n) ==
    \/ ~Present(l, n) /\ Answer(1)
    \/ /\ Present(l, n)
       /\ head' = IF head[l] = n THEN [head EXCEPT ![l] = next[n]] ELSE head
       /\ tail' = IF tail[l] = n THEN [tail EXCEPT ![l] = previous[n]] ELSE tail
       /\ next' = next_without(n)
       /\ previous' = previous_without(n)
       /\ answer' = 0
       /\ UNCHANGED <<allocated, value, live, crashed>>

is_tail(l, m) == tail[l] = m

list_insert_after(l, n, m) ==
    \/ (Present(l, n) \/ ~Present(l, m)) /\ Answer(1)
    \/ /\ ~Present(l, n) /\ Present(l, m)
       /\ \/ ~is_tail(l, m) /\ next[m] = NULL /\ Crash
          \/ /\ is_tail(l, m) \/ next[m] # NULL
             /\ tail' = IF is_tail(l, m) THEN [tail EXCEPT ![l] = n] ELSE tail
             /\ next' = IF is_tail(l, m) THEN [next EXCEPT ![m] = n]
                        ELSE [next EXCEPT ![m] = n, ![n] = next[m]]
             /\ previous' = IF is_tail(l, m) THEN [previous EXCEPT ![n] = m]
                            ELSE [previous EXCEPT ![next[m]] = n, ![n] = m]
             /\ answer' = 0
             /\ UNCHANGED <<allocated, value, live, head, crashed>>

list_insert_before(l, n, m) ==
    \/ (Present(l, n) \/ ~Present(l, m)) /\ Answer(1)
    \/ /\ ~Present(l, n) /\ Present(l, m)
       /\ \/ head[l] # m /\ previous[m] = NULL /\ Crash
          \/ /\ head[l] = m \/ previous[m] # NULL
             /\ head' = IF head[l] = m THEN [head EXCEPT ![l] = n] ELSE head
             /\ previous' = IF head[l] = m THEN [previous EXCEPT ![m] = n]
                            ELSE [previous EXCEPT ![m] = n, ![n] = previous[m]]
             /\ next' = IF head[l] = m THEN [next EXCEPT ![n] = m]
                        ELSE [next EXCEPT ![previous[m]] = n, ![n] = m]
             /\ answer' = 0
             /\ UNCHANGED <<allocated, value, live, tail, crashed>>

\* list_cut_after; k is the handle that gets the new list.
list_cut_after(l, n, k) ==
    \/ Answer(NULL)            \* n is not in the list, or there is no memory
    \/ Present(l, n) /\ tail[l] # n /\ next[n] = NULL /\ Crash
    \/ /\ Present(l, n)
       /\ tail[l] = n
       /\ live' = live \cup {k}
       /\ head' = [head EXCEPT ![k] = NULL]
       /\ tail' = [tail EXCEPT ![k] = NULL]
       /\ answer' = 0
       /\ UNCHANGED <<allocated, fields, crashed>>
    \/ /\ Present(l, n)
       /\ tail[l] # n /\ next[n] # NULL
       /\ live' = live \cup {k}
       /\ next' = [next EXCEPT ![n] = NULL]
       /\ previous' = [previous EXCEPT ![next[n]] = NULL]
       /\ head' = [head EXCEPT ![k] = next[n]]
       /\ tail' = [tail EXCEPT ![l] = n, ![k] = tail[l]]
       /\ answer' = 0
       /\ UNCHANGED <<allocated, value, crashed>>

list_node_present(l, n) == Answer(IF Present(l, n) THEN 1 ELSE 0)
list_prev(l, n) == Answer(IF ~Present(l, n) \/ n = head[l] THEN NULL ELSE previous[n])
list_length(l) == Answer(Len(Walk(l)))
list_get_ith(l, i) == Answer(IF i >= Len(Walk(l)) THEN NULL ELSE Walk(l)[i + 1])

-----------------------------------------------------------------------------

\* Any call of a client that puts the ints of `ints` in its nodes.
Client(ints) ==
    \/ \E l \in ListId : list_init(l)
    \/ \E v \in ints : list_new_node(v)
    \/ \E n \in allocated \ Attached :
          \/ list_free_node(n)
          \/ \E l \in live : list_add_front(l, n) \/ list_add_back(l, n)
    \/ \E n \in allocated, v \in ints : list_node_set_value(n, v)
    \/ \E l \in live :
          \/ list_cleanup(l)
          \/ list_length(l)
          \/ \E i \in 0..Len(Walk(l)) : list_get_ith(l, i)
          \/ \E n \in allocated :
                \/ list_unlink_node(l, n)
                \/ list_node_present(l, n)
                \/ list_prev(l, n)
                \/ \E k \in ListId \ live : list_cut_after(l, n, k)
          \/ \E m \in allocated, n \in allocated :
                /\ n \notin Attached \/ In(l, n)
                /\ list_insert_after(l, n, m) \/ list_insert_before(l, n, m)

-----------------------------------------------------------------------------
(* Properties *)

Mirrored(s) ==
    \A k \in 1..Len(s) : previous[s[k]] = IF k = 1 THEN NULL ELSE s[k - 1]

\* After every call each list is a chain of allocated nodes from its head to
\* its tail that can be walked both ways, no node is in two lists or twice in
\* one, and a node that is in no list points to none (list.h:46-47).
WellLinked ==
    ~crashed =>
        /\ \A l \in live :
              LET s == Walk(l)
              IN  /\ IsInjective(s)
                  /\ ToSet(s) \subseteq allocated
                  /\ Mirrored(s)
                  /\ tail[l] = IF s = <<>> THEN NULL ELSE s[Len(s)]
                  /\ s # <<>> => next[tail[l]] = NULL
        /\ \A l, k \in live : l # k => ToSet(Walk(l)) \cap ToSet(Walk(k)) = {}
        /\ \A n \in allocated \ Attached : next[n] = NULL /\ previous[n] = NULL

\* n stands alone, and the only node of the list is another one of its value:
\* list_node_present takes the one for the other.
Twin(l, n) ==
    /\ next[n] = NULL /\ previous[n] = NULL
    /\ \E t \in Node \ {n} : Walk(l) = <<t>> /\ value[t] = value[n]

Index(l, n) == SelectInSeq(Walk(l), LAMBDA t : t = n)

\* What the calls of list.h that know nodes do to the order of a list.  A new
\* node is put in its place, and refused just when it has a twin there; and only
\* a twin makes a call crash.
CallsKeepOrder ==
    [][\A l \in live, n \in allocated :
          LET s == Walk(l)
              t == Walk(l)'
          IN  /\ list_unlink_node(l, n) /\ In(l, n) => t = RemoveFirst(s, n)
              /\ \A m \in ToSet(s) :
                    ~In(l, n) =>
                       /\ list_insert_after(l, n, m) =>
                             t = IF Twin(l, n) THEN s
                                 ELSE InsertAt(s, Index(l, m) + 1, n)
                       /\ list_insert_before(l, n, m) =>
                             t = IF Twin(l, n) THEN s
                                 ELSE InsertAt(s, Index(l, m), n)
              /\ \A k \in ListId \ live :
                    list_cut_after(l, n, k) /\ In(l, n) /\ answer' # NULL =>
                       t = SubSeq(s, 1, Index(l, n)) /\ t \o Walk(k)' = s
              /\ crashed' => \E m \in allocated, k \in live : Twin(k, m)]_list_vars
=============================================================================
