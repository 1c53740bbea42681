------------------------------ MODULE HashTable ------------------------------
(***************************************************************************)
(* The chained hash table of hash_table.c and the growing arrays of array.c *)
(* that hold the values of a key.  `array` is the block of buckets and has   *)
(* its own size; `capacity` is the size the code goes by, which              *)
(* resize_bucket doubles before it knows of a bigger block.                  *)
(* An access outside a block, and a remainder by zero, stop the process.    *)
(* Abstracted: the characters of a key (its hash is a constant), the         *)
(* addresses, and the order of the nodes in a chain, which is the set of     *)
(* them: the walks of a chain look for a key, and a key has one node         *)
(* (IndexSound).                                                             *)
(***************************************************************************)
EXTENDS Integers, Sequences, FiniteSets

CONSTANTS
    Key,
    HASH,         \* the hash functions, 1, 2 and so on, on each key
    Value,        \* the ints inserted
    Capacities,   \* the capacities table_init is called with, 0 included
    MAX_LOADS,    \* the maximal load factors, as <<numerator, denominator>>,
    HASHES,       \* and the hash functions
    ARRAY_START,  \* the capacity of a new array of values (10 in the code)
    MAX_VALUES    \* bound: no more values for one key

ASSUME TableAssumption ==
    /\ HASH \in Seq([Key -> Nat])
    /\ HASHES \subseteq DOMAIN HASH
    /\ Value \subseteq Int
    /\ Capacities \subseteq Nat
    /\ MAX_LOADS \subseteq Nat \X (Nat \ {0})
    /\ ARRAY_START \in Nat \ {0}
    /\ MAX_VALUES \in Nat

VARIABLES
    is_null,          \* the handle is NULL
    array,            \* the chains, sets of nodes, 0 .. size of the block - 1
    capacity,
    load,
    max_load_factor,
    hash_func,        \* one of the functions of HASH, by its number
    blocks,           \* malloc'ed blocks not freed
    answer,           \* what the last call returned; <<>> stands for NULL
    aborted,          \* the process was stopped
    memory_lasts      \* no allocation of this behaviour fails; chosen once

fixed == <<max_load_factor, hash_func>>
table == <<is_null, array, capacity, load, max_load_factor, hash_func>>
table_vars == <<table, blocks, answer, aborted, memory_lasts>>

Chains(n) == [i \in 0..(n - 1) |-> {}]
size == Cardinality(DOMAIN array)
all_nodes == UNION {array[i] : i \in DOMAIN array}

TableInit ==
    /\ is_null = TRUE
    /\ array = Chains(0)
    /\ capacity = 0
    /\ load = 0
    /\ max_load_factor = <<0, 1>>
    /\ hash_func = 0
    /\ blocks = 0
    /\ answer = <<>>
    /\ aborted = FALSE
    /\ memory_lasts \in BOOLEAN

Abort == aborted' = TRUE /\ UNCHANGED <<table, blocks, answer>>

\* table_init: no table when either of its two blocks cannot be had.
table_init(c, m, h) ==
    /\ is_null
    /\ \/ ~memory_lasts /\ UNCHANGED <<table, blocks, answer, aborted>>
       \/ /\ is_null' = FALSE
          /\ array' = Chains(c)
          /\ capacity' = c
          /\ load' = 0
          /\ max_load_factor' = m
          /\ hash_func' = h
          /\ blocks' = blocks + 2
          /\ UNCHANGED <<answer, aborted>>

\* What the walk of a chain for a key finds.
Found(chain, k) == {e \in chain : e.key = k}

\* What the table's hash function gives.
hash(k) == HASH[hash_func][k]

\* Whether the bucket of a key can be computed and lies inside the block.
Reaches(chains, c, k) == c # 0 /\ (hash(k) % c) \in DOMAIN chains

-----------------------------------------------------------------------------
(* array.c *)

array_init(n) == [data |-> <<>>, room |-> n, capacity |-> n]

\* Mutant: the array grows by the old capacity, not the new one.
array_append_half(a, v) ==
    IF Len(a.data) # a.capacity
    THEN {[a EXCEPT !.data = Append(@, v)]}
    ELSE {[a EXCEPT !.data = Append(@, v), !.capacity = 2 * a.capacity]}

\* array_append: the arrays it can leave behind; an array that is full raises
\* its capacity before it knows whether realloc gave it the room.
array_append(a, v) ==
    IF Len(a.data) # a.capacity
    THEN {[a EXCEPT !.data = Append(@, v)]}
    ELSE LET grown == IF a.capacity > 0 THEN a.capacity * 2 ELSE 1
         IN  {[data |-> Append(a.data, v), room |-> grown, capacity |-> grown]}
             \cup (IF memory_lasts THEN {} ELSE {[a EXCEPT !.capacity = grown]})

\* An append that wrote behind its block.
Overrun(a) == Len(a.data) > a.room

-----------------------------------------------------------------------------
(* hash_table.c *)

\* Mutant: the nodes go where they would go in the old block.
new_index_old(e, n) == hash(e.key) % size

new_index(e, n) == hash(e.key) % n

\* Mutant: one node of each chain is moved.
Rehashed_heads(n) ==
    [i \in 0..(n - 1) |->
        {e \in {CHOOSE f \in array[j] : TRUE : j \in {k \in DOMAIN array : array[k] # {}}} :
            new_index(e, n) = i}]

\* resize_bucket: the nodes of every chain are moved to their new chains.
Rehashed(n) == [i \in 0..(n - 1) |-> {e \in all_nodes : new_index(e, n) = i}]

\* table_insert from the computation of the index on.
Store(k, v, chains, c) ==
    LET i == hash(k) % c
    IN  \/ ~Reaches(chains, c, k) /\ Abort
        \/ /\ Reaches(chains, c, k)
           /\ \E e \in Found(chains[i], k) :     \* the answer of the append is
              \E a \in array_append(e.value, v) :       \* not looked at
                 \/ Overrun(a) /\ Abort
                 \/ /\ ~Overrun(a)
                    /\ array' = [chains EXCEPT ![i] =
                                    (@ \ {e}) \cup {[key |-> k, value |-> a]}]
                    /\ capacity' = c
                    /\ answer' = <<0>>
                    /\ UNCHANGED <<is_null, load, fixed, blocks, aborted>>
        \/ /\ Reaches(chains, c, k)
           /\ Found(chains[i], k) = {}           \* not all four blocks can be
           /\ ~memory_lasts                      \* had; the others are freed
           /\ array' = chains
           /\ capacity' = c
           /\ answer' = <<1>>
           /\ UNCHANGED <<is_null, load, fixed, blocks, aborted>>
        \/ /\ Reaches(chains, c, k)
           /\ Found(chains[i], k) = {}
           /\ \E a \in array_append(array_init(ARRAY_START), v) :
                 array' = [chains EXCEPT ![i] = @ \cup {[key |-> k, value |-> a]}]
           /\ capacity' = c
           /\ load' = load + 1
           /\ blocks' = blocks + 4
           /\ answer' = <<0>>
           /\ UNCHANGED <<is_null, fixed, aborted>>

\* Mutant: the table grows when there are more nodes than buckets.
must_resize_full == capacity # 0 /\ load > capacity

\* table_load_factor(t) >= t->max_load_factor; the load factor of a table of
\* capacity 0 is -1.
must_resize == capacity # 0 /\ load * max_load_factor[2] >= max_load_factor[1] * capacity

table_insert(k, v) ==
    \/ /\ is_null
       /\ answer' = <<1>>
       /\ UNCHANGED <<table, blocks, aborted>>
    \/ ~is_null /\ ~must_resize /\ Store(k, v, array, capacity)
    \/ /\ ~is_null /\ must_resize /\ ~memory_lasts     \* calloc fails
       /\ capacity' = capacity * 2
       /\ answer' = <<1>>
       /\ UNCHANGED <<is_null, array, load, fixed, blocks, aborted>>
    \/ ~is_null /\ must_resize /\ (capacity - 1) \notin DOMAIN array /\ Abort
    \/ /\ ~is_null /\ must_resize /\ (capacity - 1) \in DOMAIN array
       /\ Store(k, v, Rehashed(capacity * 2), capacity * 2)

table_lookup(k) ==
    \/ is_null /\ answer' = <<>> /\ UNCHANGED <<table, blocks, aborted>>
    \/ ~is_null /\ ~Reaches(array, capacity, k) /\ Abort
    \/ /\ ~is_null /\ Reaches(array, capacity, k)
       /\ LET found == Found(array[hash(k) % capacity], k)
          IN  \/ found = {} /\ answer' = <<>>
              \/ \E e \in found : answer' = e.value.data
       /\ UNCHANGED <<table, blocks, aborted>>

table_load_factor ==
    /\ answer' = IF is_null \/ capacity = 0 THEN <<-1>> ELSE <<load, capacity>>
    /\ UNCHANGED <<table, blocks, aborted>>

table_delete(k) ==
    \/ is_null /\ answer' = <<-1>> /\ UNCHANGED <<table, blocks, aborted>>
    \/ ~is_null /\ ~Reaches(array, capacity, k) /\ Abort
    \/ /\ ~is_null /\ Reaches(array, capacity, k)
       /\ LET i == hash(k) % capacity
              found == Found(array[i], k)
          IN  \/ found = {} /\ answer' = <<1>> /\ UNCHANGED <<table, blocks, aborted>>
              \/ /\ \E e \in found : array' = [array EXCEPT ![i] = @ \ {e}]
                 /\ load' = load - 1
                 /\ blocks' = blocks - 4
                 /\ answer' = <<0>>
                 /\ UNCHANGED <<is_null, capacity, fixed, aborted>>

\* table_cleanup walks as many buckets as the capacity says; the caller then
\* forgets the handle, and the fields go back to a fixed value.
table_cleanup ==
    \/ is_null /\ UNCHANGED <<table, blocks, answer, aborted>>
    \/ ~is_null /\ capacity > size /\ Abort
    \/ /\ ~is_null /\ capacity <= size
       /\ is_null' = TRUE
       /\ array' = Chains(0)
       /\ capacity' = 0
       /\ load' = 0
       /\ max_load_factor' = <<0, 1>>
       /\ hash_func' = 0
       /\ blocks' = blocks - 4 * Cardinality(all_nodes) - 2
       /\ UNCHANGED <<answer, aborted>>

\* The values that can be found for a key in the block of buckets.
stored(k) ==
    IF size = 0 THEN <<>>
    ELSE LET found == Found(array[hash(k) % size], k)
         IN  IF found = {} THEN <<>> ELSE (CHOOSE e \in found : TRUE).value.data

\* Any call of the header.
Call ==
    \/ \E c \in Capacities, m \in MAX_LOADS, h \in HASHES :
          table_init(c, m, h)
    \/ \E k \in Key, v \in Value :
          Len(stored(k)) < MAX_VALUES /\ table_insert(k, v)
    \/ \E k \in Key : table_lookup(k) \/ table_delete(k)
    \/ table_load_factor
    \/ table_cleanup

TableNext == ~aborted /\ UNCHANGED memory_lasts /\ Call
TableSpec == TableInit /\ [][TableNext]_table_vars

-----------------------------------------------------------------------------
(* Properties *)

\* Every node sits in the chain of its hash, no key has two nodes, the load
\* counts the nodes and the heap holds their blocks and no other, whichever
\* insertion resized the table, found no memory or was undone by a removal.
IndexSound ==
    /\ \A i \in DOMAIN array : \A e \in array[i] : i = hash(e.key) % size
    /\ \A e, f \in all_nodes : e.key = f.key => e = f
    /\ load = Cardinality(all_nodes)
    /\ blocks = IF is_null THEN 0 ELSE 2 + 4 * load

\* While memory lasts the capacities the code goes by are those of the blocks,
\* and only the remainder by a capacity of 0 can stop the process.
SizesAgree ==
    memory_lasts =>
        /\ capacity = size
        /\ \A e \in all_nodes : e.value.room = e.value.capacity
        /\ aborted => capacity = 0

\* check_hash_resize.c:41 says "Load factor cannot be higher than max load
\* factor"; what holds is that it stays less than one node above it, for tables
\* whose capacity is not too small for one node: table_insert looks at the load
\* before it adds to it, and doubles once.
LoadBounded ==
    (\A c \in Capacities \ {0} : max_load_factor[1] * c >= max_load_factor[2])
        => \/ capacity = 0
           \/ (load - 1) * max_load_factor[2] < max_load_factor[1] * capacity

D == INSTANCE Dictionary
        WITH live <- ~is_null, entries <- [k \in Key |-> stored(k)]

\* The table answers as the map of hash_table.h until the process is stopped:
\* no resize and no failed allocation loses or reorders a value.
ImplementsDictionary == D!Spec
=============================================================================
