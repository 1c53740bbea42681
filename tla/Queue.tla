-------------------------------- MODULE Queue --------------------------------
(***************************************************************************)
(* The ring buffer of queue.c.  `is_null` is the caller's handle, `blocks`  *)
(* those malloc'ed and not yet freed; push_count and pop_count are size_t  *)
(* counters that only ever grow and wrap at WORD, and an item sits in slot  *)
(* count % queue_capacity.                                                  *)
(* Abstracted: the blocks' addresses, the printing of queue_stats (its      *)
(* three values are the variables), and the unused field current_size.      *)
(* A name that the program around the queue has too starts with Queue here. *)
(***************************************************************************)
EXTENDS Integers, Sequences

CONSTANTS
    Item,        \* the ints a caller pushes
    Capacities,  \* the arguments of queue_init, 0 included
    WORD,        \* number of values of a size_t
    MAX_PUSHES,  \* bound: queue_push is not called beyond this count
    JUNK         \* content of malloc'ed memory before it is written

ASSUME QueueAssumption ==
    /\ Item \subseteq Int
    /\ JUNK \notin Int
    /\ Capacities \subseteq Nat
    /\ WORD \in Nat \ {0}
    /\ \A c \in Capacities : c < WORD
    /\ MAX_PUSHES \in Nat

VARIABLES
    is_null,         \* the handle is NULL
    blocks,          \* the malloc'ed blocks not freed: "struct" and "data"
    queue_data,      \* the ints of the data block, 0..queue_capacity-1
    queue_capacity,
    push_count,
    pop_count,
    max_elements,
    returned         \* what the last call returned

fields == <<queue_data, queue_capacity, push_count, pop_count, max_elements>>
queue_vars == <<is_null, blocks, fields, returned>>

\* A data block of c ints as malloc returns it.
Blank(c) == [i \in 0..(c - 1) |-> JUNK]

QueueInit ==
    /\ is_null = TRUE
    /\ blocks = {}
    /\ queue_data = Blank(0)
    /\ queue_capacity = 0
    /\ push_count = 0
    /\ pop_count = 0
    /\ max_elements = 0
    /\ returned = 0

\* queue_size on a live queue; the subtraction is modulo WORD.
live_size == (push_count - pop_count) % WORD

\* Mutant: the struct block is not freed when the data block cannot be had.
queue_init_leaks(c) ==
    /\ is_null
    /\ \/ c = 0 /\ UNCHANGED queue_vars
       \/ /\ c > 0
          /\ blocks' = blocks \cup {"struct"}
          /\ UNCHANGED <<is_null, fields, returned>>

\* queue_init: no queue for capacity 0 or when either malloc fails; the struct
\* block is freed again when the data block cannot be had.
queue_init(c) ==
    /\ is_null
    /\ \/ c = 0 /\ UNCHANGED queue_vars
       \/ /\ c > 0          \* malloc(sizeof(struct queue)) fails
          /\ UNCHANGED queue_vars
       \/ /\ c > 0          \* the data block cannot be had
          /\ blocks' = (blocks \cup {"struct"}) \ {"struct"}
          /\ UNCHANGED <<is_null, fields, returned>>
       \/ /\ c > 0
          /\ is_null' = FALSE
          /\ blocks' = blocks \cup {"struct", "data"}
          /\ queue_data' = Blank(c)
          /\ queue_capacity' = c
          /\ max_elements' = 0
          /\ pop_count' = 0
          /\ push_count' = 0
          /\ UNCHANGED returned

\* queue_cleanup frees both blocks; the caller then forgets the handle, and
\* the fields go back to a fixed value so that they carry no history.
queue_cleanup ==
    \/ is_null /\ UNCHANGED queue_vars
    \/ /\ ~is_null
       /\ blocks' = blocks \ {"struct", "data"}
       /\ is_null' = TRUE
       /\ queue_data' = Blank(0)
       /\ queue_capacity' = 0
       /\ push_count' = 0
       /\ pop_count' = 0
       /\ max_elements' = 0
       /\ UNCHANGED returned

queue_size ==
    /\ returned' = IF is_null THEN 0 ELSE live_size
    /\ UNCHANGED <<is_null, blocks, fields>>

\* Mutant: the slot is chosen by the number of items held.
push_slot_by_size == live_size % queue_capacity

push_slot == push_count % queue_capacity

queue_push(e) ==
    \/ /\ is_null \/ queue_capacity = live_size
       /\ returned' = 1
       /\ UNCHANGED <<is_null, blocks, fields>>
    \/ /\ ~is_null
       /\ queue_capacity # live_size
       /\ push_count < MAX_PUSHES
       /\ queue_data' = [queue_data EXCEPT ![push_slot] = e]
       /\ push_count' = (push_count + 1) % WORD
       /\ UNCHANGED <<is_null, blocks, queue_capacity, pop_count>>
       /\ max_elements' = IF live_size' > max_elements
                          THEN live_size' ELSE max_elements
       /\ returned' = 0

queue_pop ==
    \/ /\ is_null \/ live_size <= 0
       /\ returned' = -1
       /\ UNCHANGED <<is_null, blocks, fields>>
    \/ /\ ~is_null
       /\ live_size > 0
       /\ returned' = queue_data[pop_count % queue_capacity]
       /\ pop_count' = (pop_count + 1) % WORD
       /\ UNCHANGED <<is_null, blocks, queue_data, queue_capacity, push_count,
                      max_elements>>

queue_peek ==
    /\ \/ is_null /\ returned' = -1
       \/ ~is_null /\ live_size <= 0 /\ returned' = 1
       \/ /\ ~is_null
          /\ live_size > 0
          /\ returned' = queue_data[pop_count % queue_capacity]
    /\ UNCHANGED <<is_null, blocks, fields>>

queue_empty ==
    /\ \/ is_null /\ returned' = -1
       \/ ~is_null /\ live_size <= 0 /\ returned' = 1
       \/ ~is_null /\ live_size > 0 /\ returned' = 0
    /\ UNCHANGED <<is_null, blocks, fields>>

QueueNext ==
    \/ \E c \in Capacities : queue_init(c)
    \/ queue_cleanup
    \/ queue_size
    \/ \E e \in Item : queue_push(e)
    \/ queue_pop
    \/ queue_peek
    \/ queue_empty

QueueSpec == QueueInit /\ [][QueueNext]_queue_vars

-----------------------------------------------------------------------------
(* Properties *)

QueueTypeOK ==
    /\ is_null \in BOOLEAN
    /\ blocks \subseteq {"struct", "data"}
    /\ queue_capacity \in Capacities \cup {0}
    /\ queue_data \in [0..(queue_capacity - 1) -> Item \cup {JUNK}]
    /\ push_count \in 0..(WORD - 1)
    /\ pop_count \in 0..(WORD - 1)
    /\ max_elements \in 0..(WORD - 1)
    /\ returned \in Int

\* The heap holds a queue's two blocks exactly while the caller has a handle:
\* whichever malloc fails in queue_init, nothing leaks (check_malloc.c).
HeapMatchesHandle == blocks = IF is_null THEN {} ELSE {"struct", "data"}

\* A live queue never holds more than it was created for, and the statistics
\* never report a peak below what it holds nor above its capacity
\* (queue_push's capacity test against counters that only grow).
WithinCapacity ==
    /\ is_null => queue_capacity = 0
    /\ live_size <= max_elements
    /\ max_elements <= queue_capacity

\* The queue a caller sees: the slots from pop_count on, oldest first.
contents == [i \in 1..live_size |->
                queue_data[(pop_count + i - 1) % queue_capacity]]

Fifo == INSTANCE BoundedFifo
            WITH capacity <- queue_capacity, items <- contents,
                 peak <- max_elements, result <- returned

\* The ring buffer implements the bounded FIFO of queue.h: every item comes
\* out once, in the order pushed, whatever slots the counters wrapped around
\* to, and no call returns memory that was never written.
ImplementsFifo == Fifo!Spec
=============================================================================
