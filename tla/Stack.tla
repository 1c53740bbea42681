-------------------------------- MODULE Stack --------------------------------
(***************************************************************************)
(* The growing array of stack.c.  The size the code believes in            *)
(* (stack_capacity) and the size of the block it really has (`block`, in    *)
(* ints) are two variables: stack_init asks for ints of the width of a      *)
(* size_t, and resize_stack raises stack_capacity whether or not realloc    *)
(* gave it a block.  An access outside the block aborts the process, as the *)
(* address sanitizer of the Makefile's default build does.                  *)
(* Abstracted: the addresses, and the printing of stack_stats (its three    *)
(* values are the variables).                                               *)
(***************************************************************************)
EXTENDS Integers, Sequences

CONSTANTS
    Item,        \* the ints a caller pushes
    Capacities,  \* the arguments of stack_init, 0 included
    WIDTH,       \* sizeof(size_t) / sizeof(int)
    MAX_PUSHES,  \* bound: stack_push is not called beyond this count
    JUNK         \* content of malloc'ed memory before it is written

ASSUME StackAssumption ==
    /\ Item \subseteq Int
    /\ JUNK \notin Int
    /\ Capacities \subseteq Nat
    /\ WIDTH \in Nat \ {0}
    /\ MAX_PUSHES \in Nat

VARIABLES
    is_null,          \* the handle is NULL
    heap,             \* the malloc'ed blocks not freed: "struct" and "data"
    block,            \* the number of ints in the data block
    stack_data,       \* its ints, 0..block-1
    stack_capacity,   \* the size the code goes by
    stack_top,
    pop_count,
    push_count,
    max_elements,
    result,           \* what the last call returned
    aborted,          \* an access outside the block stopped the process
    memory_lasts      \* no realloc of this behaviour fails; chosen once

counts == <<stack_top, pop_count, push_count, max_elements>>
memory == <<heap, block, stack_data, stack_capacity>>
vars == <<is_null, memory, counts, result, aborted, memory_lasts>>

EMPTY == -1

\* Mutant: the ints of the older block are not copied.
Grown_blank(data, n) == [i \in 0..(n - 1) |-> JUNK]

\* A data block of n ints that keeps the ints of an older, smaller one.
Grown(data, n) ==
    [i \in 0..(n - 1) |-> IF i \in DOMAIN data THEN data[i] ELSE JUNK]
Blank(n) == [i \in 0..(n - 1) |-> JUNK]

NoCounts ==
    /\ stack_top' = EMPTY
    /\ pop_count' = 0
    /\ push_count' = 0
    /\ max_elements' = 0

Init ==
    /\ is_null = TRUE
    /\ heap = {}
    /\ block = 0
    /\ stack_data = Blank(0)
    /\ stack_capacity = 0
    /\ stack_top = EMPTY
    /\ pop_count = 0
    /\ push_count = 0
    /\ max_elements = 0
    /\ result = 0
    /\ aborted = FALSE
    /\ memory_lasts \in BOOLEAN

\* stack_init: no stack for capacity 0 or when either malloc fails.
stack_init(c) ==
    /\ is_null
    /\ \/ c = 0 /\ UNCHANGED vars
       \/ /\ c > 0          \* malloc(sizeof(stack_t)) fails
          /\ UNCHANGED vars
       \/ /\ c > 0          \* the data block cannot be had
          /\ heap' = (heap \cup {"struct"}) \ {"struct"}
          /\ UNCHANGED <<is_null, block, stack_data, stack_capacity, counts,
                         result, aborted>>
       \/ /\ c > 0
          /\ is_null' = FALSE
          /\ heap' = heap \cup {"struct", "data"}
          /\ block' = c * WIDTH
          /\ stack_data' = Blank(c * WIDTH)
          /\ stack_capacity' = c
          /\ NoCounts
          /\ UNCHANGED <<result, aborted>>

\* stack_cleanup frees both blocks; the caller then forgets the handle, and
\* the fields go back to a fixed value so that they carry no history.
stack_cleanup ==
    \/ is_null /\ UNCHANGED vars
    \/ /\ ~is_null
       /\ heap' = heap \ {"struct", "data"}
       /\ is_null' = TRUE
       /\ block' = 0
       /\ stack_data' = Blank(0)
       /\ stack_capacity' = 0
       /\ NoCounts
       /\ UNCHANGED <<result, aborted>>

\* Mutant: the index of the top is taken for the size.
size_index == stack_top

size == stack_top + 1

stack_size ==
    /\ result' = IF is_null THEN 0 ELSE size
    /\ UNCHANGED <<is_null, memory, counts, aborted>>

stack_empty ==
    /\ \/ is_null /\ result' = -1
       \/ ~is_null /\ stack_top = EMPTY /\ result' = 1
       \/ ~is_null /\ stack_top # EMPTY /\ result' = 0
    /\ UNCHANGED <<is_null, memory, counts, aborted>>

\* resize_stack: the capacity it leaves, and the sizes the block may have then
\* (realloc succeeds or fails; the capacity grows on both outcomes).
RESIZED == stack_capacity * 2 + 1
resize_stack == {RESIZED} \cup (IF memory_lasts THEN {} ELSE {block})

\* An access outside the data block.
Abort ==
    /\ aborted' = TRUE
    /\ UNCHANGED <<is_null, memory, counts, result>>

\* Mutant: the stack is resized one push too late.
must_resize_late(top) == top > stack_capacity

must_resize(top) == top >= stack_capacity

\* stack_push raises the top, resizes when it reaches the capacity, ignores
\* whether that worked, and writes at the top.
stack_push(c) ==
    \/ /\ is_null
       /\ result' = 1
       /\ UNCHANGED <<is_null, memory, counts, aborted>>
    \/ /\ ~is_null
       /\ push_count < MAX_PUSHES
       /\ LET top == stack_top + 1
              full == must_resize(top)
          IN  \E ints \in IF full THEN resize_stack ELSE {block} :
                 \/ top >= ints /\ Abort
                 \/ /\ top < ints
                    /\ stack_top' = top
                    /\ stack_capacity' = IF full THEN RESIZED ELSE stack_capacity
                    /\ block' = ints
                    /\ stack_data' = [Grown(stack_data, ints) EXCEPT ![top] = c]
                    /\ max_elements' = IF top + 1 > max_elements
                                       THEN top + 1 ELSE max_elements
                    /\ push_count' = push_count + 1
                    /\ result' = 0
                    /\ UNCHANGED <<is_null, heap, pop_count, aborted>>

stack_pop ==
    \/ /\ is_null \/ stack_top = EMPTY
       /\ result' = -1
       /\ UNCHANGED <<is_null, memory, counts, aborted>>
    \/ /\ ~is_null
       /\ stack_top # EMPTY
       /\ stack_top' = stack_top - 1
       /\ pop_count' = pop_count + 1
       /\ result' = stack_data[stack_top]
       /\ UNCHANGED <<is_null, memory, push_count, max_elements, aborted>>

\* stack_peek tests for NULL only: on an empty stack it reads slot -1.
stack_peek ==
    \/ /\ is_null
       /\ result' = -1
       /\ UNCHANGED <<is_null, memory, counts, aborted>>
    \/ /\ ~is_null
       /\ stack_top \in 0..(block - 1)
       /\ result' = stack_data[stack_top]
       /\ UNCHANGED <<is_null, memory, counts, aborted>>
    \/ ~is_null /\ stack_top \notin 0..(block - 1) /\ Abort

Next ==
    /\ ~aborted
    /\ UNCHANGED memory_lasts
    /\ \/ \E c \in Capacities : stack_init(c)
       \/ stack_cleanup
       \/ stack_size
       \/ stack_empty
       \/ \E c \in Item : stack_push(c)
       \/ stack_pop
       \/ stack_peek

Spec == Init /\ [][Next]_vars

-----------------------------------------------------------------------------
(* Properties *)

TypeOK ==
    /\ is_null \in BOOLEAN
    /\ heap \subseteq {"struct", "data"}
    /\ block \in Nat
    /\ stack_data \in [0..(block - 1) -> Item \cup {JUNK}]
    /\ stack_capacity \in Nat
    /\ stack_top \in Nat \cup {EMPTY}
    /\ pop_count \in Nat
    /\ push_count \in Nat
    /\ max_elements \in Nat
    /\ result \in Int
    /\ aborted \in BOOLEAN
    /\ memory_lasts \in BOOLEAN

\* The heap holds a stack's two blocks exactly while the caller has a handle:
\* whichever malloc fails in stack_init, nothing leaks (check_malloc.c).
HeapMatchesHandle == heap = IF is_null THEN {} ELSE {"struct", "data"}

\* Everything below the top is inside the block and was written by a push, and
\* the two counters account for exactly what is there: a pop can neither read
\* outside the block nor return memory never written, even after resize_stack
\* failed and left the capacity larger than the block.
HeldIsOwned ==
    /\ stack_top < block
    /\ \A i \in 0..stack_top : stack_data[i] \in Item
    /\ push_count - pop_count = stack_top + 1
    /\ max_elements \in (stack_top + 1)..push_count

\* While memory lasts, every push has room: the block is never smaller than
\* the capacity the code goes by, and only a peek at an empty stack can stop the
\* process (resize_stack).
RoomWhileMemoryLasts ==
    memory_lasts =>
        /\ stack_capacity <= block
        /\ aborted => stack_top = EMPTY

contents == [i \in 1..(stack_top + 1) |-> stack_data[i - 1]]

L == INSTANCE Lifo WITH live <- ~is_null, items <- contents,
                        peak <- max_elements

\* The array implements the stack of stack.h until the process is stopped:
\* every pop returns the newest item still held, across any number of
\* successful and failed resizes.
ImplementsLifo == L!Spec
=============================================================================
