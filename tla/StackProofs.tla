----------------------------- MODULE StackProofs -----------------------------
(***************************************************************************)
(* Proofs about the growing array of Stack.tla for every set of items, every *)
(* capacity and every word size, with reallocs that fail at any time.        *)
(***************************************************************************)
EXTENDS Stack, SequenceTheorems, TLAPS

\* A handle that was given back leaves nothing, and with one the top stays
\* below the capacity: that is why the block asked for next is large enough.
Handle ==
    /\ HeapMatchesHandle
    /\ is_null => stack_top = EMPTY /\ push_count = 0 /\ max_elements = 0
    /\ ~is_null => stack_top < stack_capacity

IInv == TypeOK /\ Handle /\ HeldIsOwned /\ RoomWhileMemoryLasts

\* An array of ints of a given size, as malloc leaves it, and as realloc does.
LEMMA BlankType ==
  ASSUME NEW n \in Nat
  PROVE  Blank(n) \in [0..(n - 1) -> Item \cup {JUNK}]
  BY DEF Blank

LEMMA GrownType ==
  ASSUME NEW n \in Nat, NEW b \in Nat,
         NEW data \in [0..(b - 1) -> Item \cup {JUNK}]
  PROVE  Grown(data, n) \in [0..(n - 1) -> Item \cup {JUNK}]
  BY DEF Grown

-----------------------------------------------------------------------------
(* The invariant *)

\* Init establishes the invariant.
LEMMA InitInv == Init => IInv
<1> SUFFICES ASSUME Init PROVE IInv
  OBVIOUS
<1>1. TypeOK
  <2>1. stack_data \in [0..(block - 1) -> Item \cup {JUNK}]
    BY BlankType DEF Init
  <2>2. heap \subseteq {"struct", "data"} /\ block \in Nat
    BY DEF Init
  <2>3. is_null \in BOOLEAN /\ aborted \in BOOLEAN /\ memory_lasts \in BOOLEAN
    BY DEF Init
  <2>4. /\ stack_top \in Nat \cup {EMPTY} /\ stack_capacity \in Nat
        /\ pop_count \in Nat /\ push_count \in Nat /\ max_elements \in Nat
        /\ result \in Int
    BY DEF Init
  <2> QED
    BY <2>1, <2>2, <2>3, <2>4 DEF TypeOK
<1>2. Handle /\ HeldIsOwned /\ RoomWhileMemoryLasts
  BY DEF Init, Handle, HeapMatchesHandle, HeldIsOwned, RoomWhileMemoryLasts, EMPTY
<1> QED
  BY <1>1, <1>2 DEF IInv

\* A call that only answers keeps the invariant.
LEMMA AnswerInv ==
  ASSUME IInv, UNCHANGED <<is_null, memory, counts, aborted, memory_lasts>>,
         result' \in Int
  PROVE  IInv'
<1> USE DEF memory, counts
<1>1. TypeOK'
  BY DEF IInv, TypeOK
<1>2. Handle' /\ HeldIsOwned' /\ RoomWhileMemoryLasts'
  BY DEF IInv, Handle, HeapMatchesHandle, HeldIsOwned, RoomWhileMemoryLasts
<1> QED
  BY <1>1, <1>2 DEF IInv

\* So does a process that stops where it may: at an empty stack, or when a
\* realloc can fail.
LEMMA AbortInv ==
  ASSUME IInv, Abort, UNCHANGED memory_lasts,
         memory_lasts => stack_top = EMPTY
  PROVE  IInv'
<1> USE DEF Abort, memory, counts
<1>1. TypeOK'
  BY DEF IInv, TypeOK
<1>2. Handle' /\ HeldIsOwned' /\ RoomWhileMemoryLasts'
  BY DEF IInv, Handle, HeapMatchesHandle, HeldIsOwned, RoomWhileMemoryLasts
<1> QED
  BY <1>1, <1>2 DEF IInv

\* A new stack satisfies the invariant, whichever malloc failed.
LEMMA CreateInv ==
  ASSUME IInv, ~aborted, UNCHANGED memory_lasts,
         NEW c \in Capacities, stack_init(c)
  PROVE  IInv'
<1>0. is_null /\ heap = {} /\ c \in Nat
  BY StackAssumption DEF stack_init, IInv, Handle, HeapMatchesHandle
<1>1. CASE UNCHANGED vars
  BY <1>1, AnswerInv DEF vars, IInv, TypeOK
<1>2. CASE /\ heap' = (heap \cup {"struct"}) \ {"struct"}
           /\ UNCHANGED <<is_null, block, stack_data, stack_capacity, counts,
                          result, aborted>>
  BY <1>0, <1>2, AnswerInv DEF memory, IInv, TypeOK
<1>3. CASE /\ c > 0
           /\ is_null' = FALSE
           /\ heap' = heap \cup {"struct", "data"}
           /\ block' = c * WIDTH
           /\ stack_data' = Blank(c * WIDTH)
           /\ stack_capacity' = c
           /\ NoCounts
           /\ UNCHANGED <<result, aborted>>
  <2>1. c * WIDTH \in Nat /\ c <= c * WIDTH
    BY <1>0, StackAssumption
  <2>2. stack_data' \in [0..(block' - 1) -> Item \cup {JUNK}]
    BY <1>3, <2>1, BlankType
  <2>3. TypeOK'
    <3>1. heap' \subseteq {"struct", "data"} /\ is_null' \in BOOLEAN
      BY <1>0, <1>3
    <3> QED
      BY <1>0, <1>3, <2>1, <2>2, <3>1 DEF IInv, TypeOK, NoCounts, EMPTY
  <2>4. Handle'
    BY <1>0, <1>3 DEF Handle, HeapMatchesHandle, NoCounts, EMPTY
  <2>5. HeldIsOwned'
    BY <1>3, <2>1 DEF HeldIsOwned, NoCounts, EMPTY
  <2>6. RoomWhileMemoryLasts'
    BY <1>3, <2>1 DEF RoomWhileMemoryLasts, NoCounts
  <2> QED
    BY <2>3, <2>4, <2>5, <2>6 DEF IInv
<1> QED
  BY <1>1, <1>2, <1>3 DEF stack_init

\* Giving a stack back keeps the invariant.
LEMMA CleanupInv ==
  ASSUME IInv, ~aborted, UNCHANGED memory_lasts, stack_cleanup
  PROVE  IInv'
<1>1. CASE UNCHANGED vars
  BY <1>1, AnswerInv DEF vars, IInv, TypeOK
<1>2. CASE /\ heap' = heap \ {"struct", "data"}
           /\ is_null' = TRUE
           /\ block' = 0
           /\ stack_data' = Blank(0)
           /\ stack_capacity' = 0
           /\ NoCounts
           /\ UNCHANGED <<result, aborted>>
  <2>1. TypeOK'
    <3>1. stack_data' \in [0..(block' - 1) -> Item \cup {JUNK}]
      BY <1>2, BlankType
    <3> QED
      BY <1>2, <3>1 DEF IInv, TypeOK, NoCounts, EMPTY
  <2>2. Handle'
    BY <1>2 DEF IInv, TypeOK, Handle, HeapMatchesHandle, NoCounts
  <2>3. HeldIsOwned' /\ RoomWhileMemoryLasts'
    BY <1>2 DEF HeldIsOwned, RoomWhileMemoryLasts, NoCounts, EMPTY
  <2> QED
    BY <2>1, <2>2, <2>3 DEF IInv
<1> QED
  BY <1>1, <1>2 DEF stack_cleanup

\* What a push that is granted its slot does.
Pushed(c, ints) ==
    /\ ~is_null
    /\ ints \in IF must_resize(stack_top + 1) THEN resize_stack ELSE {block}
    /\ stack_top + 1 < ints
    /\ stack_top' = stack_top + 1
    /\ stack_capacity' = IF must_resize(stack_top + 1) THEN RESIZED ELSE stack_capacity
    /\ block' = ints
    /\ stack_data' = [Grown(stack_data, ints) EXCEPT ![stack_top + 1] = c]
    /\ max_elements' = IF stack_top + 2 > max_elements
                       THEN stack_top + 2 ELSE max_elements
    /\ push_count' = push_count + 1
    /\ result' = 0
    /\ UNCHANGED <<is_null, heap, pop_count, aborted>>

\* The sizes that occur in a push: the block shrinks on no outcome, and is as
\* large as the capacity while memory lasts.
LEMMA PushSizes ==
  ASSUME IInv, ~is_null,
         NEW ints \in IF must_resize(stack_top + 1) THEN resize_stack ELSE {block}
  PROVE  /\ ints \in Nat
         /\ RESIZED \in Nat /\ RESIZED > stack_top + 1
         /\ memory_lasts => stack_top + 1 < ints /\
               (IF must_resize(stack_top + 1) THEN RESIZED ELSE stack_capacity) <= ints
<1>1. /\ block \in Nat /\ stack_capacity \in Nat
      /\ stack_top \in Int /\ stack_top >= -1
      /\ stack_top < stack_capacity
      /\ memory_lasts => stack_capacity <= block
  BY DEF IInv, TypeOK, Handle, RoomWhileMemoryLasts, EMPTY
<1> QED
  BY <1>1 DEF must_resize, resize_stack, RESIZED

\* A push keeps the slots below it.
LEMMA PushKeeps ==
  ASSUME IInv, NEW c \in Item, NEW ints, Pushed(c, ints)
  PROVE  /\ stack_data' \in [0..(block' - 1) -> Item \cup {JUNK}]
         /\ stack_data'[stack_top + 1] = c
         /\ \A i \in 0..stack_top : stack_data'[i] = stack_data[i]
<1>1. /\ ints \in Nat /\ block \in Nat
      /\ stack_top \in Int /\ stack_top >= -1 /\ stack_top < block
      /\ stack_data \in [0..(block - 1) -> Item \cup {JUNK}]
  BY PushSizes DEF IInv, TypeOK, HeldIsOwned, EMPTY, Pushed
<1>2. Grown(stack_data, ints) \in [0..(ints - 1) -> Item \cup {JUNK}]
  BY <1>1, GrownType
<1>3. stack_top + 1 \in 0..(ints - 1)
  BY <1>1 DEF Pushed
<1>4. stack_data' = [Grown(stack_data, ints) EXCEPT ![stack_top + 1] = c]
      /\ block' = ints
  BY DEF Pushed
<1>5. \A i \in 0..stack_top : Grown(stack_data, ints)[i] = stack_data[i]
  BY <1>1, <1>3 DEF Grown
<1> QED
  BY <1>1, <1>2, <1>3, <1>4, <1>5

\* A push on a stack either stops the process or is granted its slot.
LEMMA PushIsGranted ==
  ASSUME IInv, ~is_null, NEW c \in Item, stack_push(c)
  PROVE  \E ints \in IF must_resize(stack_top + 1) THEN resize_stack ELSE {block} :
            (stack_top + 1 >= ints /\ Abort) \/ Pushed(c, ints)
<1>1. /\ stack_top \in Int
      /\ \A x \in Int : x + 1 + 1 = x + 2
  BY DEF IInv, TypeOK, EMPTY
<1> QED
  BY <1>1 DEF stack_push, Pushed

\* A push keeps the invariant.
LEMMA PushInv ==
  ASSUME IInv, ~aborted, UNCHANGED memory_lasts, NEW c \in Item, stack_push(c)
  PROVE  IInv'
<1>1. CASE is_null
  BY <1>1, AnswerInv DEF stack_push
<1>2. CASE ~is_null
  <2>1. PICK ints \in IF must_resize(stack_top + 1) THEN resize_stack ELSE {block} :
           (stack_top + 1 >= ints /\ Abort) \/ Pushed(c, ints)
    BY <1>2, PushIsGranted
  <2>2. CASE stack_top + 1 >= ints /\ Abort
    <3>1. ~memory_lasts
      BY <1>2, <2>2, PushSizes DEF IInv, TypeOK, EMPTY
    <3> QED
      BY <2>2, <3>1, AbortInv
  <2>3. CASE Pushed(c, ints)
    <3>1. /\ stack_top' = stack_top + 1 /\ block' = ints
          /\ stack_capacity' = IF must_resize(stack_top + 1) THEN RESIZED
                               ELSE stack_capacity
          /\ max_elements' = IF stack_top + 2 > max_elements
                             THEN stack_top + 2 ELSE max_elements
          /\ push_count' = push_count + 1 /\ result' = 0
          /\ stack_top + 1 < ints
          /\ UNCHANGED <<is_null, heap, pop_count, aborted>>
      BY <2>3 DEF Pushed
    <3>2. /\ stack_top \in Int /\ stack_top >= -1
          /\ block \in Nat /\ stack_capacity \in Nat
          /\ stack_top < stack_capacity
          /\ push_count \in Nat /\ pop_count \in Nat /\ max_elements \in Nat
          /\ push_count - pop_count = stack_top + 1
          /\ max_elements \in (stack_top + 1)..push_count
          /\ \A i \in 0..stack_top : stack_data[i] \in Item
      BY <1>2 DEF IInv, TypeOK, Handle, HeldIsOwned, EMPTY
    <3>3. /\ ints \in Nat /\ RESIZED \in Nat /\ RESIZED > stack_top + 1
          /\ memory_lasts => stack_capacity' <= ints
      BY <1>2, <3>1, PushSizes
    <3>4. stack_capacity' \in Nat /\ stack_top' < stack_capacity'
      BY <3>1, <3>2, <3>3 DEF must_resize
    <3>5. TypeOK'
      <4>1. stack_data' \in [0..(block' - 1) -> Item \cup {JUNK}]
        BY <2>3, PushKeeps
      <4> QED
        BY <3>1, <3>2, <3>3, <3>4, <4>1 DEF IInv, TypeOK
    <3>6. Handle'
      BY <1>2, <3>1, <3>4 DEF IInv, Handle, HeapMatchesHandle
    <3>7. HeldIsOwned'
      <4>1. \A i \in 0..(stack_top + 1) : stack_data'[i] \in Item
        <5> SUFFICES ASSUME NEW i \in 0..(stack_top + 1)
                     PROVE  stack_data'[i] \in Item
          OBVIOUS
        <5>1. i = stack_top + 1 \/ i \in 0..stack_top
          BY <3>2
        <5> QED
          BY <2>3, <3>2, <5>1, PushKeeps
      <4> QED
        BY <3>1, <3>2, <4>1 DEF HeldIsOwned
    <3>8. RoomWhileMemoryLasts'
      BY <1>2, <3>1, <3>3 DEF IInv, RoomWhileMemoryLasts
    <3> QED
      BY <3>5, <3>6, <3>7, <3>8 DEF IInv
  <2> QED
    BY <2>1, <2>2, <2>3
<1> QED
  BY <1>1, <1>2

\* A pop keeps the invariant, and answers with an item that was pushed.
LEMMA PopInv ==
  ASSUME IInv, ~aborted, UNCHANGED memory_lasts, stack_pop
  PROVE  IInv'
<1>1. CASE is_null \/ stack_top = EMPTY
  BY <1>1, AnswerInv DEF stack_pop
<1>2. CASE ~is_null /\ stack_top # EMPTY
  <2>1. /\ stack_top' = stack_top - 1
        /\ pop_count' = pop_count + 1
        /\ result' = stack_data[stack_top]
        /\ UNCHANGED <<is_null, memory, push_count, max_elements, aborted>>
    BY <1>2 DEF stack_pop
  <2>2. /\ stack_top \in Nat
        /\ \A i \in 0..stack_top : stack_data[i] \in Item
        /\ push_count \in Nat /\ pop_count \in Nat /\ max_elements \in Nat
        /\ block \in Nat /\ stack_capacity \in Nat
    BY <1>2 DEF IInv, TypeOK, HeldIsOwned
  <2>3. result' \in Int
    <3>1. stack_data[stack_top] \in Item
      BY <2>2
    <3> QED
      BY <2>1, <3>1, StackAssumption
  <2>4. TypeOK'
    <3>1. stack_top' \in Nat \cup {EMPTY}
      BY <2>1, <2>2 DEF EMPTY
    <3> QED
      BY <2>1, <2>2, <2>3, <3>1 DEF IInv, TypeOK, memory
  <2>5. Handle'
    BY <1>2, <2>1, <2>2 DEF IInv, Handle, HeapMatchesHandle, memory
  <2>6. HeldIsOwned'
    BY <2>1, <2>2 DEF IInv, HeldIsOwned, memory
  <2>7. RoomWhileMemoryLasts'
    BY <2>1 DEF IInv, RoomWhileMemoryLasts, memory
  <2> QED
    BY <2>4, <2>5, <2>6, <2>7 DEF IInv
<1> QED
  BY <1>1, <1>2

\* So does a peek, which stops the process at an empty stack.
LEMMA PeekInv ==
  ASSUME IInv, ~aborted, UNCHANGED memory_lasts, stack_peek
  PROVE  IInv'
<1>1. CASE is_null
  BY <1>1, AnswerInv DEF stack_peek
<1>2. CASE ~is_null /\ stack_top \in 0..(block - 1)
  <2>1. stack_data[stack_top] \in Item
    BY <1>2 DEF IInv, TypeOK, HeldIsOwned
  <2>2. stack_data[stack_top] \in Int
    BY <2>1, StackAssumption
  <2> QED
    BY <1>2, <2>2, AnswerInv DEF stack_peek
<1>3. CASE ~is_null /\ stack_top \notin 0..(block - 1)
  <2>1. stack_top = EMPTY
    BY <1>3 DEF IInv, TypeOK, HeldIsOwned
  <2> QED
    BY <1>3, <2>1, AbortInv DEF stack_peek
<1> QED
  BY <1>1, <1>2, <1>3

\* Every step keeps the invariant.
LEMMA NextInv == IInv /\ [Next]_vars => IInv'
<1> SUFFICES ASSUME IInv, [Next]_vars PROVE IInv'
  OBVIOUS
<1>1. CASE UNCHANGED vars
  BY <1>1, AnswerInv DEF vars, IInv, TypeOK
<1>2. ASSUME stack_size \/ stack_empty, UNCHANGED memory_lasts PROVE IInv'
  <2>1. result' \in Int
    BY <1>2 DEF stack_size, stack_empty, size, IInv, TypeOK, EMPTY
  <2> QED
    BY <1>2, <2>1, AnswerInv DEF stack_size, stack_empty
<1> QED
  BY <1>1, <1>2, CreateInv, CleanupInv, PushInv, PopInv, PeekInv DEF Next

\* The inductive invariant holds of every reachable state.
LEMMA Invariance == Spec => []IInv
  BY InitInv, NextInv, PTL DEF Spec

\* No allocation leaks, whichever malloc fails, for every run of calls.
THEOREM NoLeak == Spec => []HeapMatchesHandle
<1>1. IInv => HeapMatchesHandle
  BY DEF IInv, Handle
<1> QED
  BY <1>1, Invariance, PTL

\* What is held was written and lies inside the block, for every capacity and
\* however many reallocs failed: no pop reads outside the block.
THEOREM HeldStaysOwned == Spec => []HeldIsOwned
<1>1. IInv => HeldIsOwned
  BY DEF IInv
<1> QED
  BY <1>1, Invariance, PTL

\* As long as no realloc fails, only a peek at an empty stack stops the process:
\* doubling plus one always makes room for the next push.
THEOREM PushesHaveRoom == Spec => []RoomWhileMemoryLasts
<1>1. IInv => RoomWhileMemoryLasts
  BY DEF IInv
<1> QED
  BY <1>1, Invariance, PTL

-----------------------------------------------------------------------------
(* The refinement *)

\* The contents are a sequence of items, one for each slot up to the top.
ContentsMeaning ==
    /\ contents \in Seq(Item)
    /\ Len(contents) = stack_top + 1
    /\ \A k \in 1..(stack_top + 1) : contents[k] = stack_data[k - 1]

\* The invariant makes the contents what they are meant to be.
LEMMA Contents == IInv => ContentsMeaning
<1> SUFFICES ASSUME IInv PROVE ContentsMeaning
  OBVIOUS
<1> DEFINE n == stack_top + 1
<1>1. /\ stack_top \in Int /\ n \in Nat
      /\ \A i \in 0..stack_top : stack_data[i] \in Item
  BY DEF IInv, TypeOK, HeldIsOwned, EMPTY
<1>2. \A k \in 1..n : stack_data[k - 1] \in Item
  BY <1>1
<1>3. contents = [k \in 1..n |-> stack_data[k - 1]]
  BY DEF contents
<1> HIDE DEF n
<1>4. contents \in [1..n -> Item]
  BY <1>2, <1>3
<1>5. contents \in Seq(Item) /\ Len(contents) = n
  BY <1>1, <1>4
<1> QED
  BY <1>3, <1>5 DEF n, ContentsMeaning

\* The contents are empty exactly when the top is.
LEMMA EmptyContents ==
  ASSUME IInv
  PROVE  contents = <<>> <=> stack_top = EMPTY
<1>1. ContentsMeaning /\ stack_top \in Nat \cup {EMPTY}
  BY Contents DEF IInv, TypeOK
<1> QED
  BY <1>1 DEF ContentsMeaning, EMPTY

\* A push that finds room appends to the contents.
LEMMA PushAppends ==
  ASSUME IInv, IInv', NEW c \in Item, NEW ints, Pushed(c, ints)
  PROVE  /\ contents' = Append(contents, c)
         /\ max_elements' = L!AtLeast(max_elements, Len(contents) + 1)
<1> DEFINE n == stack_top + 1
<1>1. /\ contents \in Seq(Item) /\ Len(contents) = n
      /\ \A k \in 1..n : contents[k] = stack_data[k - 1]
  BY Contents DEF ContentsMeaning
<1>2. /\ n \in Nat /\ stack_top = n - 1 /\ stack_top' = n
      /\ max_elements \in Nat
      /\ max_elements' = IF stack_top + 2 > max_elements
                         THEN stack_top + 2 ELSE max_elements
  BY DEF IInv, TypeOK, EMPTY, Pushed
<1>3. /\ contents' \in Seq(Item) /\ Len(contents') = n + 1
      /\ \A k \in 1..(n + 1) : contents'[k] = stack_data'[k - 1]
  <2>1. ContentsMeaning'
    BY Contents, PTL
  <2> QED
    BY <1>2, <2>1 DEF ContentsMeaning
<1>4. /\ stack_data'[n] = c
      /\ \A i \in 0..(n - 1) : stack_data'[i] = stack_data[i]
  BY <1>2, PushKeeps
<1> HIDE DEF n
<1>5. \A k \in 1..n : contents'[k] = contents[k]
  <2> SUFFICES ASSUME NEW k \in 1..n
               PROVE  contents'[k] = contents[k]
    OBVIOUS
  <2>1. k \in 1..(n + 1) /\ k - 1 \in 0..(n - 1)
    BY <1>2
  <2> QED
    BY <1>1, <1>3, <1>4, <2>1
<1>6. contents'[n + 1] = c
  <2>1. n + 1 \in 1..(n + 1) /\ (n + 1) - 1 = n
    BY <1>2
  <2> QED
    BY <1>3, <1>4, <2>1
<1>7. contents' = Append(contents, c)
  <2>1. /\ Append(contents, c) \in Seq(Item)
        /\ Len(Append(contents, c)) = n + 1
        /\ \A k \in 1..n : Append(contents, c)[k] = contents[k]
        /\ Append(contents, c)[n + 1] = c
    BY <1>1, AppendProperties
  <2>2. \A k \in 1..(n + 1) : k \in 1..n \/ k = n + 1
    BY <1>2
  <2> QED
    BY <1>3, <1>5, <1>6, <2>1, <2>2, SeqEqual
<1>8. max_elements' = L!AtLeast(max_elements, Len(contents) + 1)
  BY <1>1, <1>2 DEF L!AtLeast
<1> QED
  BY <1>7, <1>8

\* A pop takes the last of the contents.
LEMMA PopTakesTop ==
  ASSUME IInv, IInv', stack_pop, ~is_null, stack_top # EMPTY
  PROVE  /\ contents # <<>>
         /\ result' = L!Top(contents)
         /\ contents' = L!Below(contents)
<1> DEFINE n == stack_top + 1
<1>1. /\ contents \in Seq(Item) /\ Len(contents) = n
      /\ \A k \in 1..n : contents[k] = stack_data[k - 1]
  BY Contents DEF ContentsMeaning
<1>2. /\ n \in Nat \ {0} /\ stack_top = n - 1 /\ stack_top' = n - 2
      /\ stack_data' = stack_data
      /\ result' = stack_data[stack_top]
  BY DEF IInv, TypeOK, stack_pop, memory
<1>3. /\ contents' \in Seq(Item) /\ Len(contents') = n - 1
      /\ \A k \in 1..(n - 1) : contents'[k] = stack_data[k - 1]
  <2>1. ContentsMeaning'
    BY Contents, PTL
  <2>2. stack_top' + 1 = n - 1
    BY <1>2
  <2> QED
    BY <1>2, <2>1, <2>2 DEF ContentsMeaning
<1> HIDE DEF n
<1>4. contents # <<>> /\ result' = L!Top(contents)
  <2>1. n \in 1..n
    BY <1>2
  <2> QED
    BY <1>1, <1>2, <2>1 DEF L!Top
<1>5. contents' = L!Below(contents)
  <2>1. /\ SubSeq(contents, 1, n - 1) \in Seq(Item)
        /\ Len(SubSeq(contents, 1, n - 1)) = n - 1
        /\ \A k \in 1..(n - 1) : SubSeq(contents, 1, n - 1)[k] = contents[k]
    BY <1>1, <1>2
  <2>2. \A k \in 1..(n - 1) : contents'[k] = contents[k]
    BY <1>1, <1>2, <1>3
  <2>3. contents' = SubSeq(contents, 1, n - 1)
    BY <1>3, <2>1, <2>2, SeqEqual
  <2> QED
    BY <1>1, <2>3 DEF L!Below
<1> QED
  BY <1>4, <1>5

\* A call that only answers leaves what the caller of the LIFO sees unchanged.
LEMMA SameContents ==
  ASSUME UNCHANGED <<is_null, memory, counts>>
  PROVE  UNCHANGED <<~is_null, contents, max_elements>>
  BY DEF memory, counts, contents

\* Every step of the growing array is a step of the LIFO or changes nothing that
\* the caller of the LIFO sees.
LEMMA StepSimulation ==
  ASSUME IInv, IInv', [Next]_vars
  PROVE  [L!Next]_(L!vars)
<1> USE DEF L!Next, L!vars
<1>0. /\ ContentsMeaning
      /\ stack_top \in Nat \cup {EMPTY}
      /\ contents = <<>> <=> stack_top = EMPTY
      /\ is_null \in BOOLEAN /\ is_null' \in BOOLEAN
      /\ is_null => stack_top = EMPTY /\ max_elements = 0
  BY Contents, EmptyContents DEF IInv, TypeOK, Handle
<1>1. CASE UNCHANGED vars
  BY <1>1, SameContents DEF vars
<1>2. CASE Abort /\ ~is_null /\ ~aborted
  <2>1. UNCHANGED <<~is_null, contents, max_elements>>
    BY <1>2, SameContents DEF Abort
  <2> QED
    BY <1>2, <2>1 DEF Abort, L!Crash
<1>3. ASSUME NEW c \in Capacities, stack_init(c), ~aborted
      PROVE  [L!Next]_(L!vars)
  <2>1. CASE UNCHANGED <<is_null, block, stack_data, stack_capacity, counts,
                         result, aborted>>
    BY <2>1 DEF counts, contents
  <2>2. CASE is_null' = FALSE /\ NoCounts /\ UNCHANGED <<result, aborted>>
    <3>1. contents' = <<>>
      <4>1. stack_top' = EMPTY /\ IInv'
        BY <2>2 DEF NoCounts
      <4>2. (contents = <<>> <=> stack_top = EMPTY)'
        BY <4>1, EmptyContents, PTL
      <4> QED
        BY <4>1, <4>2 DEF EMPTY
    <3> QED
      BY <1>3, <2>2, <3>1 DEF stack_init, NoCounts, L!Create
  <2> QED
    BY <1>3, <2>1, <2>2 DEF stack_init, vars, memory
<1>4. ASSUME stack_cleanup, ~aborted PROVE [L!Next]_(L!vars)
  <2>1. CASE UNCHANGED vars
    BY <2>1, <1>1
  <2>2. CASE is_null' = TRUE /\ NoCounts /\ UNCHANGED <<result, aborted>>
    <3>1. contents' = <<>>
      <4>1. stack_top' = EMPTY /\ IInv'
        BY <2>2 DEF NoCounts
      <4>2. (contents = <<>> <=> stack_top = EMPTY)'
        BY <4>1, EmptyContents, PTL
      <4> QED
        BY <4>1, <4>2 DEF EMPTY
    <3> QED
      BY <1>4, <2>2, <3>1 DEF NoCounts, L!Close
  <2> QED
    BY <1>4, <2>1, <2>2 DEF stack_cleanup
<1>5. ASSUME stack_size, ~aborted PROVE [L!Next]_(L!vars)
  <2>1. UNCHANGED <<~is_null, contents, max_elements>> /\ UNCHANGED aborted
    BY <1>5, SameContents DEF stack_size
  <2>2. result' = Len(contents)
    BY <1>0, <1>5 DEF stack_size, size, ContentsMeaning, EMPTY
  <2> QED
    BY <1>5, <2>1, <2>2 DEF L!Size
<1>6. ASSUME stack_empty, ~aborted PROVE [L!Next]_(L!vars)
  <2>1. UNCHANGED <<~is_null, contents, max_elements>> /\ UNCHANGED aborted
    BY <1>6, SameContents DEF stack_empty
  <2> QED
    BY <1>0, <1>6, <2>1 DEF stack_empty, L!IsEmpty
<1>7. ASSUME NEW c \in Item, stack_push(c), ~aborted PROVE [L!Next]_(L!vars)
  <2>1. CASE is_null
    <3>1. UNCHANGED <<~is_null, contents, max_elements>>
          /\ UNCHANGED aborted /\ result' = 1
      BY <1>7, <2>1, SameContents DEF stack_push
    <3> QED
      BY <1>7, <2>1, <3>1 DEF L!Push
  <2>2. CASE ~is_null
    <3>1. PICK ints : Abort \/ Pushed(c, ints)
      BY <1>7, <2>2, PushIsGranted
    <3>2. CASE Pushed(c, ints)
      <4>1. /\ contents' = Append(contents, c)
            /\ max_elements' = L!AtLeast(max_elements, Len(contents) + 1)
        BY <3>2, PushAppends
      <4>2. result' = 0 /\ UNCHANGED <<~is_null, aborted>>
        BY <3>2 DEF Pushed
      <4> QED
        BY <1>7, <2>2, <4>1, <4>2 DEF L!Push
    <3> QED
      BY <1>2, <1>7, <2>2, <3>1, <3>2
  <2> QED
    BY <2>1, <2>2
<1>8. ASSUME stack_pop, ~aborted PROVE [L!Next]_(L!vars)
  <2>1. CASE is_null \/ stack_top = EMPTY
    <3>1. UNCHANGED <<~is_null, contents, max_elements>>
          /\ UNCHANGED aborted /\ result' = -1
      BY <1>8, <2>1, SameContents DEF stack_pop
    <3> QED
      BY <1>0, <1>8, <2>1, <3>1 DEF L!Pop
  <2>2. CASE ~is_null /\ stack_top # EMPTY
    <3>1. /\ contents # <<>>
          /\ result' = L!Top(contents)
          /\ contents' = L!Below(contents)
      BY <1>8, <2>2, PopTakesTop
    <3>2. UNCHANGED <<~is_null, max_elements, aborted>>
      BY <1>8, <2>2 DEF stack_pop
    <3> QED
      BY <1>8, <3>1, <3>2 DEF L!Pop
  <2> QED
    BY <2>1, <2>2
<1>9. ASSUME stack_peek, ~aborted PROVE [L!Next]_(L!vars)
  <2>1. CASE is_null
    <3>1. UNCHANGED <<~is_null, contents, max_elements>>
          /\ UNCHANGED aborted /\ result' = -1
      BY <1>9, <2>1, SameContents DEF stack_peek
    <3> QED
      BY <1>0, <1>9, <2>1, <3>1 DEF L!Peek
  <2>2. CASE ~is_null /\ stack_top \in 0..(block - 1)
    <3>1. UNCHANGED <<~is_null, contents, max_elements>>
          /\ UNCHANGED aborted /\ result' = stack_data[stack_top]
      BY <1>9, <2>2, SameContents DEF stack_peek
    <3>2. contents # <<>> /\ result' = L!Top(contents)
      <4>1. stack_top \in Nat /\ stack_top + 1 \in 1..(stack_top + 1)
            /\ (stack_top + 1) - 1 = stack_top
        BY <1>0, <2>2 DEF IInv, TypeOK, EMPTY
      <4>2. contents # <<>>
        BY <1>0, <4>1 DEF EMPTY
      <4> QED
        BY <1>0, <3>1, <4>1, <4>2 DEF ContentsMeaning, L!Top
    <3> QED
      BY <1>9, <3>1, <3>2 DEF L!Peek
  <2> QED
    BY <1>2, <1>9, <2>1, <2>2 DEF stack_peek
<1> QED
  BY <1>1, <1>3, <1>4, <1>5, <1>6, <1>7, <1>8, <1>9 DEF Next

\* The growing array implements the stack of stack.h until the process is
\* stopped: every answer is that of a last-in first-out stack, at every capacity
\* and whichever reallocs fail.
THEOREM GrowingArrayImplementsLifo == Spec => ImplementsLifo
<1>1. Init => L!Init
  <2> SUFFICES ASSUME Init PROVE L!Init
    OBVIOUS
  <2>1. contents = <<>>
    BY InitInv, EmptyContents DEF Init
  <2> QED
    BY <2>1 DEF Init, L!Init
<1>2. IInv /\ IInv' /\ [Next]_vars => [L!Next]_(L!vars)
  BY StepSimulation
<1> QED
  BY <1>1, <1>2, Invariance, PTL DEF Spec, ImplementsLifo, L!Spec
=============================================================================
