-------------------------------- MODULE Lifo --------------------------------
(***************************************************************************)
(* What stack.h promises its callers: a last-in first-out stack that       *)
(* answers every call with a value.  `live` is FALSE for the NULL handle.   *)
(* A call may also take the process down (Crash): a caller then gets no    *)
(* answer, but never a wrong one.  Stack.tla, the array of stack.c,         *)
(* implements it; the depth-first solver is composed with it.              *)
(***************************************************************************)
EXTENDS Integers, Sequences

CONSTANT Item       \* the values a caller stores

VARIABLES
    live,      \* there is a stack
    items,     \* the items held, the top one last
    peak,      \* the most items it ever held, as reported by the statistics
    result,    \* what the last call returned
    aborted    \* the process was stopped inside a call

vars == <<live, items, peak, result, aborted>>

AtLeast(a, b) == IF a >= b THEN a ELSE b
Top(s) == s[Len(s)]
Below(s) == SubSeq(s, 1, Len(s) - 1)

Init ==
    /\ live = FALSE
    /\ items = <<>>
    /\ peak = 0
    /\ result = 0
    /\ aborted = FALSE

Create ==
    /\ ~live
    /\ live' = TRUE
    /\ items' = <<>>
    /\ peak' = 0
    /\ UNCHANGED <<result, aborted>>

Push(e) ==
    \/ /\ live
       /\ items' = Append(items, e)
       /\ peak' = AtLeast(peak, Len(items) + 1)
       /\ result' = 0
       /\ UNCHANGED <<live, aborted>>
    \/ /\ ~live
       /\ result' = 1
       /\ UNCHANGED <<live, items, peak, aborted>>

Pop ==
    \/ /\ items # <<>>
       /\ result' = Top(items)
       /\ items' = Below(items)
       /\ UNCHANGED <<live, peak, aborted>>
    \/ /\ items = <<>>
       /\ result' = -1
       /\ UNCHANGED <<live, items, peak, aborted>>

Peek ==
    /\ result' = IF items = <<>> THEN -1 ELSE Top(items)
    /\ UNCHANGED <<live, items, peak, aborted>>

IsEmpty ==
    /\ \/ ~live /\ result' = -1
       \/ live /\ items = <<>> /\ result' = 1
       \/ items # <<>> /\ result' = 0
    /\ UNCHANGED <<live, items, peak, aborted>>

Size ==
    /\ result' = Len(items)
    /\ UNCHANGED <<live, items, peak, aborted>>

Close ==
    /\ live' = FALSE
    /\ items' = <<>>
    /\ peak' = 0
    /\ UNCHANGED <<result, aborted>>

Crash ==
    /\ live
    /\ aborted' = TRUE
    /\ UNCHANGED <<live, items, peak, result>>

Next ==
    /\ ~aborted
    /\ \/ Create
       \/ \E e \in Item : Push(e)
       \/ Pop
       \/ Peek
       \/ IsEmpty
       \/ Size
       \/ Close
       \/ Crash

Spec == Init /\ [][Next]_vars
=============================================================================
