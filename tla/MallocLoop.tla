----------------------------- MODULE MallocLoop -----------------------------
(***************************************************************************)
(* The fault injection of malloc-test.c (program 2), which check_malloc.c    *)
(* (program 1) repeats word for word: malloc, calloc, free and exit are       *)
(* replaced, and MALLOC_LOOP calls a function again and again, the first time *)
(* refusing its first allocation, then its second, and so on, until a call    *)
(* has none refused.  Each call must answer an error when it was refused       *)
(* memory and give back what it had got.                                       *)
(* The function is one of those the tests name, or "other": any function,      *)
(* which asks for memory, frees, answers and exits as it likes.                *)
(* What can be wrong with a call (`faults`): "again", it asked for memory after *)
(* a refusal; "null", it freed NULL; "exit", it ended the process; "swallowed", *)
(* it answered no error although refused; "unasked", an error although not;     *)
(* "leak", an error without having freed all it was given.                      *)
(* Abstracted: addresses; what a test asserts of the result afterwards is       *)
(* that it is one.                                                             *)
(***************************************************************************)
EXTENDS Integers

CONSTANT MAX_CALLS   \* bound: calls of malloc, and of free, in one call of "other"

ASSUME LoopAssumption == MAX_CALLS \in Nat

VARIABLES
    subject,                  \* the function under test
    pc,                       \* "call", "returned", "again", "use" or a verdict
    malloc_non_fail_amount,   \* allocations this call asked for
    malloc_fail_amount,       \* how many of them are granted
    malloc_failedp,           \* 1 when one was refused
    free_count,
    res,                      \* the answer: "err" or "ok"
    blocks,                   \* history: what this call was given and did not free
    faults                    \* history: what calls of the function did wrong

counters == <<malloc_non_fail_amount, malloc_fail_amount, malloc_failedp, free_count>>
loop_vars == <<subject, pc, counters, res, blocks, faults>>

\* The blocks that the functions of list.c, stack.c and queue.c ask for, one
\* after the other; refused one, they free those before it and answer an error.
Tested ==
    [list_init |-> 1, list_new_node |-> 1, list_add_back |-> 0,
     list_add_front |-> 0, stack_init |-> 2, queue_init |-> 2]

\* enable_malloc_failing
LoopInit ==
    /\ subject \in DOMAIN Tested \cup {"other"}
    /\ pc = "call"
    /\ malloc_non_fail_amount = 0
    /\ malloc_fail_amount = 0
    /\ malloc_failedp = 0
    /\ free_count = 0
    /\ res = "ok"
    /\ blocks = 0
    /\ faults = {}

\* What the function may do next.
MayAsk ==
    IF subject = "other" THEN malloc_non_fail_amount < MAX_CALLS
    ELSE malloc_failedp = 0 /\ malloc_non_fail_amount < Tested[subject]
MayFree ==
    IF subject = "other" THEN free_count < MAX_CALLS ELSE malloc_failedp = 1
Answers ==
    IF subject = "other" THEN {"ok", "err"}
    ELSE IF malloc_failedp = 1 THEN IF blocks = 0 THEN {"err"} ELSE {}
    ELSE IF MayAsk THEN {} ELSE {"ok"}

\* malloc and calloc: ++malloc_non_fail_amount > _malloc_fail_amount.
Refused == malloc_non_fail_amount + 1 > malloc_fail_amount

malloc ==
    /\ pc = "call"
    /\ MayAsk
    /\ malloc_non_fail_amount' = malloc_non_fail_amount + 1
    /\ malloc_failedp' = IF Refused THEN 1 ELSE malloc_failedp
    /\ blocks' = IF Refused THEN blocks ELSE blocks + 1
    /\ \/ malloc_failedp = 0 /\ UNCHANGED faults
       \/ malloc_failedp = 1 /\ faults' = faults \cup {"again"}
    /\ UNCHANGED <<subject, pc, malloc_fail_amount, free_count, res>>

\* free counts every call, one for NULL as well.
free ==
    /\ pc = "call"
    /\ MayFree
    /\ free_count' = free_count + 1
    /\ \/ blocks > 0 /\ blocks' = blocks - 1 /\ UNCHANGED faults
       \/ subject = "other" /\ faults' = faults \cup {"null"} /\ UNCHANGED blocks
    /\ UNCHANGED <<subject, pc, malloc_non_fail_amount, malloc_fail_amount,
                   malloc_failedp, res>>

\* exit ends the test with a status that is not the one the test must have.
exit ==
    /\ pc = "call"
    /\ subject = "other"
    /\ pc' = "failed"
    /\ faults' = faults \cup {"exit"}
    /\ UNCHANGED <<subject, counters, res, blocks>>

Return(r) ==
    /\ pc = "call"
    /\ r \in Answers
    /\ res' = r
    /\ pc' = "returned"
    /\ \/ /\ \/ r = "ok" /\ malloc_failedp = 0
             \/ r = "err" /\ malloc_failedp = 1 /\ blocks = 0
          /\ UNCHANGED faults
       \/ /\ r = "ok" /\ malloc_failedp = 1
          /\ faults' = faults \cup {"swallowed"}
       \/ /\ r = "err" /\ malloc_failedp = 0
          /\ faults' = faults \cup {"unasked"}
       \/ /\ r = "err" /\ malloc_failedp = 1 /\ blocks > 0
          /\ faults' = faults \cup {"leak"}
    /\ UNCHANGED <<subject, counters, blocks>>

\* Mutant: a call that frees too little is let through.
Balanced_loose == malloc_non_fail_amount > free_count

\* old_non_fail_amount - 1 = old_free_count; without an allocation the left
\* side is the largest size_t.
Balanced == malloc_non_fail_amount = free_count + 1

\* The test of MALLOC_LOOP on the answer.
Accepted == \/ res = "err" /\ Balanced
            \/ res = "ok" /\ malloc_failedp = 0

Judge ==
    /\ pc = "returned"
    /\ \/ Accepted /\ pc' = "again"
       \/ ~Accepted /\ pc' = "failed"
    /\ UNCHANGED <<subject, counters, res, blocks, faults>>

\* Mutant: the next call is refused the same allocation.
one_more_same == malloc_fail_amount

one_more == malloc_fail_amount + 1

\* The condition of the loop: malloc_failedp().
Again ==
    /\ pc = "again"
    /\ malloc_failedp' = 0
    /\ free_count' = 0
    /\ \/ /\ malloc_failedp = 1
          /\ malloc_fail_amount' = one_more
          /\ malloc_non_fail_amount' = 0
          /\ blocks' = 0
          /\ pc' = "call"
       \/ /\ malloc_failedp = 0
          /\ pc' = "use"
          /\ UNCHANGED <<malloc_fail_amount, malloc_non_fail_amount, blocks>>
    /\ UNCHANGED <<subject, res, faults>>

\* restore_malloc, and the assertions on the result.
Use ==
    /\ pc = "use"
    /\ pc' = IF res = "ok" THEN "passed" ELSE "failed"
    /\ UNCHANGED <<subject, counters, res, blocks, faults>>

LoopNext ==
    \/ malloc \/ free \/ exit
    \/ \E r \in {"ok", "err"} : Return(r)
    \/ Judge \/ Again \/ Use

LoopSpec == LoopInit /\ [][LoopNext]_loop_vars
LoopFairSpec == LoopSpec /\ WF_loop_vars(LoopNext)

-----------------------------------------------------------------------------
(* Properties *)

\* The verdict is exact for functions that do not free NULL: a function passes
\* only if no call was at fault and each allocation of the last call had been
\* refused once before, and fails only if a call was at fault; the functions
\* of this repository do not fail.  A free of NULL can make up for a leak in
\* the count (malloc-test.c:86-91), but never hides an ignored refusal.
VerdictExact ==
    /\ pc = "passed" =>
          /\ faults \cap {"swallowed", "unasked", "exit"} = {}
          /\ "null" \notin faults => faults = {}
          /\ malloc_non_fail_amount <= malloc_fail_amount
    /\ pc = "failed" => faults # {} /\ subject = "other"

\* A test comes to a verdict: the loop goes on only as long as a call asks for
\* an allocation that none was refused before.
TestEnds == <>(pc \in {"passed", "failed"})
=============================================================================
