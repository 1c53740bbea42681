----------------------------- MODULE OrderedSet -----------------------------
(***************************************************************************)
(* What set.h promises: a set of ints and the answers of its operations.    *)
(* There may be no set (set_init failed), or no memory for one more number; *)
(* the process may stop at any time, with its numbers freed or not.        *)
(***************************************************************************)
EXTENDS Integers, Sequences

CONSTANT Num

VARIABLES created,   \* set_init returned a set
          numbers,   \* what the set holds
          answer,    \* what the last operation returned or printed
          stopped    \* the process is over

Init == created \in BOOLEAN /\ numbers = {} /\ answer = <<>> /\ stopped = FALSE

\* set.h:14-16.  A number for which there is no memory is not inserted; the
\* answer is left open then: set.h:14 says -1 and the code returns 0.
Add(n) ==
    \/ /\ created
       /\ n \notin numbers
       /\ numbers' = numbers \cup {n}
       /\ answer' = <<0>>
    \/ /\ created
       /\ n \in numbers
       /\ answer' = <<1>>
       /\ UNCHANGED numbers
    \/ /\ n \notin numbers
       /\ answer' \in {<<-1>>, <<0>>}
       /\ UNCHANGED numbers

Find(n) ==
    /\ answer' = IF n \in numbers THEN <<1>> ELSE <<0>>
    /\ UNCHANGED numbers

Take(n) ==
    /\ numbers' = numbers \ {n}
    /\ answer' = IF n \in numbers THEN <<0>> ELSE <<1>>

\* s lists the numbers of X in ascending order.
Ascending(s, X) ==
    /\ X = {s[i] : i \in DOMAIN s}
    /\ \A i, j \in DOMAIN s : i < j => s[i] < s[j]

PrintAll ==
    /\ created
    /\ Ascending(answer', numbers)
    /\ UNCHANGED numbers

Next ==
    \/ /\ ~stopped
       /\ UNCHANGED <<created, stopped>>
       /\ \/ \E n \in Num : Add(n) \/ Find(n) \/ Take(n)
          \/ PrintAll
    \/ /\ ~stopped
       /\ stopped' = TRUE
       /\ numbers' \in {numbers, {}}
       /\ UNCHANGED <<created, answer>>

Spec == Init /\ [][Next]_<<created, numbers, answer, stopped>>
=============================================================================
