----------------------------- MODULE Dictionary -----------------------------
(***************************************************************************)
(* What hash_table.h promises: a map from keys to the values inserted for   *)
(* them, in the order of their insertion.  A key without values is absent.  *)
(***************************************************************************)
EXTENDS Integers, Sequences, FiniteSets

CONSTANTS Key, Value

VARIABLES live,      \* there is a table
          entries,   \* the values of every key
          answer     \* what the last call returned

Empty == [k \in Key |-> <<>>]
present == {k \in Key : entries[k] # <<>>}

Init == live = FALSE /\ entries = Empty /\ answer = <<>>

Create ==
    /\ ~live
    /\ live' \in BOOLEAN
    /\ UNCHANGED <<entries, answer>>

Put(k, v) ==
    /\ live
    /\ answer' = <<0>>
    /\ UNCHANGED live
    /\ entries' = [entries EXCEPT ![k] = Append(@, v)]

Delete(k) ==
    /\ live
    /\ answer' = <<0>>
    /\ UNCHANGED live
    /\ k \in present
    /\ entries' = [entries EXCEPT ![k] = <<>>]

\* The answers of calls that leave the entries alone.  An insertion for which
\* there was no memory answers 1; for a key that is present its answer is left
\* open: hash_table.h:28 says 1, the code returns 0.
Refuse(k) == answer' = <<1>> \/ (answer' = <<0>> /\ k \in present)
Lookup(k) == answer' = entries[k]
DeleteNothing(k) ==
    \/ ~live /\ answer' = <<-1>>
    \/ live /\ k \notin present /\ answer' = <<1>>

\* A load factor is a fraction; -1 stands for the error.
LoadFactor ==
    \/ answer' = <<-1>>
    \/ live /\ Len(answer') = 2 /\ answer'[1] = Cardinality(present)

Close ==
    /\ live' = FALSE
    /\ entries' = Empty
    /\ UNCHANGED answer

Next ==
    \/ Create
    \/ \E k \in Key : Delete(k) \/ \E v \in Value : Put(k, v)
    \/ /\ UNCHANGED <<live, entries>>
       /\ \/ \E k \in Key : Refuse(k) \/ Lookup(k) \/ DeleteNothing(k)
          \/ LoadFactor
    \/ Close

Spec == Init /\ [][Next]_<<live, entries, answer>>
=============================================================================
