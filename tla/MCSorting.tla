------------------------------ MODULE MCSorting ------------------------------
(* Instances of Sorting.tla small enough for TLC.                            *)
EXTENDS Sorting

MCValues == {-1, 1, 2}
=============================================================================
