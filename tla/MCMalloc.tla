------------------------------ MODULE MCMalloc ------------------------------
(* Instance of MallocLoop.tla for TLC: a function other than those tested     *)
(* calls malloc and free up to four times each.                               *)
EXTENDS MallocLoop
=============================================================================
