------------------------------- MODULE MCStack -------------------------------
(* Instances of Stack.tla small enough for TLC.                              *)
EXTENDS Stack

MCItem == {7, 8}
=============================================================================
