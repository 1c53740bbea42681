------------------------------- MODULE MCQueue -------------------------------
(* Instances of Queue.tla small enough for TLC.                              *)
EXTENDS Queue

MCItem == {7, 8, 9}
=============================================================================
