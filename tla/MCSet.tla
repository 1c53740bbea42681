-------------------------------- MODULE MCSet --------------------------------
(* Instances of SetProgram.tla small enough for TLC: six numbers, and a      *)
(* seventh operand that is the first again once it is cast to an int.        *)
EXTENDS SetProgram

MCOperand == (1..6) \cup {33}
=============================================================================
