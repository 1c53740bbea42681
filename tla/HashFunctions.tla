---------------------------- MODULE HashFunctions ----------------------------
(***************************************************************************)
(* The hash functions of hash_func.c.  A key is the sequence of its bytes   *)
(* before the terminating zero; an unsigned long has WIDTH bits (64 in the  *)
(* code) and wraps around.                                                  *)
(***************************************************************************)
EXTENDS Integers, SequencesExt

CONSTANT WIDTH

ASSUME WidthAssumption == WIDTH \in Nat

wrapped(x) == x % 2^WIDTH

\* The first byte, which is the terminating zero of an empty key.
hash_too_simple(str) == wrapped(IF str = <<>> THEN 0 ELSE str[1])

hash_djb2(str) ==
    FoldLeft(LAMBDA hash, c : wrapped(wrapped(hash * 2^5) + hash + c),
             wrapped(5381), str)

hash_k_and_r_v2(str) ==
    FoldLeft(LAMBDA hashval, c : wrapped(c + 31 * hashval), 0, str)
=============================================================================
