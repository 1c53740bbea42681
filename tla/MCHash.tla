------------------------------- MODULE MCHash -------------------------------
(* Instances of WordIndex.tla small enough for TLC: three words of one       *)
(* letter, of which hash_djb2 sends all to one bucket of two and two to one  *)
(* of four.  Words and hash functions are known by their numbers.            *)
EXTENDS WordIndex, HashFunctions

MCWords == <<<<97>>, <<99>>, <<101>>>>
MCOnAll(f(_)) == <<f(MCWords[1]), f(MCWords[2]), f(MCWords[3])>>
MCValues ==
    <<MCOnAll(hash_too_simple), MCOnAll(hash_djb2), MCOnAll(hash_k_and_r_v2)>>
MCHASH == MCValues
MChash_funcs == <<1, 2, 3>>
MCLoads == {<<3, 5>>, <<1, 5>>}
MCOne == <<1, 1>>
MCStartSizes == <<1, 2>>
MCMaxLoads == <<<<1, 5>>, <<1, 1>>>>
=============================================================================
