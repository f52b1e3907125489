---------------------------- MODULE MCIndexCache ----------------------------
(* Small instances of IndexCache. *)
EXTENDS IndexCache, TLC

CONSTANTS a, b, w1, w2, keeper, compactor

SymIds == Permutations(Id)
=============================================================================
