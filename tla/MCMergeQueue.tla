---------------------------- MODULE MCMergeQueue ----------------------------
(* TLC instances of MergeQueue. *)
EXTENDS MergeQueue, TLC

Symmetry == Permutations(Clients)
=============================================================================
