-------------------------- MODULE MCListMetaCache ---------------------------
(* TLC instances of ListMetaCache. *)
EXTENDS ListMetaCache, TLC

Symmetry == Permutations(Clients)
=============================================================================
