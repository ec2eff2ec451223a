------------------------ MODULE MCWatchTransactions ------------------------
(* TLC instances of WatchTransactions. *)
EXTENDS WatchTransactions, TLC

Symmetry == Permutations(Clients) \cup Permutations(Keys)
=============================================================================
