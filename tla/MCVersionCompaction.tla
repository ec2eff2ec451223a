------------------------ MODULE MCVersionCompaction -------------------------
(* Instances of VersionCompaction for TLC.                                 *)
EXTENDS VersionCompaction, TLC

Symmetry == Permutations(Keys) \cup Permutations(Clients)
=============================================================================
