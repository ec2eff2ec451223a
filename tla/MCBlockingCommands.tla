------------------------- MODULE MCBlockingCommands -------------------------
(* TLC instances of BlockingCommands. *)
EXTENDS BlockingCommands, TLC

CONSTANTS k1, k2

PopBoth == [keys |-> {k1, k2}, to |-> {}, deadline |-> TRUE]
Move12 == [keys |-> {k1}, to |-> {k2}, deadline |-> FALSE]
MCCommands == {PopBoth, Move12}

Symmetry == Permutations(Clients) \cup Permutations(Writers)
=============================================================================
