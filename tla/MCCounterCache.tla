--------------------------- MODULE MCCounterCache ---------------------------
(* TLC instances of CounterCache. *)
EXTENDS CounterCache, TLC

Cmd(cmd, arg, ttl) == [cmd |-> cmd, arg |-> arg, ttl |-> ttl]

MCCommandsLocked ==
    {Cmd("incr", 1, "none"), Cmd("incr", -1, "none"), Cmd("set", 0, "none"),
     Cmd("set", 1, "live"), Cmd("del", 0, "none")}

MCCommandsIncrby == {Cmd("incr", 1, "none"), Cmd("incrby", 2, "none")}

MCMinInt == -1

Symmetry == Permutations(Clients)
=============================================================================
