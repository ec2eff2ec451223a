-------------------------- MODULE MCKeyExpiration --------------------------
(* TLC instances of KeyExpiration. *)
EXTENDS KeyExpiration, TLC

CONSTANTS k1, k2, c1, c2

MCDbOfOne == [k \in Keys |-> 0]
MCDbOfTwo == [k \in Keys |-> IF k = k1 THEN 0 ELSE 1]

Cmd(name, k, to, arg, cond) ==
    [cmd |-> name, key |-> k, to |-> to, arg |-> arg, cond |-> cond, at |-> NoTtl]

\* Every command; two keys where the command takes two.
MCCommands ==
    {Cmd("set", k1, k1, 2, "always"), Cmd("set", k1, k1, KeepTtl, "xx"),
     Cmd("set", k2, k2, 0, "nx"),
     Cmd("expire", k1, k1, 1, "always"), Cmd("expire", k1, k1, 2, "gt"),
     Cmd("persist", k1, k1, 0, "always"), Cmd("getex", k1, k1, 1, "always"),
     Cmd("getexat", k1, k1, 2, "always"), Cmd("mutate", k1, k1, 1, "always"),
     Cmd("incrby", k1, k1, 1, "always"), Cmd("probe", k1, k1, 0, "always"),
     Cmd("del", k1, k2, 0, "always"), Cmd("flush", k1, k1, 0, "always"),
     Cmd("rename", k1, k2, 0, "always"), Cmd("rename", k2, k1, 0, "nx")}

\* What gives keys deadlines and takes them away again.
MCCommandsSweep ==
    {Cmd("set", k1, k1, 2, "always"), Cmd("set", k2, k2, 2, "always"),
     Cmd("expire", k2, k2, 1, "always"), Cmd("rename", k2, k2, 0, "always"),
     Cmd("incrby", k2, k2, 1, "always"), Cmd("persist", k2, k2, 0, "always")}

Symmetry == Permutations(Clients)
=============================================================================
