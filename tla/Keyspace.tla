------------------------------ MODULE Keyspace ------------------------------
(***************************************************************************)
(* What the key space promises its clients about deadlines: every command  *)
(* takes effect at one instant, on the records as they are at that         *)
(* instant, and a record disappears by itself only after its deadline.     *)
(* (Two exceptions are how DEL of several keys and FLUSHDB really behave:  *)
(* Missable and Look.)                                                     *)
(* There is no index, no lock, no batch and no retry here.                 *)
(*                                                                         *)
(* A command reads the clock during its execution, not at its effect: t is *)
(* the reading it judges liveness by and u the one it computes a deadline  *)
(* from, and both may be older than the effect.                            *)
(***************************************************************************)
EXTENDS Integers

CONSTANTS Keys, Clients, DbOf, Commands, MaxNow

VARIABLES now, meta, request

Absent == -1
NoTtl == 0
None == [cmd |-> "none"]

Passed(d, t) == d > NoTtl /\ t >= d
Exists(m, k, t) == m[k] # Absent /\ ~Passed(m[k], t)

Matches(o, cur, new) ==
    \/ o.cond = "always"
    \/ o.cond = "nx" /\ cur = NoTtl
    \/ o.cond \in {"xx", "gt", "xxgt", "xxlt"} /\ cur # NoTtl
       /\ (o.cond \in {"gt", "xxgt"} => new > cur)
       /\ (o.cond = "xxlt" => new < cur)
    \/ o.cond = "lt" /\ (cur = NoTtl \/ new < cur)

\* The deadline (or Absent) a command on one key leaves the key with.
Outcome(o, m, t, u) ==
    LET d == m[o.key]
        there == Exists(m, o.key, t)
        kept == IF there THEN d ELSE NoTtl
        At(e) == IF Passed(e, u) THEN Absent ELSE e
    IN  CASE o.cmd = "set" ->
               IF (o.cond = "nx" /\ there) \/ (o.cond = "xx" /\ ~there) THEN d
               ELSE At(IF o.arg < 0 THEN kept ELSE o.arg)
          [] o.cmd = "mutate" -> IF o.arg = 0 THEN d ELSE kept
          [] o.cmd = "incrby" -> kept
          [] o.cmd = "expire" /\ there /\ Matches(o, d, u + o.arg) -> At(u + o.arg)
          [] o.cmd = "persist" /\ there -> NoTtl
          [] o.cmd = "getex" /\ there -> IF o.arg < 0 THEN NoTtl ELSE At(u + o.arg)
          [] o.cmd = "getexat" /\ there -> At(o.arg)
          [] OTHER -> d

Renames(o, m, t) ==
    /\ o.cmd = "rename" /\ o.key # o.to
    /\ Exists(m, o.key, t)
    /\ o.cond = "nx" => ~Exists(m, o.to, t)

\* DEL conditions its batch on the keys it found, so it misses a key INCRBY,
\* which takes no lock, creates meanwhile.  Such a key has no deadline, and
\* DEL found at least one other.
Missable(o, m) ==
    IF o.cmd # "del" THEN {{}}
    ELSE {S \in SUBSET {k \in {o.key, o.to} : m[k] = NoTtl} : S # {o.key, o.to}}

Effect(o, m, t, u, missed) ==
    [k \in Keys |->
        CASE o.cmd = "flushing" /\ k \in o.found -> Absent
          [] o.cmd = "del" /\ k \in {o.key, o.to} \ missed -> Absent
          [] Renames(o, m, t) /\ k = o.key -> Absent
          [] Renames(o, m, t) /\ k = o.to -> m[o.key]
          [] o.cmd \notin {"flushing", "del", "rename"} /\ k = o.key -> Outcome(o, m, t, u)
          [] OTHER -> m[k]]

Init ==
    /\ now = 1
    /\ meta = [k \in Keys |-> Absent]
    /\ request = [c \in Clients |-> None]

Issue(c) ==
    /\ request[c] = None
    /\ \E o \in Commands : request' = [request EXCEPT ![c] = o]
    /\ UNCHANGED <<now, meta>>

\* FLUSHDB deletes the keys it finds at an earlier instant than its effect.
Look(c) ==
    /\ request[c].cmd = "flush"
    /\ request' = [request EXCEPT ![c] =
          [cmd |-> "flushing",
           found |-> {k \in Keys : DbOf[k] = DbOf[request[c].key] /\ meta[k] # Absent}]]
    /\ UNCHANGED <<now, meta>>

\* Between the two instants only INCRBY, which takes no lock, takes effect: a
\* key it creates survives.
Execute(c) ==
    /\ request' = [request EXCEPT ![c] = None]
    /\ LET o == request[c] IN
       /\ o.cmd \notin {"none", "flush"}
       /\ \A d \in Clients \ {c} : request[d].cmd = "flushing" => o.cmd = "incrby"
       /\ \E t, u \in 1 .. now : \E missed \in Missable(o, meta) :
             meta' = Effect(o, meta, t, u, missed)
    /\ UNCHANGED now

\* A conflict error: no effect.
Fail(c) ==
    /\ request[c] # None
    /\ request' = [request EXCEPT ![c] = None]
    /\ UNCHANGED <<now, meta>>

Expire(k) ==
    /\ Passed(meta[k], now)
    /\ meta' = [meta EXCEPT ![k] = Absent]
    /\ UNCHANGED <<now, request>>

Tick ==
    /\ now < MaxNow
    /\ now' = now + 1
    /\ UNCHANGED <<meta, request>>

\* Requests in flight are lost without effect; what took effect stays.
Crash ==
    /\ request' = [c \in Clients |-> None]
    /\ UNCHANGED <<now, meta>>

Next ==
    \/ \E c \in Clients : Issue(c) \/ Look(c) \/ Execute(c) \/ Fail(c)
    \/ \E k \in Keys : Expire(k)
    \/ Tick
    \/ Crash

Spec == Init /\ [][Next]_<<now, meta, request>>
=============================================================================
