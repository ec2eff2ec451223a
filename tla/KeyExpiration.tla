--------------------------- MODULE KeyExpiration ---------------------------
(***************************************************************************)
(* Key deadlines and the persistent TTL index.                             *)
(*                                                                         *)
(* A key's main record carries its deadline (expire_ms, 0 when it has      *)
(* none).  The TTL index is an ordered set of (deadline, key) entries in   *)
(* the same store.  Every command rewrites both in one atomic batch that   *)
(* the engine applies only if the main records the command observed have   *)
(* not been written since (a compare-and-write on observation tokens).     *)
(* Commands hold the exclusive lock of their keys' shards, except INCRBY   *)
(* and the lazy expiry probe, which rely on the compare-and-write alone.   *)
(* RENAME runs in an autocommit transaction: it plans on a snapshot and    *)
(* takes the locks only to commit.  FLUSHDB holds every lock, scans the    *)
(* database and then deletes, unconditionally, what the scan found.  A     *)
(* background sweeper reads due index entries in bounded batches, visiting *)
(* the databases round robin, and deletes the keys they still describe.    *)
(*                                                                         *)
(* Abstractions: the value behind a deadline is left out; one lock per key *)
(* (two keys of one shard only exclude each other more); the 64-attempt    *)
(* retry loops may give up after any failed attempt.                       *)
(***************************************************************************)
EXTENDS Integers, FiniteSets

CONSTANTS
    Keys,         \* logical keys, over all databases
    Clients,      \* connection tasks, one command at a time
    Sweeper,      \* the sweeper task
    NoOwner,      \* an unlocked key
    NumDbs,       \* number of databases (db_count)
    DbOf,         \* database of each key
    Commands,     \* the commands clients may issue
    BatchSize,    \* TtlConfig::batch_size
    MaxNow,       \* bound on the clock
    MaxCrashes,   \* bound on the crashes
    FailingKeys   \* keys the expire hook may fail on forever

Absent == -1                     \* no main record
NoTtl == 0                       \* expire_ms of a key without deadline
Deadlines == Nat
Meta == Deadlines \cup {Absent}
Unset == -2                      \* a record a batch has nothing on
Procs == Clients \cup {Sweeper}

CommandNames == {"set", "expire", "persist", "getex", "getexat", "del",
                 "mutate", "incrby", "probe", "rename", "flush"}
Conditions == {"always", "nx", "xx", "gt", "lt", "xxgt", "xxlt"}
KeepTtl == -1                    \* SetExpiration::KeepTtl
Persist == -1                    \* StringExpireUpdate::Persist

\* key: first key; to: second key of RENAME and DEL (or the same key again);
\* arg: SET KeepTtl, 0 (clear) or an absolute deadline; EXPIRE and GETEX a
\* relative ttl, GETEX also Persist; GETEXAT (GETEX with EXAT or PXAT) a
\* deadline; MUTATE (APPEND, SETRANGE, SETBIT...) 0 when the value is left as
\* it was; at: EXPIRE's deadline once it is fixed.
Command == {o \in [cmd : CommandNames, key : Keys, to : Keys, arg : Int,
                   cond : Conditions, at : Deadlines] :
               /\ o.cmd = "set" => o.arg >= KeepTtl
               /\ o.cmd = "getex" => o.arg >= Persist
               /\ o.cmd \in {"expire", "getexat"} => o.arg >= 0}

ASSUME ConstantsAssumption ==
    /\ Keys # {}
    /\ Sweeper \notin Clients
    /\ NoOwner \notin Procs
    /\ NumDbs \in Nat \ {0}
    /\ DbOf \in [Keys -> 0 .. NumDbs - 1]
    /\ Commands \subseteq Command
    /\ BatchSize \in Nat \ {0}
    /\ MaxNow \in Nat
    /\ MaxCrashes \in Nat
    /\ FailingKeys \subseteq Keys
    /\ \A o \in Commands : o.at = NoTtl

VARIABLES
    now,          \* now_ms()
    meta,         \* deadline of each key's main record, or Absent
    index,        \* TTL index: set of <<deadline, key>>
    lockedBy,     \* holder of each key's exclusive lock
    pc,           \* where each task is
    op,           \* the command each client runs
    todo,         \* keys whose lazy expiry the command still has to check
    plan,         \* the observation and batch a task is about to commit
    stale,        \* an observed record was written since the observation
    sweep,        \* entries of the sweeper's current batch left to process
    entry,        \* the entry the sweeper is processing
    nextDb,       \* database the next scan starts from
    crashes       \* crashes so far

vars == <<now, meta, index, lockedBy, pc, op, todo, plan, stale, sweep,
          entry, nextDb, crashes>>

-----------------------------------------------------------------------------
(* Batches.                                                                *)

Due(d, t) == d > NoTtl /\ t >= d
Entry(d, k) == IF d > NoTtl THEN {<<d, k>>} ELSE {}

\* What a compare-and-write carries: the records it is conditioned on, the
\* main records it puts or deletes, the index entries it deletes and puts.
Entries == (Deadlines \ {NoTtl}) \X Keys
Records == [Keys -> Meta \cup {Unset}]
Plan == [seen : Records, write : Records,
         unindex : SUBSET Entries, reindex : SUBSET Entries]

Nothing == [x \in Keys |-> Unset]
EmptyPlan == [seen |-> Nothing, write |-> Nothing, unindex |-> {}, reindex |-> {}]
On(f, k) == f[k] # Unset
\* Mutant: the batch is written without its conditions.
Unconditional(S, m) == Nothing

Observed(S, m) == [x \in Keys |-> IF x \in S THEN m[x] ELSE Unset]
Deleted(S) == [x \in Keys |-> IF x \in S THEN Absent ELSE Unset]

\* write_string_value_to_batch and the EXPIRE/PERSIST batches: put the record
\* with deadline d, drop the old entry unless it is the same, add the new one.
PutPlan(k, m, d) ==
    [seen |-> Observed({k}, m),
     write |-> [Nothing EXCEPT ![k] = d],
     unindex |-> Entry(m[k], k) \ Entry(d, k),
     reindex |-> Entry(d, k)]

\* append_expiration_delete_to_batch, delete_main_key_with_ttl_to_batch and
\* the DEL batches: delete the records and the entries they are known by.
DeletePlan(S, m) ==
    [seen |-> Observed(S, m),
     write |-> Deleted(S),
     unindex |-> UNION {Entry(m[x], x) : x \in S},
     reindex |-> {}]

\* Mutant: the target's deadline is not indexed.
MovePlanUnindexed(a, b, m) ==
    [seen |-> Observed({a, b}, m), write |-> [Nothing EXCEPT ![a] = Absent, ![b] = m[a]],
     unindex |-> Entry(m[a], a) \cup Entry(m[b], b), reindex |-> {}]

\* Mutant: the overwritten target's entry is left behind.
MovePlanKeepsTarget(a, b, m) ==
    [seen |-> Observed({a, b}, m), write |-> [Nothing EXCEPT ![a] = Absent, ![b] = m[a]],
     unindex |-> Entry(m[a], a), reindex |-> Entry(m[a], b)]

\* rename_key: the target takes the source's deadline, both old entries go.
MovePlan(a, b, m) ==
    [seen |-> Observed({a, b}, m),
     write |-> [Nothing EXCEPT ![a] = Absent, ![b] = m[a]],
     unindex |-> Entry(m[a], a) \cup Entry(m[b], b),
     reindex |-> Entry(m[a], b)]

EntriesIn(db, idx) == {e \in idx : DbOf[e[2]] = db}

\* flushdb_async: the scan of the database's table returns its records and its
\* index entries, and the batch deletes those, unconditionally.  (The table has
\* no upper bound to range-delete to: db_prefix_exclusive_upper_bound.)
FlushPlan(db, m, idx) ==
    [seen |-> Nothing,
     write |-> Deleted({k \in Keys : DbOf[k] = db /\ m[k] # Absent}),
     unindex |-> EntriesIn(db, idx),
     reindex |-> {}]

\* Mutant: the record is deleted without comparing its deadline.
SweepPlanUnchecked(e, m) ==
    [seen |-> Observed({e[2]}, m), write |-> Deleted({e[2]}),
     unindex |-> {e}, reindex |-> {}]

\* The sweeper's plan: the entry goes in any case, and the record with it if
\* the entry's deadline is still the record's.
SweepPlan(e, m) ==
    [seen |-> Observed({e[2]}, m),
     write |-> Deleted({k \in {e[2]} : m[k] = e[1]}),
     unindex |-> {e},
     reindex |-> {}]

-----------------------------------------------------------------------------
(* What each command decides from the records it observed.                 *)

KeysOf(o) == {o.key, o.to}

\* FLUSHDB takes every shard, the other commands those of their keys.
LocksOf(o) == IF o.cmd = "flush" THEN Keys ELSE KeysOf(o)
Unlocked == {"incrby", "probe"}

SetMatches(cond, d) ==
    \/ cond = "always"
    \/ cond = "nx" /\ d = Absent
    \/ cond = "xx" /\ d # Absent

expire_condition_matches(cur, new, cond) ==
    \/ cond = "always"
    \/ cond = "nx" /\ cur = NoTtl
    \/ cond = "xx" /\ cur > NoTtl
    \/ cond \in {"gt", "xxgt"} /\ cur > NoTtl /\ new > cur
    \/ cond = "lt" /\ (cur = NoTtl \/ new < cur)
    \/ cond = "xxlt" /\ cur > NoTtl /\ new < cur

SetDeadline(o, d) ==
    IF o.arg = KeepTtl THEN (IF d = Absent THEN NoTtl ELSE d) ELSE o.arg

\* Each plan below is EmptyPlan when the command replies without writing.
SetPlan(o, m, t) ==
    LET k == o.key
        d == SetDeadline(o, m[k])
    IN  IF ~SetMatches(o.cond, m[k]) THEN EmptyPlan
        ELSE IF Due(d, t) THEN DeletePlan({k}, m)
        ELSE PutPlan(k, m, d)

ExpirePlan(o, m) ==
    LET k == o.key IN
    IF m[k] = Absent \/ ~expire_condition_matches(m[k], o.at, o.cond) THEN EmptyPlan
    ELSE IF o.arg = 0 THEN DeletePlan({k}, m)
    ELSE PutPlan(k, m, o.at)

PersistPlan(k, m) ==
    IF m[k] \in {Absent, NoTtl} THEN EmptyPlan ELSE PutPlan(k, m, NoTtl)

GetexPlan(o, m, t) ==
    LET k == o.key IN
    IF m[k] = Absent THEN EmptyPlan
    ELSE IF o.arg = Persist THEN PersistPlan(k, m)
    ELSE IF o.arg = 0 THEN DeletePlan({k}, m)
    ELSE PutPlan(k, m, t + o.arg)

GetexAtPlan(o, m, t) ==
    LET k == o.key IN
    IF m[k] = Absent THEN EmptyPlan
    ELSE IF o.arg <= t THEN DeletePlan({k}, m)
    ELSE PutPlan(k, m, o.arg)

DelPlan(o, m) == DeletePlan({k \in KeysOf(o) : m[k] # Absent}, m)

\* The value is rewritten under the deadline it has.
KeepDeadlinePlan(k, m) == PutPlan(k, m, IF m[k] = Absent THEN NoTtl ELSE m[k])
MutatePlan(o, m) == IF o.arg = 0 THEN EmptyPlan ELSE KeepDeadlinePlan(o.key, m)
IncrbyPlan(o, m) == KeepDeadlinePlan(o.key, m)

\* RENAME plans on its snapshot, where lazy expiry is staged as well.
RenamePlan(o, m, t) ==
    LET live(k) == m[k] # Absent /\ ~Due(m[k], t) IN
    IF o.key = o.to \/ ~live(o.key) \/ (o.cond = "nx" /\ live(o.to)) THEN EmptyPlan
    ELSE MovePlan(o.key, o.to, m)

PlanOf(o, m, t) ==
    CASE o.cmd = "set"     -> SetPlan(o, m, t)
      [] o.cmd = "expire"  -> ExpirePlan(o, m)
      [] o.cmd = "persist" -> PersistPlan(o.key, m)
      [] o.cmd = "getex"   -> GetexPlan(o, m, t)
      [] o.cmd = "getexat" -> GetexAtPlan(o, m, t)
      [] o.cmd = "del"     -> DelPlan(o, m)
      [] o.cmd = "mutate"  -> MutatePlan(o, m)
      [] o.cmd = "incrby"  -> IncrbyPlan(o, m)
      [] o.cmd = "rename"  -> RenamePlan(o, m, t)
      [] o.cmd = "probe"   -> EmptyPlan

\* An EXPIRE or PERSIST that observes a due record goes back to lazy expiry.
Again(o, m, t) == o.cmd \in {"expire", "persist"} /\ Due(m[o.key], t)

-----------------------------------------------------------------------------
(* The store and the locks.                                                *)

\* One engine batch.  Every task that observed a written record is stale.
Apply(p, self) ==
    /\ meta' = [k \in Keys |-> IF On(p.write, k) THEN p.write[k] ELSE meta[k]]
    /\ index' = (index \ p.unindex) \cup p.reindex
    /\ stale' = [q \in Procs |->
                  /\ q # self
                  /\ \/ stale[q]
                     \/ \E k \in Keys : On(p.write, k) /\ On(plan[q].seen, k)]

Acquire(S, self) ==
    /\ \A k \in S : lockedBy[k] = NoOwner
    /\ lockedBy' = [k \in Keys |-> IF k \in S THEN self ELSE lockedBy[k]]

Release(self) ==
    lockedBy' = [k \in Keys |-> IF lockedBy[k] = self THEN NoOwner ELSE lockedBy[k]]

Idle == [cmd |-> "probe", key |-> CHOOSE k \in Keys : TRUE,
         to |-> CHOOSE k \in Keys : TRUE, arg |-> 0, cond |-> "always", at |-> NoTtl]

Init ==
    /\ now = 1
    /\ meta = [k \in Keys |-> Absent]
    /\ index = {}
    /\ lockedBy = [k \in Keys |-> NoOwner]
    /\ pc = [p \in Procs |-> "idle"]
    /\ op = [c \in Clients |-> Idle]
    /\ todo = [c \in Clients |-> {}]
    /\ plan = [p \in Procs |-> EmptyPlan]
    /\ stale = [p \in Procs |-> FALSE]
    /\ sweep = {}
    /\ entry = <<NoTtl, CHOOSE k \in Keys : TRUE>>
    /\ nextDb = 0
    /\ crashes = 0

-----------------------------------------------------------------------------
(* Commands.                                                               *)

\* The command returns: its guard is dropped.
Reply(c) ==
    /\ pc' = [pc EXCEPT ![c] = "idle"]
    /\ op' = [op EXCEPT ![c] = Idle]
    /\ todo' = [todo EXCEPT ![c] = {}]
    /\ plan' = [plan EXCEPT ![c] = EmptyPlan]
    /\ Release(c)

\* A command without a batch replies; one with a batch goes on to commit it.
Submit(c, p, next) ==
    \/ /\ p = EmptyPlan
       /\ Reply(c)
       /\ UNCHANGED stale
    \/ /\ p # EmptyPlan
       /\ plan' = [plan EXCEPT ![c] = p]
       /\ stale' = [stale EXCEPT ![c] = FALSE]
       /\ pc' = [pc EXCEPT ![c] = next]
       /\ UNCHANGED <<op, todo, lockedBy>>

Begin(c) ==
    /\ pc[c] = "idle"
    /\ \E o \in Commands :
          /\ op' = [op EXCEPT ![c] = o]
          /\ todo' = [todo EXCEPT ![c] = IF o.cmd \in Unlocked THEN {o.key} ELSE {}]
          /\ pc' = [pc EXCEPT ![c] =
                       CASE o.cmd \in Unlocked -> "expire"
                         [] o.cmd = "rename" -> "stage"
                         [] OTHER -> "lock"]
    /\ UNCHANGED <<now, meta, index, lockedBy, plan, stale, sweep, entry, nextDb, crashes>>

\* RENAME inside its transaction: expire_if_needed and the batch are staged
\* on the snapshot; an error or a reply without effect discards it.
Stage(c) ==
    /\ pc[c] = "stage"
    /\ op[c].cmd = "rename"
    /\ Submit(c, PlanOf(op[c], meta, now), "lock")
    /\ UNCHANGED <<now, meta, index, sweep, entry, nextDb, crashes>>

\* The shard guards.  EXPIRE fixes its deadline once it holds them.
Lock(c) ==
    /\ pc[c] = "lock"
    /\ Acquire(LocksOf(op[c]), c)
    /\ op' = [op EXCEPT ![c].at = IF op[c].cmd = "expire" THEN now + op[c].arg ELSE NoTtl]
    /\ todo' = [todo EXCEPT ![c] =
                   IF op[c].cmd \in {"rename", "flush"} THEN {} ELSE KeysOf(op[c])]
    /\ pc' = [pc EXCEPT ![c] = IF op[c].cmd = "rename" THEN "write" ELSE "expire"]
    /\ UNCHANGED <<now, meta, index, plan, stale, sweep, entry, nextDb, crashes>>

\* expire_if_needed_async, its read.
LazyCheck(c) ==
    /\ pc[c] = "expire"
    /\ \E k \in todo[c] :
          \/ /\ ~Due(meta[k], now)
             /\ todo' = [todo EXCEPT ![c] = @ \ {k}]
             /\ UNCHANGED <<pc, plan, stale>>
          \/ /\ Due(meta[k], now)
             /\ plan' = [plan EXCEPT ![c] = DeletePlan({k}, meta)]
             /\ stale' = [stale EXCEPT ![c] = FALSE]
             /\ pc' = [pc EXCEPT ![c] = "lazy"]
             /\ UNCHANGED todo
    /\ UNCHANGED <<now, meta, index, lockedBy, op, sweep, entry, nextDb, crashes>>

\* expire_if_needed_async, its compare-and-write; on a conflict it reads again.
LazyDelete(c) ==
    /\ pc[c] = "lazy"
    /\ pc' = [pc EXCEPT ![c] = "expire"]
    /\ plan' = [plan EXCEPT ![c] = EmptyPlan]
    /\ \/ /\ stale[c]
          /\ stale' = [stale EXCEPT ![c] = FALSE]
          /\ UNCHANGED <<meta, index, todo>>
       \/ /\ ~stale[c]
          /\ Apply(plan[c], c)
          /\ todo' = [todo EXCEPT ![c] = {k \in @ : ~On(plan[c].write, k)}]
    /\ UNCHANGED <<now, lockedBy, op, sweep, entry, nextDb, crashes>>

\* The command observes its records and builds its batch, or replies.
Decide(c) ==
    /\ pc[c] = "expire"
    /\ op[c].cmd # "flush"
    /\ todo[c] = {}
    /\ \/ /\ Again(op[c], meta, now)
          /\ todo' = [todo EXCEPT ![c] = {op[c].key}]
          /\ UNCHANGED <<op, pc, plan, stale, lockedBy>>
       \/ /\ ~Again(op[c], meta, now)
          /\ Submit(c, PlanOf(op[c], meta, now), "write")
    /\ UNCHANGED <<now, meta, index, sweep, entry, nextDb, crashes>>

\* FLUSHDB's scan of the database's table.
FlushScan(c) ==
    /\ pc[c] = "expire"
    /\ op[c].cmd = "flush"
    /\ plan' = [plan EXCEPT ![c] = FlushPlan(DbOf[op[c].key], meta, index)]
    /\ stale' = [stale EXCEPT ![c] = FALSE]
    /\ pc' = [pc EXCEPT ![c] = "entries"]
    /\ UNCHANGED <<now, meta, index, lockedBy, op, todo, sweep, entry, nextDb, crashes>>

\* remove_db_to_batch_async: a second scan adds the database's index entries;
\* an empty batch is not written.
FlushEntries(c) ==
    /\ pc[c] = "entries"
    /\ Submit(c, [plan[c] EXCEPT !.unindex = @ \cup EntriesIn(DbOf[op[c].key], index)], "write")
    /\ UNCHANGED <<now, meta, index, sweep, entry, nextDb, crashes>>

\* The compare-and-write succeeds, FLUSHDB's batch is written, or the
\* transaction commits.
Write(c) ==
    /\ pc[c] = "write"
    /\ ~stale[c]
    /\ Apply(plan[c], c)
    /\ Reply(c)
    /\ UNCHANGED <<now, sweep, entry, nextDb, crashes>>

\* The compare-and-write fails: the command starts over under its locks.  A
\* transaction does not retry.
Retry(c) ==
    /\ pc[c] = "write"
    /\ stale[c]
    /\ op[c].cmd # "rename"
    /\ pc' = [pc EXCEPT ![c] = "expire"]
    /\ todo' = [todo EXCEPT ![c] = KeysOf(op[c])]
    /\ plan' = [plan EXCEPT ![c] = EmptyPlan]
    /\ stale' = [stale EXCEPT ![c] = FALSE]
    /\ UNCHANGED <<now, meta, index, lockedBy, op, sweep, entry, nextDb, crashes>>

\* The command returns a conflict error: the 64th failed attempt (of any
\* loop), or a transaction whose snapshot is out of date.
GiveUp(c) ==
    /\ pc[c] \in {"lazy", "write"}
    /\ stale[c]
    /\ Reply(c)
    /\ stale' = [stale EXCEPT ![c] = FALSE]
    /\ UNCHANGED <<now, meta, index, sweep, entry, nextDb, crashes>>

-----------------------------------------------------------------------------
(* The sweeper.                                                            *)

\* Mutants: the next database is not wrapped; the next scan starts where this
\* one did.
DbAfterUnwrapped(db) == db + 1
DbAfterSame(db) == db

DbAfter(db) == (db + 1) % NumDbs
Distance(db) == (db + NumDbs - nextDb) % NumDbs
\* Scan order: databases from nextDb on, then ascending deadlines.
Before(e, f) ==
    \/ Distance(DbOf[e[2]]) < Distance(DbOf[f[2]])
    \/ DbOf[e[2]] = DbOf[f[2]] /\ e[1] < f[1]

\* scan_expired_batch_async.  The sweeper scans again at once after a full
\* batch and after a delay otherwise; a scan that fails changes nothing.
SweepScan ==
    /\ pc[Sweeper] = "idle"
    /\ LET due == {e \in index : e[1] <= now} IN
       \E B \in SUBSET due :
          /\ B # {}
          /\ Cardinality(B) <= BatchSize
          /\ B = due \/ Cardinality(B) = BatchSize
          /\ \A e \in B, f \in due \ B : ~Before(f, e)
          /\ sweep' = B
          /\ \E last \in B :
                /\ \A e \in B : Distance(DbOf[e[2]]) <= Distance(DbOf[last[2]])
                /\ nextDb' = IF Cardinality(B) = BatchSize
                             THEN DbAfter(DbOf[last[2]]) ELSE nextDb
    /\ pc' = [pc EXCEPT ![Sweeper] = "next"]
    /\ UNCHANGED <<now, meta, index, lockedBy, op, todo, plan, stale, entry, crashes>>

\* An entry of the batch, under its key's lock.  (The code takes them in scan
\* order; nothing below depends on it.)
SweepLock(e) ==
    /\ pc[Sweeper] = "next"
    /\ e \in sweep
    /\ Acquire({e[2]}, Sweeper)
    /\ sweep' = sweep \ {e}
    /\ entry' = e
    /\ pc' = [pc EXCEPT ![Sweeper] = "observe"]
    /\ UNCHANGED <<now, meta, index, op, todo, plan, stale, nextDb, crashes>>

\* The entry is read back against the main record.
SweepObserve(k) ==
    /\ pc[Sweeper] = "observe"
    /\ entry[2] = k
    /\ plan' = [plan EXCEPT ![Sweeper] = SweepPlan(entry, meta)]
    /\ stale' = [stale EXCEPT ![Sweeper] = FALSE]
    /\ pc' = [pc EXCEPT ![Sweeper] = "sweep"]
    /\ UNCHANGED <<now, meta, index, lockedBy, op, todo, sweep, entry, nextDb, crashes>>

\* The read or the expire hook fails: the record and its entry stay.
SweepSkip ==
    /\ pc[Sweeper] = "observe"
    /\ pc' = [pc EXCEPT ![Sweeper] = "next"]
    /\ Release(Sweeper)
    /\ UNCHANGED <<now, meta, index, op, todo, plan, stale, sweep, entry, nextDb, crashes>>

\* commit_expire_plan_async: a conflict leaves the entry to a later sweep.
SweepCommit ==
    /\ pc[Sweeper] = "sweep"
    /\ \/ stale[Sweeper] /\ UNCHANGED <<meta, index>>
          /\ stale' = [stale EXCEPT ![Sweeper] = FALSE]
       \/ ~stale[Sweeper] /\ Apply(plan[Sweeper], Sweeper)
    /\ plan' = [plan EXCEPT ![Sweeper] = EmptyPlan]
    /\ pc' = [pc EXCEPT ![Sweeper] = "next"]
    /\ Release(Sweeper)
    /\ UNCHANGED <<now, op, todo, sweep, entry, nextDb, crashes>>

SweepDone ==
    /\ pc[Sweeper] = "next"
    /\ sweep = {}
    /\ pc' = [pc EXCEPT ![Sweeper] = "idle"]
    /\ UNCHANGED <<now, meta, index, lockedBy, op, todo, plan, stale, sweep, entry,
                   nextDb, crashes>>

-----------------------------------------------------------------------------
Tick ==
    /\ now < MaxNow
    /\ now' = now + 1
    /\ UNCHANGED <<meta, index, lockedBy, pc, op, todo, plan, stale, sweep, entry,
                   nextDb, crashes>>

\* The process dies and starts again: the store is what survives, and the
\* TTL index is read from it in place (rebuild_from_store materializes nothing).
Crash ==
    /\ crashes < MaxCrashes
    /\ crashes' = crashes + 1
    /\ lockedBy' = [k \in Keys |-> NoOwner]
    /\ pc' = [p \in Procs |-> "idle"]
    /\ op' = [c \in Clients |-> Idle]
    /\ todo' = [c \in Clients |-> {}]
    /\ plan' = [p \in Procs |-> EmptyPlan]
    /\ stale' = [p \in Procs |-> FALSE]
    /\ sweep' = {}
    /\ nextDb' = 0
    /\ UNCHANGED <<now, meta, index, entry>>

ClientStep(c) ==
    \/ Stage(c) \/ Lock(c) \/ LazyCheck(c) \/ LazyDelete(c)
    \/ Decide(c) \/ FlushScan(c) \/ FlushEntries(c)
    \/ Write(c) \/ Retry(c) \/ GiveUp(c)

SweeperStep ==
    \/ SweepScan
    \/ \E e \in sweep : SweepLock(e)
    \/ \E k \in Keys : SweepObserve(k)
    \/ SweepSkip \/ SweepCommit \/ SweepDone

Next ==
    \/ \E c \in Clients : Begin(c) \/ ClientStep(c)
    \/ SweeperStep
    \/ Tick
    \/ Crash

Spec == Init /\ [][Next]_vars

-----------------------------------------------------------------------------
(* Properties.                                                             *)

PcValues == {"idle", "stage", "lock", "expire", "lazy", "entries", "write",
             "next", "observe", "sweep"}

\* Type invariant of the key space, the index and every task's local state.
TypeOK ==
    /\ now \in Nat
    /\ meta \in [Keys -> Meta]
    /\ index \subseteq Entries
    /\ lockedBy \in [Keys -> Procs \cup {NoOwner}]
    /\ pc \in [Procs -> PcValues]
    /\ op \in [Clients -> Command]
    /\ todo \in [Clients -> SUBSET Keys]
    /\ plan \in [Procs -> Plan]
    /\ stale \in [Procs -> BOOLEAN]
    /\ sweep \subseteq Entries
    /\ entry \in Deadlines \X Keys
    /\ nextDb \in 0 .. NumDbs - 1
    /\ crashes \in 0 .. MaxCrashes

\* Every record with a deadline has its entry in the TTL index, whatever the
\* interleaving of commands, lazy expiry, RENAME commits, FLUSHDB, sweeps and
\* crashes: the sweeper, whose only source is the index, can find every key
\* that will fall due.
IndexCoversDeadlines == \A k \in Keys : Entry(meta[k], k) \subseteq index

\* No entry outlives the deadline it was written for: a batch that moves or
\* drops a deadline takes the old entry with it, and FLUSHDB's scan of the
\* index misses no entry although INCRBY and lazy expiry run during it.
IndexHasNoLeaks == \A e \in index : meta[e[2]] = e[1]

\* Lazy expiry and the sweeper delete a record only if its own deadline has
\* passed; any other change of a record is the commit of a command that
\* names the key.  In particular a concurrent SET, PERSIST or EXPIRE cannot
\* be deleted by a stale sweeper decision (expire_key_async).
RecordChangeAllowed(k) ==
    \/ meta'[k] = meta[k]
    \/ Due(meta[k], now) /\ meta'[k] = Absent
    \/ \E c \in Clients : pc[c] = "write" /\ pc'[c] = "idle" /\ k \in LocksOf(op[c])
ExpiryNeverEarly == [][\A k \in Keys : RecordChangeAllowed(k)]_vars

-----------------------------------------------------------------------------
(* The inductive invariant.                                                *)

\* What a task observed and nobody has written since is still in the store.
ObservationsCurrent ==
    \A p \in Procs : ~stale[p] =>
        \A k \in Keys : On(plan[p].seen, k) => meta[k] = plan[p].seen[k]

\* A batch adds the entry of every deadline it writes, and deletes an entry
\* only of a record it writes too or has observed with another deadline.  A
\* batch that observed nothing is FLUSHDB's (Conditional).
KeepsIndex(p) ==
    /\ \A k \in Keys : p.write[k] > NoTtl => <<p.write[k], k>> \in p.reindex
    /\ \A e \in p.unindex :
          \/ p.seen = Nothing
          \/ On(p.write, e[2])
          \/ On(p.seen, e[2]) /\ p.seen[e[2]] # e[1]
PlansKeepIndex == \A p \in Procs : KeepsIndex(plan[p])

\* A client writes only after planning, and only records it names, and
\* lazy expiry and the sweeper only to delete records observed due.
PlansAuthorized ==
    /\ \A c \in Clients : pc[c] = "idle" => plan[c].write = Nothing
    /\ \A c \in Clients : pc[c] \in {"lock", "entries", "write"} =>
          \A k \in Keys : On(plan[c].write, k) => k \in LocksOf(op[c])
    /\ \A p \in Procs : pc[p] \in {"lazy", "sweep"} =>
          \A k \in Keys : On(plan[p].write, k) =>
             plan[p].write[k] = Absent /\ Due(plan[p].seen[k], now)

\* The sweeper holds entries that are due.
SweepEntriesDue ==
    /\ \A e \in sweep : e[1] <= now
    /\ pc[Sweeper] \in {"idle", "next", "observe", "sweep"}
    /\ pc[Sweeper] = "observe" => Due(entry[1], now)

\* A command past its guards holds them, unless it takes none.
HoldsLocks(c) ==
    pc[c] \in {"expire", "lazy", "entries", "write"} /\ op[c].cmd \notin Unlocked =>
        \A k \in LocksOf(op[c]) : lockedBy[k] = c

\* A command without locks writes a record back under the deadline it
\* observed, or a new record without one.
KeepsDeadline(c) ==
    pc[c] = "write" /\ op[c].cmd \in Unlocked =>
        \A k \in Keys : On(plan[c].write, k) =>
            On(plan[c].seen, k) /\ plan[c].write[k] \in {plan[c].seen[k], NoTtl}

Flushing(c) == op[c].cmd = "flush" /\ pc[c] \in {"entries", "write"}

\* FLUSHDB deletes entries of its database only, and a key of the database
\* that its scan did not find has no deadline.
FlushSound(c) ==
    /\ pc[c] = "entries" => op[c].cmd = "flush"
    /\ Flushing(c) =>
          /\ plan[c].seen = Nothing
          /\ \A e \in plan[c].unindex : DbOf[e[2]] = DbOf[op[c].key]
          /\ \A k \in Keys : DbOf[k] = DbOf[op[c].key] /\ ~On(plan[c].write, k) =>
                meta[k] \in {Absent, NoTtl}

\* Only FLUSHDB deletes entries without having observed a record.
Conditional(p) ==
    plan[p].seen = Nothing => plan[p].unindex = {} \/ (p \in Clients /\ Flushing(p))

\* While FLUSHDB runs, the others leave the keys it missed without deadline.
Exclusion ==
    /\ \A p \in Procs : Conditional(p)
    /\ \A c \in Clients : HoldsLocks(c) /\ KeepsDeadline(c) /\ FlushSound(c)

IInv ==
    /\ TypeOK
    /\ IndexCoversDeadlines
    /\ ObservationsCurrent
    /\ PlansKeepIndex
    /\ PlansAuthorized
    /\ SweepEntriesDue
    /\ Exclusion

-----------------------------------------------------------------------------
(* What the code does not keep, and liveness.                              *)

\* A running task goes on.  The runtime's key locks are first come, first
\* served, so the sweeper's wait for one ends; the read and the expire hook
\* do not fail forever, except the hook on FailingKeys.
Fairness ==
    /\ \A c \in Clients : WF_vars(ClientStep(c))
    /\ WF_vars(SweepScan)
    /\ SF_vars(\E e \in sweep : SweepLock(e))
    /\ \A k \in Keys \ FailingKeys : SF_vars(SweepObserve(k))
    /\ WF_vars(SweepSkip) /\ WF_vars(SweepCommit) /\ WF_vars(SweepDone)

FairSpec == Spec /\ Fairness

\* Every key that falls due is eventually deleted or given another deadline,
\* even while the hook keeps failing on FailingKeys: a full batch of entries
\* that cannot be deleted in one database does not keep the sweeper from
\* the others, because each scan starts where the last one stopped.
DueKeysReclaimed ==
    \A k \in Keys \ FailingKeys : \A d \in 1 .. MaxNow :
        (meta[k] = d /\ d <= now) ~> meta[k] # d

\* Refinement: a client's request is outstanding until its task is idle; once
\* FLUSHDB has scanned, what its batch deletes is what it found.
request ==
    [c \in Clients |->
        IF pc[c] = "idle" THEN [cmd |-> "none"]
        ELSE IF Flushing(c)
             THEN [cmd |-> "flushing", found |-> {k \in Keys : On(plan[c].write, k)}]
        ELSE [op[c] EXCEPT !.at = NoTtl]]
K == INSTANCE Keyspace

\* Commands are atomic: although a command reads, decides and writes in
\* separate steps, and only some commands hold locks, what a committed batch
\* leaves is what the command would have left run alone on the records of
\* that instant; no update is lost and nothing else changes a record except
\* the expiry of one that is due.  FLUSHDB alone has two instants: it deletes
\* what its scan found, and only a key INCRBY creates meanwhile survives it.
ImplementsKeyspace == K!Spec
=============================================================================
