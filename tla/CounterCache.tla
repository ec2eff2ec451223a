---------------------------- MODULE CounterCache ----------------------------
(***************************************************************************)
(* INCR and DECR on a cached counter.                                      *)
(*                                                                         *)
(* The hot path holds the key's lock shared, takes the next value and a    *)
(* sequence number from the cache entry, and hands a merge of +1 or -1 to  *)
(* a spawned task, which owns the lock guard.  Merges reach the store in   *)
(* any order; a reply waits until every merge with a smaller sequence      *)
(* number of the same commit state is in the store.  The first INCR takes  *)
(* the lock exclusively, reads the value and inserts the entry.  SET and   *)
(* DEL write under the exclusive lock and then drop the entry.  INCRBY     *)
(* takes no lock: it writes by compare-and-write and drops the entry.      *)
(* Counters with a deadline are never cached.                              *)
(*                                                                         *)
(* One key.  Commands on other keys show only as Evict: an insertion that  *)
(* finds the cache full clears it.  The engine is taken to run the merge   *)
(* operator when it takes an operand, so that an overflow is the error of  *)
(* that merge; an engine that folds operands later would report it to a    *)
(* later read instead, which is not modelled.                              *)
(***************************************************************************)
EXTENDS Integers, FiniteSets, FiniteSetsExt

CONSTANTS
    Clients,
    Commands,     \* records [cmd, arg, ttl]
    MinInt,       \* i64::MIN
    MaxInt,       \* i64::MAX
    None,         \* no client, no cache entry
    MaxCalls,     \* bound on the commands issued
    MaxFailures   \* bound on the merges the store refuses

ASSUME ConstantsAssumption ==
    /\ IsFiniteSet(Clients)
    /\ None \notin Clients
    /\ MinInt \in Int /\ MaxInt \in Int /\ 0 \in MinInt .. MaxInt
    /\ Commands \subseteq [cmd : {"incr", "incrby", "set", "del"}, arg : Int,
                           ttl : {"none", "live"}]
    /\ \A o \in Commands : /\ o.cmd = "incr" => o.arg \in {-1, 1}
                           /\ o.cmd = "set" => o.arg \in MinInt .. MaxInt
    /\ MaxCalls \in Nat /\ MaxFailures \in Nat

VARIABLES
    rec,        \* the key's record: [val, ttl], ttl "absent" when there is none
    entry,      \* CounterCacheEntry: [value, seq, state], or None
    states,     \* CounterCommitState of each entry made: a sequence of states
    tasks,      \* the spawned merges
    writer,     \* the client that holds the key's lock exclusively
    pc,         \* where each client is
    op,         \* its command
    base,       \* the value it read: of the counter, or to compare with
    stale,      \* clients whose observation is no longer current
    ticket,     \* what an INCR waits for: [value, seq, state]
    calls,      \* commands issued so far
    failures,   \* merges refused so far
    epoch       \* history: structural writes (SET, DEL, expiry) so far

client == <<pc, op, base, ticket>>
vars == <<rec, entry, states, tasks, writer, client, stale, calls, failures, epoch>>

Absent == [val |-> 0, ttl |-> "absent"]
NoOp == [cmd |-> "none", arg |-> 0, ttl |-> "none"]
NoTicket == [value |-> 0, seq |-> 0, state |-> 0]
Fresh == [committed |-> 0, completed |-> {}, failed |-> FALSE]

Init ==
    /\ rec = Absent
    /\ entry = None
    /\ states = <<>>
    /\ tasks = {}
    /\ writer = None
    /\ pc = [c \in Clients |-> "idle"]
    /\ op = [c \in Clients |-> NoOp]
    /\ base = [c \in Clients |-> Absent]
    /\ stale = {}
    /\ ticket = [c \in Clients |-> NoTicket]
    /\ calls = 0
    /\ failures = 0
    /\ epoch = 0

Goto(c, place) == pc' = [pc EXCEPT ![c] = place]

\* c's command is answered; its lock, if it holds it, is released.
Reply(c) ==
    /\ Goto(c, "idle")
    /\ op' = [op EXCEPT ![c] = NoOp]
    /\ base' = [base EXCEPT ![c] = Absent]
    /\ ticket' = [ticket EXCEPT ![c] = NoTicket]
    /\ writer' = IF writer = c THEN None ELSE writer
    /\ stale' = stale \ {c}

\* The guards of the key's lock: merge tasks hold theirs until they end.
ReadFree == writer = None /\ \A t \in tasks : t.guard # "write"
WriteFreeIgnoringReaders == writer = None /\ \A t \in tasks : t.guard # "write"

WriteFree == writer = None /\ tasks = {}

\* A write of the key makes every other observation of it out of date.
PutRecord(r) ==
    /\ rec' = r
    /\ stale' = Clients

OverflowsUpper(v) == v > MaxInt

Overflows(v) == v < MinInt \/ v > MaxInt

Call(c) ==
    /\ pc[c] = "idle" /\ calls < MaxCalls
    /\ calls' = calls + 1
    /\ \E o \in Commands :
        /\ op' = [op EXCEPT ![c] = o]
        /\ Goto(c, CASE o.cmd = "incr" -> "assign"
                     [] o.cmd = "incrby" -> "expire"
                     [] OTHER -> "lock")
    /\ UNCHANGED <<rec, entry, states, tasks, writer, base, ticket, stale, failures, epoch>>

-----------------------------------------------------------------------------
(* INCR and DECR *)

\* The next value and sequence number from the entry, and the merge task.
assign_cached_counter(c, guard) ==
    LET next == entry.value + op[c].arg
        seq == entry.seq + 1
    IN  IF states[entry.state].failed \/ Overflows(next)
            THEN /\ Reply(c)
                 /\ UNCHANGED <<entry, tasks>>
            ELSE /\ entry' = [entry EXCEPT !.value = next, !.seq = seq]
                 /\ tasks' = tasks \cup {[state |-> entry.state, seq |-> seq, delta |-> op[c].arg,
                                          guard |-> guard, merged |-> FALSE, epoch |-> epoch]}
                 /\ ticket' = [ticket EXCEPT ![c] = [value |-> next, seq |-> seq,
                                                     state |-> entry.state]]
                 /\ Goto(c, "wait")
                 /\ writer' = IF writer = c THEN None ELSE writer
                 /\ UNCHANGED <<op, base, stale>>

\* With the lock held shared; without an entry the lock is dropped again.
AssignShared(c) ==
    /\ pc[c] = "assign" /\ ReadFree
    /\ IF entry # None
        THEN assign_cached_counter(c, "read")
        ELSE /\ Goto(c, "initialize")
             /\ UNCHANGED <<entry, tasks, writer, op, base, ticket, stale>>
    /\ UNCHANGED <<rec, states, calls, failures, epoch>>

\* With the lock held exclusively; another INCR may have made the entry.
AssignExclusive(c) ==
    /\ pc[c] = "initialize" /\ WriteFree
    /\ IF entry # None
        THEN assign_cached_counter(c, "write")
        ELSE /\ Goto(c, "initbase")
             /\ writer' = c
             /\ UNCHANGED <<entry, tasks, op, base, ticket, stale>>
    /\ UNCHANGED <<rec, states, calls, failures, epoch>>

\* Lazy expiry, before the value is read or observed.  A record with a deadline
\* is never cached, so there is no entry to drop.
expire_if_needed(c) ==
    /\ \/ pc[c] = "initbase" /\ Goto(c, "base")
       \/ pc[c] = "expire" /\ Goto(c, "observe")
    /\ IF rec.ttl = "due"
        THEN PutRecord(Absent) /\ epoch' = epoch + 1
        ELSE UNCHANGED <<rec, stale, epoch>>
    /\ UNCHANGED <<entry, states, tasks, writer, op, base, ticket, calls, failures>>

ReadBaseAnyDeadline(c) ==
    /\ pc[c] = "base"
    /\ base' = [base EXCEPT ![c] = rec]
    /\ Goto(c, "insert")
    /\ UNCHANGED <<rec, entry, states, tasks, writer, op, ticket, stale, calls, failures, epoch>>

\* A counter with a deadline goes on to compare-and-write, under the lock.
ReadBase(c) ==
    /\ pc[c] = "base"
    /\ IF rec.ttl \in {"live", "due"}
        THEN Goto(c, "expire") /\ UNCHANGED <<writer, op, base, ticket, stale>>
        ELSE IF Overflows(rec.val + op[c].arg)
            THEN Reply(c)
            ELSE /\ base' = [base EXCEPT ![c] = rec]
                 /\ Goto(c, "insert")
                 /\ UNCHANGED <<writer, op, ticket, stale>>
    /\ UNCHANGED <<rec, entry, states, tasks, calls, failures, epoch>>

InsertEntry(c) ==
    LET next == base[c].val + op[c].arg
        state == Cardinality(DOMAIN states) + 1
    IN
    /\ pc[c] = "insert"
    /\ entry' = [value |-> next, seq |-> 1, state |-> state]
    /\ states' = [s \in 1 .. state |-> IF s = state THEN Fresh ELSE states[s]]
    /\ tasks' = tasks \cup {[state |-> state, seq |-> 1, delta |-> op[c].arg,
                             guard |-> "write", merged |-> FALSE, epoch |-> epoch]}
    /\ ticket' = [ticket EXCEPT ![c] = [value |-> next, seq |-> 1, state |-> state]]
    /\ writer' = None
    /\ Goto(c, "wait")
    /\ UNCHANGED <<rec, op, base, stale, calls, failures, epoch>>

\* The reply, or the error all of this commit state's waiters get.
wait_for(c) ==
    /\ pc[c] = "wait"
    /\ \/ states[ticket[c].state].failed
       \/ states[ticket[c].state].committed >= ticket[c].seq
    /\ Reply(c)
    /\ UNCHANGED <<rec, entry, states, tasks, calls, failures, epoch>>

\* The connection ends; the spawned merge does not.
Cancel(c) ==
    /\ pc[c] = "wait"
    /\ Reply(c)
    /\ UNCHANGED <<rec, entry, states, tasks, calls, failures, epoch>>

-----------------------------------------------------------------------------
(* The merge tasks *)

\* Mutant: the sum is not checked.
MergeUnchecked(t) ==
    /\ ~t.merged
    /\ PutRecord([val |-> rec.val + t.delta,
                  ttl |-> IF rec.ttl = "absent" THEN "none" ELSE rec.ttl])
    /\ tasks' = (tasks \ {t}) \cup {[t EXCEPT !.merged = TRUE]}
    /\ UNCHANGED <<entry, states, writer, client, calls, failures, epoch>>

\* merge_raw_async with OnedisIntegerMergeOperator: a missing record counts as
\* 0, the deadline of an existing one is kept, the sum is checked.
Merge(t) ==
    /\ ~t.merged
    /\ ~Overflows(rec.val + t.delta)
    /\ PutRecord([val |-> rec.val + t.delta,
                  ttl |-> IF rec.ttl = "absent" THEN "none" ELSE rec.ttl])
    /\ tasks' = (tasks \ {t}) \cup {[t EXCEPT !.merged = TRUE]}
    /\ UNCHANGED <<entry, states, writer, client, calls, failures, epoch>>

CompleteHighest(state, seq) ==
    [state EXCEPT !.committed = IF seq > @ THEN seq ELSE @]

CompleteWithoutDraining(state, seq) ==
    IF seq = state.committed + 1
        THEN [state EXCEPT !.committed = seq]
        ELSE [state EXCEPT !.completed = @ \cup {seq}]

\* The committed sequence moves over every completed one that follows it.
Complete(state, seq) ==
    LET completed == state.completed \cup {seq}
        committed == CHOOSE n \in state.committed .. state.committed + Cardinality(completed) :
                        /\ \A i \in state.committed + 1 .. n : i \in completed
                        /\ n + 1 \notin completed
    IN  [state EXCEPT !.committed = committed,
                      !.completed = {i \in completed : i > committed}]

complete(t) ==
    /\ t.merged
    /\ states' = [states EXCEPT ![t.state] = Complete(@, t.seq)]
    /\ tasks' = tasks \ {t}
    /\ UNCHANGED <<rec, entry, writer, client, stale, calls, failures, epoch>>

FailKeepingEntry(t) ==
    /\ states' = [states EXCEPT ![t.state].failed = TRUE]
    /\ tasks' = tasks \ {t}
    /\ UNCHANGED <<rec, entry, writer, client, stale, calls, epoch>>

\* The merge returned an error: the entry is dropped, every waiter of its
\* commit state gets the error.
fail(t) ==
    /\ entry' = None
    /\ states' = [states EXCEPT ![t.state].failed = TRUE]
    /\ tasks' = tasks \ {t}
    /\ UNCHANGED <<rec, writer, client, stale, calls, epoch>>

\* The operator's checked sum overflows.  The cached value did not: merges
\* land in another order than their values were assigned in.
MergeOverflows(t) ==
    /\ ~t.merged
    /\ Overflows(rec.val + t.delta)
    /\ fail(t)
    /\ UNCHANGED failures

\* The engine refuses the merge for a reason of its own.
MergeRefused(t) ==
    /\ ~t.merged /\ failures < MaxFailures
    /\ failures' = failures + 1
    /\ fail(t)

-----------------------------------------------------------------------------
(* SET, DEL and INCRBY; INCR on a counter with a deadline *)

LockExclusive(c) ==
    /\ pc[c] = "lock" /\ WriteFree
    /\ writer' = c
    /\ Goto(c, "observe")
    /\ UNCHANGED <<rec, entry, states, tasks, op, base, ticket, stale, calls, failures, epoch>>

Observe(c) ==
    /\ pc[c] = "observe"
    /\ IF op[c].cmd \in {"incr", "incrby"} /\ Overflows(rec.val + op[c].arg)
        THEN Reply(c)
        ELSE /\ base' = [base EXCEPT ![c] = rec]
             /\ stale' = stale \ {c}
             /\ Goto(c, "write")
             /\ UNCHANGED <<writer, op, ticket>>
    /\ UNCHANGED <<rec, entry, states, tasks, calls, failures, epoch>>

NewRecord(c) ==
    CASE op[c].cmd = "set" -> [val |-> op[c].arg, ttl |-> op[c].ttl]
      [] op[c].cmd = "del" -> Absent
      [] OTHER -> [val |-> base[c].val + op[c].arg,
                   ttl |-> IF rec.ttl = "absent" THEN "none" ELSE rec.ttl]

\* The engine compares and writes in one step.  A lost race starts again, or
\* after the last attempt answers an error.
CompareAndWrite(c) ==
    /\ pc[c] = "write"
    /\ IF c \in stale
        THEN /\ \/ /\ Goto(c, IF op[c].cmd \in {"incr", "incrby"} THEN "expire" ELSE "observe")
                   /\ UNCHANGED <<writer, op, base, ticket, stale>>
                \/ Reply(c)
             /\ UNCHANGED <<rec, epoch>>
        ELSE /\ PutRecord(NewRecord(c))
             /\ epoch' = IF op[c].cmd \in {"set", "del"} THEN epoch + 1 ELSE epoch
             /\ Goto(c, "invalidate")
             /\ UNCHANGED <<writer, op, base, ticket>>
    /\ UNCHANGED <<entry, states, tasks, calls, failures>>

invalidate_counter_cache_for_batch(c) ==
    /\ pc[c] = "invalidate"
    /\ entry' = None
    /\ Reply(c)
    /\ UNCHANGED <<rec, states, tasks, calls, failures, epoch>>

-----------------------------------------------------------------------------
(* The rest of the server *)

evict_if_full ==
    /\ entry # None
    /\ entry' = None
    /\ UNCHANGED <<rec, states, tasks, writer, client, stale, calls, failures, epoch>>

Tick ==
    /\ rec.ttl = "live"
    /\ rec' = [rec EXCEPT !.ttl = "due"]
    /\ UNCHANGED <<entry, states, tasks, writer, client, stale, calls, failures, epoch>>

\* The sweeper deletes under the exclusive lock.
Sweep ==
    /\ rec.ttl = "due" /\ WriteFree
    /\ PutRecord(Absent)
    /\ epoch' = epoch + 1
    /\ UNCHANGED <<entry, states, tasks, writer, client, calls, failures>>

ClientStep(c) ==
    \/ AssignShared(c)
    \/ AssignExclusive(c)
    \/ expire_if_needed(c)
    \/ ReadBase(c)
    \/ InsertEntry(c)
    \/ wait_for(c)
    \/ LockExclusive(c)
    \/ Observe(c)
    \/ CompareAndWrite(c)
    \/ invalidate_counter_cache_for_batch(c)

TaskStep == \E t \in tasks : Merge(t) \/ MergeOverflows(t) \/ complete(t)

Next ==
    \/ \E c \in Clients : Call(c) \/ ClientStep(c) \/ Cancel(c)
    \/ TaskStep
    \/ \E t \in tasks : MergeRefused(t)
    \/ evict_if_full
    \/ Tick
    \/ Sweep

Spec == Init /\ [][Next]_vars

-----------------------------------------------------------------------------
(* Properties *)

Unmerged == {t \in tasks : ~t.merged}

Owed == MapThenSumSet(LAMBDA t : t.delta, Unmerged)

\* The types of the variables.  The stored counter stays an i64 although the
\* overflow check of INCR is made on the cached value.
TypeOK ==
    /\ rec \in [val : MinInt .. MaxInt, ttl : {"absent", "none", "live", "due"}]
    /\ entry # None => entry \in [value : MinInt .. MaxInt, seq : Nat \ {0},
                                  state : DOMAIN states]
    /\ \A s \in DOMAIN states :
         states[s] \in [committed : Nat, completed : SUBSET Nat, failed : BOOLEAN]
    /\ tasks \subseteq [state : DOMAIN states, seq : Nat, delta : {-1, 1},
                        guard : {"read", "write"}, merged : BOOLEAN, epoch : Nat]
    /\ writer \in Clients \cup {None}
    /\ pc \in [Clients -> {"idle", "assign", "initialize", "initbase", "base", "insert",
                           "wait", "lock", "expire", "observe", "write", "invalidate"}]
    /\ stale \subseteq Clients
    /\ calls \in 0 .. MaxCalls /\ failures \in 0 .. MaxFailures

\* The cached value is what the store will hold once the spawned merges have
\* landed, so that the value INCR answers is the counter's.  A SET or DEL that
\* has written and not yet dropped the entry holds the lock meanwhile.  Holds
\* as long as no INCRBY runs.
CacheCoherent ==
    entry # None /\ writer = None => entry.value = rec.val + Owed

\* When nothing runs, a cached counter has the stored value.  Does not hold
\* with INCRBY, which the exclusive lock of the cache's initialisation does
\* not keep out: it can write between the read of the base value and the
\* insertion of the entry, and the entry stays wrong.
CoherentAtRest ==
    (\A c \in Clients : pc[c] = "idle") /\ tasks = {} /\ entry # None => entry.value = rec.val

\* A merge lands on the value it was assigned for: no SET, DEL or expiry takes
\* effect between an INCR's assignment and its merge, even when the client is
\* gone, because the task owns the lock guard.
MergesKeepTheirPlace == \A t \in Unmerged : t.epoch = epoch

\* A merge never meets a counter with a deadline, which it could recreate
\* after its expiry.
MergeNeverOnDeadline == Unmerged # {} => rec.ttl \in {"absent", "none"}

\* The committed sequence an answer waits for covers only merges that are in
\* the store, whatever the order they completed in: an INCR answered without an
\* error, and every INCR assigned before it on the same entry, is visible to
\* whoever reads the key next.
CommittedMeansMerged ==
    \A t \in Unmerged : t.seq > states[t.state].committed

\* Spawned merges and woken waiters run.
Fairness ==
    /\ WF_vars(TaskStep)
    /\ \A c \in Clients : WF_vars(ClientStep(c))

FairSpec == Spec /\ Fairness

\* Every INCR that got its sequence number is answered: the committed sequence
\* does not get stuck behind merges that complete out of order.
IncrementsAnswered == \A c \in Clients : (pc[c] = "wait") ~> (pc[c] = "idle")
=============================================================================
