------------------------- MODULE WatchTransactions -------------------------
(***************************************************************************)
(* WATCH, MULTI and EXEC.                                                  *)
(*                                                                         *)
(* WATCH registers the key with the KeyMutationTracker and remembers the   *)
(* key's mutation version.  MULTI opens an engine transaction, which reads *)
(* from a snapshot taken at that moment.  EXEC compares the remembered     *)
(* versions with the current ones, runs the queued commands on the         *)
(* snapshot and commits them under the write locks of the keys they wrote; *)
(* the engine refuses the commit when a record they wrote was written      *)
(* after the snapshot.  A write outside a transaction reaches the store    *)
(* first and is published to the tracker afterwards, before its reply.     *)
(* Which keys are published is read off the batch: a main record, a hash   *)
(* field, a sorted set member and a JSON node name their key; a list item, *)
(* a set member and a stream's entries and groups do not.  The TTL         *)
(* sweeper's deletions are not published at all.                           *)
(*                                                                         *)
(* Abstractions: a record is the number of the write that made it (its     *)
(* stamp) and where it stands with its deadline; one database; a WATCH     *)
(* names one key; a queued command writes one key.  The tracker's database *)
(* versions are left out: they move on a range deletion of a whole         *)
(* database, which no command of the current table layout writes.          *)
(***************************************************************************)
EXTENDS Integers, FiniteSets

CONSTANTS
    Keys,
    Clients,
    Kinds,         \* of writes: "main" names its key, "nested" does not
    Ttls,          \* the deadlines a write may set: {"none"} or {"none", "live"}
    MaxStamp,      \* bound on the writes that reach the store
    MaxFailures    \* bound on the storage errors met by lazy expiry

ASSUME ConstantsAssumption ==
    /\ IsFiniteSet(Clients)
    /\ Kinds \subseteq {"main", "nested"}
    /\ Ttls \subseteq {"none", "live"}
    /\ MaxStamp \in Nat
    /\ MaxFailures \in Nat

VARIABLES
    store,        \* each key: stamps of its main and nested records, deadline
    stamp,        \* writes that reached the store so far
    clock,        \* KeyMutationTracker::clock
    keyVersions,  \* KeyMutationTracker::key_versions; no watchers: no entry
    pc,           \* where each connection is
    work,         \* the mutation it is publishing
    todo,         \* keys it is registering (WATCH) or has to compare (EXEC)
    watched,      \* Session::watched_keys: the version, or Unwatched
    txn,          \* Session's transaction state with its engine snapshot
    failures,     \* storage errors so far
    seen,         \* history: the stamp when the WATCH of a key replied
    late,         \* history: watched keys with a published change acknowledged since
    doomed,       \* history: clients with such keys when their EXEC arrived
    quiet,        \* history: watched keys no write was in flight on since WATCH
    leaked        \* history: registrations whose WATCH failed

history == <<seen, late, doomed, quiet, leaked>>
tracker == <<clock, keyVersions>>
session == <<watched, txn>>
vars == <<store, stamp, tracker, pc, work, todo, session, failures, history>>

Unwatched == -1
Answers == {"results", "null", "execabort"}
Places == {"idle", "stored", "publish", "watch", "check", "commit"} \cup Answers

\* keys: written; left: still to publish; then: where the command goes on.
NoWork == [keys |-> {}, left |-> {}, kind |-> "main", stamp |-> 0,
           locked |-> FALSE, then |-> "idle"]

NoTxn == [active |-> FALSE, dirty |-> FALSE, queue |-> {},
          snapshot |-> [k \in Keys |-> [main |-> 0, nested |-> 0, ttl |-> "absent"]]]

Watched(c) == {k \in Keys : watched[c][k] # Unwatched}

InFlight(c, k) == pc[c] \in {"stored", "publish"} /\ k \in work[c].keys

Init ==
    /\ store = NoTxn.snapshot
    /\ stamp = 0
    /\ clock = 0
    /\ keyVersions = [k \in Keys |-> [version |-> 0, watchers |-> 0]]
    /\ pc = [c \in Clients |-> "idle"]
    /\ work = [c \in Clients |-> NoWork]
    /\ todo = [c \in Clients |-> {}]
    /\ watched = [c \in Clients |-> [k \in Keys |-> Unwatched]]
    /\ txn = [c \in Clients |-> NoTxn]
    /\ failures = 0
    /\ seen = [c \in Clients |-> [k \in Keys |-> 0]]
    /\ late = [c \in Clients |-> {}]
    /\ doomed = {}
    /\ quiet = [c \in Clients |-> {}]
    /\ leaked = [k \in Keys |-> 0]

Goto(c, place) == pc' = [pc EXCEPT ![c] = place]

-----------------------------------------------------------------------------
(* KeyMutationTracker *)

register_key_once(entry) ==
    IF entry.watchers > 0 THEN entry ELSE [version |-> clock, watchers |-> 1]

register_key(entry) ==
    IF entry.watchers > 0
        THEN [entry EXCEPT !.watchers = @ + 1]
        ELSE [version |-> clock, watchers |-> 1]

unregister_key_always(entry) == [version |-> 0, watchers |-> 0]

unregister_key(entry) ==
    IF entry.watchers > 1
        THEN [entry EXCEPT !.watchers = @ - 1]
        ELSE [version |-> 0, watchers |-> 0]

bump_key_backwards(k) ==
    IF keyVersions[k].watchers > 0
        THEN /\ clock' = clock - 1
             /\ keyVersions' = [keyVersions EXCEPT ![k].version = clock - 1]
        ELSE UNCHANGED tracker

\* A key nobody watches is not bumped, and the clock stands still.
bump_key(k) ==
    IF keyVersions[k].watchers > 0
        THEN /\ clock' = clock + 1
             /\ keyVersions' = [keyVersions EXCEPT ![k].version = clock + 1]
        ELSE UNCHANGED tracker

has_observers_off_by_one == \E k \in Keys : keyVersions[k].watchers > 1

\* Blocked readers are observers too; they are not part of this model.
has_observers == \E k \in Keys : keyVersions[k].watchers > 0

key_version(k) == keyVersions[k].version

-----------------------------------------------------------------------------
(* Writes outside a transaction. *)

\* The exclusive locks, held from before the store write until the reply.
Free(c, keys) ==
    \A d \in Clients \ {c} :
        pc[d] \in {"stored", "publish"} /\ work[d].locked => work[d].keys \cap keys = {}

\* The keys a batch names.
collect_logical_mutations(keys, kind) == IF kind = "nested" THEN {} ELSE keys

Put(record, kind, ttl) ==
    IF kind = "nested" THEN [record EXCEPT !.nested = stamp + 1]
                       ELSE [record EXCEPT !.main = stamp + 1, !.ttl = ttl]

\* c's write of `keys` reaches the store; c goes on at `place`, and at `then`
\* once the write is published.
Store(c, keys, kind, ttl, locked, place, then) ==
    /\ stamp < MaxStamp
    /\ stamp' = stamp + 1
    /\ store' = [k \in Keys |-> IF k \in keys THEN Put(store[k], kind, ttl) ELSE store[k]]
    /\ work' = [work EXCEPT ![c] =
                  [keys |-> keys, left |-> collect_logical_mutations(keys, kind), kind |-> kind,
                   stamp |-> stamp + 1, locked |-> locked, then |-> then]]
    /\ quiet' = [d \in Clients |-> quiet[d] \ keys]
    /\ Goto(c, place)

Live(record) == record.ttl \in {"none", "live"}

\* SET, HSET, LPUSH, ...: locked writers that name the key, and INCRBY, which
\* takes no lock; LSET and XACK change nested records of a live key only.
DirectWrite(c) ==
    /\ pc[c] = "idle" /\ ~txn[c].active
    /\ \E k \in Keys, kind \in Kinds, ttl \in Ttls, locked \in BOOLEAN :
        /\ kind = "nested" => locked /\ Live(store[k])
        /\ locked => Free(c, {k})
        /\ Store(c, {k}, kind, ttl, locked, "stored", "idle")
    /\ UNCHANGED <<tracker, todo, session, failures, seen, late, doomed, leaked>>

\* FLUSHDB deletes every record it finds, one by one in one batch.
flushdb(c) ==
    LET present == {k \in Keys : store[k].ttl # "absent"} IN
    /\ pc[c] = "idle" /\ ~txn[c].active
    /\ present # {} /\ Free(c, Keys)
    /\ Store(c, present, "main", "absent", TRUE, "stored", "idle")
    /\ UNCHANGED <<tracker, todo, session, failures, seen, late, doomed, leaked>>

\* Nobody is told of a write that finds the tracker empty.
record_or_publish_mutations(c) ==
    /\ pc[c] = "stored"
    /\ work' = [work EXCEPT ![c].left = IF has_observers THEN @ ELSE {}]
    /\ Goto(c, "publish")
    /\ UNCHANGED <<store, stamp, tracker, todo, session, failures, history>>

publish_mutations(c) ==
    /\ pc[c] = "publish"
    /\ \E k \in work[c].left :
        /\ bump_key(k)
        /\ work' = [work EXCEPT ![c].left = @ \ {k}]
    /\ UNCHANGED <<store, stamp, pc, todo, session, failures, history>>

Published(c, then) ==
    /\ pc[c] = "publish" /\ work[c].then = then /\ work[c].left = {}
    /\ work' = [work EXCEPT ![c] = NoWork]

\* History: the watchers' clients may know of c's write from here on.
Acknowledged(c) ==
    [d \in Clients |->
        late[d] \cup {k \in Watched(d) \cap collect_logical_mutations(work[c].keys, work[c].kind) :
                        seen[d][k] < work[c].stamp}]

Reply(c) ==
    /\ Published(c, "idle")
    /\ late' = Acknowledged(c)
    /\ Goto(c, "idle")
    /\ UNCHANGED <<store, stamp, tracker, todo, session, failures, seen, doomed, quiet, leaked>>

-----------------------------------------------------------------------------
(* WATCH, UNWATCH *)

\* The first half of watch_version_snapshot; a key watched already is skipped.
watch_keys(c) ==
    /\ pc[c] = "idle" /\ ~txn[c].active
    /\ \E k \in Keys \ Watched(c) :
        /\ keyVersions' = [keyVersions EXCEPT ![k] = register_key(@)]
        /\ todo' = [todo EXCEPT ![c] = {k}]
        /\ quiet' = [quiet EXCEPT ![c] =
                       IF \E d \in Clients : InFlight(d, k) THEN @ \ {k} ELSE @ \cup {k}]
    /\ Goto(c, "watch")
    /\ UNCHANGED <<store, stamp, clock, work, session, failures, seen, late, doomed, leaked>>

\* expire_if_needed on the key WATCH registers or EXEC compares.
expire_if_needed(c) ==
    /\ pc[c] \in {"watch", "check"}
    /\ \E k \in todo[c] :
        /\ store[k].ttl = "due"
        /\ Store(c, {k}, "main", "absent", FALSE, "stored", pc[c])
    /\ UNCHANGED <<tracker, todo, session, failures, seen, late, doomed, leaked>>

\* The lazy deletion is published; back to the command that met it.
Resume(c) ==
    /\ \E then \in {"watch", "check"} : Published(c, then) /\ Goto(c, then)
    /\ UNCHANGED <<store, stamp, tracker, todo, session, failures, history>>

\* The second half of watch_version_snapshot, then Session::watch_key.
watch_version_snapshot(c) ==
    /\ pc[c] = "watch"
    /\ \E k \in todo[c] :
        /\ store[k].ttl # "due"
        /\ watched' = [watched EXCEPT ![c][k] = key_version(k)]
        /\ seen' = [seen EXCEPT ![c][k] = stamp]
    /\ todo' = [todo EXCEPT ![c] = {}]
    /\ Goto(c, "idle")
    /\ UNCHANGED <<store, stamp, tracker, work, txn, failures, late, doomed, quiet, leaked>>

\* A storage error in expire_if_needed returns before Session::watch_key, with
\* the key registered.
WatchFails(c) ==
    /\ pc[c] = "watch"
    /\ failures < MaxFailures
    /\ failures' = failures + 1
    /\ leaked' = [k \in Keys |-> leaked[k] + IF k \in todo[c] THEN 1 ELSE 0]
    /\ quiet' = [quiet EXCEPT ![c] = @ \ todo[c]]
    /\ todo' = [todo EXCEPT ![c] = {}]
    /\ Goto(c, "idle")
    /\ UNCHANGED <<store, stamp, tracker, work, session, seen, late, doomed>>

clear_watches(c) ==
    /\ keyVersions' = [k \in Keys |-> IF k \in Watched(c)
                                          THEN unregister_key(keyVersions[k])
                                          ELSE keyVersions[k]]
    /\ watched' = [watched EXCEPT ![c] = [k \in Keys |-> Unwatched]]
    /\ seen' = [seen EXCEPT ![c] = [k \in Keys |-> 0]]
    /\ doomed' = doomed \ {c}
    /\ quiet' = [quiet EXCEPT ![c] = {}]
    /\ UNCHANGED <<clock, leaked>>

\* History: what became of the keys c watched no longer matters.
Forget(c, known) == late' = [known EXCEPT ![c] = {}]

Unwatch(c) ==
    /\ pc[c] = "idle" /\ ~txn[c].active
    /\ Watched(c) # {}
    /\ clear_watches(c) /\ Forget(c, late)
    /\ UNCHANGED <<store, stamp, pc, work, todo, txn, failures>>

-----------------------------------------------------------------------------
(* MULTI, EXEC, DISCARD *)

start_transaction(c) ==
    /\ pc[c] = "idle" /\ ~txn[c].active
    /\ txn' = [txn EXCEPT ![c] = [active |-> TRUE, dirty |-> FALSE, queue |-> {},
                                  snapshot |-> store]]
    /\ UNCHANGED <<store, stamp, tracker, pc, work, todo, watched, failures, history>>

\* A command that is refused (unknown, not allowed in MULTI, no permission, the
\* queue is full) marks the transaction dirty; nothing reads its queue then.
queue_transaction_frame(c) ==
    /\ pc[c] = "idle" /\ txn[c].active
    /\ \/ \E k \in Keys, kind \in Kinds :
            /\ ~txn[c].dirty
            /\ kind = "nested" => txn[c].snapshot[k].ttl = "none"
            /\ txn' = [txn EXCEPT ![c].queue = @ \cup {<<k, kind>>}]
       \/ txn' = [txn EXCEPT ![c].dirty = TRUE, ![c].queue = {}]
    /\ UNCHANGED <<store, stamp, tracker, pc, work, todo, watched, failures, history>>

clear_transaction_only(c) ==
    /\ watched' = [watched EXCEPT ![c] = [k \in Keys |-> Unwatched]]
    /\ seen' = [seen EXCEPT ![c] = [k \in Keys |-> 0]]
    /\ doomed' = doomed \ {c}
    /\ quiet' = [quiet EXCEPT ![c] = {}]
    /\ UNCHANGED <<tracker, leaked>>
    /\ txn' = [txn EXCEPT ![c] = NoTxn]

clear_transaction_and_watches(c) ==
    /\ clear_watches(c)
    /\ txn' = [txn EXCEPT ![c] = NoTxn]

\* DISCARD, RESET and the end of the connection (Drop for Handler).
clear_transaction(c) ==
    /\ pc[c] = "idle"
    /\ txn[c].active \/ Watched(c) # {}
    /\ clear_transaction_and_watches(c) /\ Forget(c, late)
    /\ UNCHANGED <<store, stamp, pc, work, todo, failures>>

\* EXEC ends without a commit.
Abort(c, answer) ==
    /\ clear_transaction_and_watches(c) /\ Forget(c, late)
    /\ Goto(c, answer)

execute_transaction(c) ==
    /\ pc[c] = "idle" /\ txn[c].active
    /\ IF txn[c].dirty
        THEN Abort(c, "execabort") /\ UNCHANGED todo
        ELSE /\ todo' = [todo EXCEPT ![c] = Watched(c)]
             /\ doomed' = IF late[c] # {} THEN doomed \cup {c} ELSE doomed
             /\ Goto(c, "check")
             /\ UNCHANGED <<tracker, session, seen, late, quiet, leaked>>
    /\ UNCHANGED <<store, stamp, work, failures>>

watch_version_changed(c, k) == key_version(k) # watched[c][k]

watched_keys_modified_first_only(c) ==
    /\ pc[c] = "check"
    /\ \E k \in todo[c] :
        /\ store[k].ttl # "due"
        /\ todo' = [todo EXCEPT ![c] = {}]
        /\ IF watch_version_changed(c, k)
            THEN Abort(c, "null")
            ELSE UNCHANGED <<tracker, pc, session, history>>
    /\ UNCHANGED <<store, stamp, work, failures>>

\* One round of the loop; the first difference answers Null.
watched_keys_modified(c) ==
    /\ pc[c] = "check"
    /\ \E k \in todo[c] :
        /\ store[k].ttl # "due"
        /\ IF watch_version_changed(c, k)
            THEN /\ todo' = [todo EXCEPT ![c] = {}]
                 /\ Abort(c, "null")
            ELSE /\ todo' = [todo EXCEPT ![c] = @ \ {k}]
                 /\ UNCHANGED <<tracker, pc, session, history>>
    /\ UNCHANGED <<store, stamp, work, failures>>

\* A storage error in the loop ends EXEC with the transaction and the watches
\* as they were.
CompareFails(c) ==
    /\ pc[c] = "check" /\ todo[c] # {}
    /\ failures < MaxFailures
    /\ failures' = failures + 1
    /\ todo' = [todo EXCEPT ![c] = {}]
    /\ doomed' = doomed \ {c}
    /\ Goto(c, "idle")
    /\ UNCHANGED <<store, stamp, tracker, work, session, seen, late, quiet, leaked>>

\* The queued commands run on the snapshot; nothing of theirs is visible yet.
execute_transaction_commands(c) ==
    /\ pc[c] = "check" /\ todo[c] = {}
    /\ Goto(c, "commit")
    /\ UNCHANGED <<store, stamp, tracker, work, todo, session, failures, history>>

Queued(c, kind) == {k \in Keys : <<k, kind>> \in txn[c].queue}

\* The engine's first-committer-wins rule, per record: a main record is one
\* record, two nested writes may or may not be on the same one.
Conflict(c) ==
    \E k \in Queued(c, "main") : store[k].main # txn[c].snapshot[k].main

NestedConflict(c) ==
    \E k \in Queued(c, "nested") : store[k].nested # txn[c].snapshot[k].nested

PendingMutationsExisting(c) ==
    {k \in Queued(c, "main") : txn[c].snapshot[k].ttl # "absent"}

PendingMutations(c) ==
    UNION {collect_logical_mutations(Queued(c, kind), kind) : kind \in Kinds}

\* A transaction that recorded no mutated key is discarded and answered as one
\* that committed.
DiscardEmpty(c) ==
    /\ pc[c] = "commit" /\ PendingMutations(c) = {}
    /\ Abort(c, "results")
    /\ UNCHANGED <<store, stamp, work, todo, failures>>

CommitFails(c) ==
    /\ pc[c] = "commit" /\ PendingMutations(c) # {}
    /\ Free(c, PendingMutations(c))
    /\ Conflict(c) \/ NestedConflict(c)
    /\ Abort(c, "execabort")
    /\ UNCHANGED <<store, stamp, work, todo, failures>>

\* The engine applies the whole transaction at once; its mutations are
\* published under the locks.
commit_transaction(c) ==
    /\ pc[c] = "commit" /\ PendingMutations(c) # {}
    /\ Free(c, PendingMutations(c))
    /\ ~Conflict(c)
    /\ stamp < MaxStamp
    /\ stamp' = stamp + 1
    /\ store' = [k \in Keys |->
                   [main |-> IF k \in Queued(c, "main") THEN stamp + 1 ELSE store[k].main,
                    nested |-> IF k \in Queued(c, "nested") THEN stamp + 1 ELSE store[k].nested,
                    ttl |-> IF k \in Queued(c, "main") THEN "none" ELSE store[k].ttl]]
    /\ work' = [work EXCEPT ![c] =
                  [keys |-> PendingMutations(c), left |-> PendingMutations(c), kind |-> "main",
                   stamp |-> stamp + 1, locked |-> TRUE, then |-> "commit"]]
    /\ quiet' = [d \in Clients |-> quiet[d] \ {q[1] : q \in txn[c].queue}]
    /\ Goto(c, "publish")
    /\ UNCHANGED <<tracker, todo, session, failures, seen, late, doomed, leaked>>

ExecReply(c) ==
    /\ Published(c, "commit")
    /\ clear_transaction_and_watches(c) /\ Forget(c, Acknowledged(c))
    /\ Goto(c, "results")
    /\ UNCHANGED <<store, stamp, todo, failures>>

\* EXEC's answer is sent; the connection reads its next command.
Answer(c) ==
    /\ pc[c] \in Answers
    /\ Goto(c, "idle")
    /\ UNCHANGED <<store, stamp, tracker, work, todo, session, failures, history>>

-----------------------------------------------------------------------------
(* Deadlines *)

Tick ==
    /\ \E k \in Keys :
        /\ store[k].ttl = "live"
        /\ store' = [store EXCEPT ![k].ttl = "due"]
    /\ UNCHANGED <<stamp, tracker, pc, work, todo, session, failures, history>>

\* One key of the sweeper's round, in one step: it deletes through the store,
\* under the key's lock, and tells the tracker nothing.
SweepDueKey ==
    /\ stamp < MaxStamp
    /\ \E k \in Keys :
        /\ store[k].ttl = "due"
        /\ \A c \in Clients :
             pc[c] \in {"stored", "publish"} /\ work[c].locked => k \notin work[c].keys
        /\ stamp' = stamp + 1
        /\ store' = [store EXCEPT ![k].main = stamp + 1, ![k].ttl = "absent"]
        /\ quiet' = [d \in Clients |-> quiet[d] \ {k}]
    /\ UNCHANGED <<tracker, pc, work, todo, session, failures, seen, late, doomed, leaked>>

ClientStep(c) ==
    \/ DirectWrite(c)
    \/ flushdb(c)
    \/ record_or_publish_mutations(c)
    \/ publish_mutations(c)
    \/ Reply(c)
    \/ watch_keys(c)
    \/ expire_if_needed(c)
    \/ Resume(c)
    \/ watch_version_snapshot(c)
    \/ WatchFails(c)
    \/ Unwatch(c)
    \/ start_transaction(c)
    \/ queue_transaction_frame(c)
    \/ clear_transaction(c)
    \/ execute_transaction(c)
    \/ watched_keys_modified(c)
    \/ CompareFails(c)
    \/ execute_transaction_commands(c)
    \/ DiscardEmpty(c)
    \/ CommitFails(c)
    \/ commit_transaction(c)
    \/ ExecReply(c)
    \/ Answer(c)

Next ==
    \/ \E c \in Clients : ClientStep(c)
    \/ Tick
    \/ SweepDueKey

Spec == Init /\ [][Next]_vars

-----------------------------------------------------------------------------
(* Properties *)

Records == [main : 0 .. MaxStamp, nested : 0 .. MaxStamp,
            ttl : {"absent", "none", "live", "due"}]

\* The types of the variables.
TypeOK ==
    /\ store \in [Keys -> Records]
    /\ stamp \in 0 .. MaxStamp
    /\ clock \in Nat
    /\ keyVersions \in [Keys -> [version : Nat, watchers : Nat]]
    /\ pc \in [Clients -> Places]
    /\ work \in [Clients -> [keys : SUBSET Keys, left : SUBSET Keys,
                             kind : {"main", "nested"}, stamp : 0 .. MaxStamp,
                             locked : BOOLEAN, then : Places]]
    /\ todo \in [Clients -> SUBSET Keys]
    /\ watched \in [Clients -> [Keys -> Nat \cup {Unwatched}]]
    /\ txn \in [Clients -> [active : BOOLEAN, dirty : BOOLEAN,
                            queue : SUBSET (Keys \X {"main", "nested"}),
                            snapshot : [Keys -> Records]]]
    /\ failures \in 0 .. MaxFailures
    /\ seen \in [Clients -> [Keys -> 0 .. MaxStamp]]
    /\ late \in [Clients -> SUBSET Keys]
    /\ doomed \subseteq Clients
    /\ quiet \in [Clients -> SUBSET Keys]
    /\ leaked \in [Keys -> 0 .. MaxFailures]

\* An EXEC that arrives after another command's write of a watched key was
\* acknowledged never reaches its commit, whoever else watches the key, comes,
\* goes or writes meanwhile.  has_observers, bump_key and the counted entries
\* of key_versions work together here: a write between a watch's registration
\* and its release is either published to it or was made before it.
AcknowledgedChangeAborts == \A c \in doomed : pc[c] # "commit"

\* EXEC answers Null only when a watched key had a write in flight after its
\* WATCH began: no other client's WATCH, UNWATCH, EXEC or disconnection makes
\* a remembered version look changed.
NullMeansTouched ==
    [][\A c \in Clients :
         pc'[c] = "null" /\ pc[c] # "null" => ~(Watched(c) \subseteq quiet[c])]_vars

\* key_versions counts exactly the sessions that watch a key, those inside
\* watch_version_snapshot, and the WATCHes that failed after registering:
\* EXEC, DISCARD, UNWATCH, RESET and disconnection release each watch once.
WatchersCounted ==
    \A k \in Keys :
        keyVersions[k].watchers =
            leaked[k] + Cardinality({c \in Clients : k \in Watched(c)})
                      + Cardinality({c \in Clients : k \in todo[c] /\ k \notin Watched(c)})

\* EXEC's results mean that the queued writes are in the store.
ResultsMeanApplied ==
    [][\A c \in Clients :
         pc'[c] = "results" /\ pc[c] # "results" =>
            /\ \A k \in Queued(c, "main") : store[k].main > txn[c].snapshot[k].main
            /\ \A k \in Queued(c, "nested") : store[k].nested > txn[c].snapshot[k].nested]_vars

\* A transaction commits on the main records it watched: none of them has
\* changed since its WATCH replied.  Does not hold: a write that is in the
\* store but not yet published, or one between the comparison and the commit,
\* goes unnoticed unless the transaction writes that record itself.
WatchedUnchangedAtCommit ==
    [][\A c \in Clients :
         pc[c] = "commit" /\ pc'[c] = "publish" =>
            \A k \in Watched(c) : store[k].main <= seen[c][k]]_vars

=============================================================================
