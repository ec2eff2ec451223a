# A TLA+ model of onedis

onedis is a Redis-compatible server in Rust on top of an embedded LSM engine
(`kv_engine`). Commands are async tasks; several of them work on the same key at
once, each reading, deciding and writing in separate steps. This directory holds
TLA+ modules for the parts of the server where those steps matter, TLC
configurations that check them on small instances, and TLAPS proofs about the
central one. `PROJECT.json` is the machine-readable index: components, runs,
mutants, the map from definitions to source lines, hazards, findings, theorems.

Paths below are relative to the repository; `db/` stands for `src/store/db/`,
`ttl/` for `src/store/ttl/`.

## 1. The system

### Parts and how they interact

| Part | State | Operations | Talks to |
|---|---|---|---|
| `KvStore` batches (`src/store/kv_store*`, engine) | raw keys, per-key sequence numbers | observe, compare-and-write, unconditional write, scan, transaction | everything |
| TTL index and sweeper (`ttl/`) | one index entry per deadline, kept in the store; rotation cursor | scan due, expire hook, rebuild | commands, key locks |
| Lazy expiry (`db/key_expiration_runtime.rs`) | none of its own | `expire_if_needed` before a command | TTL index, locks |
| Key write locks (`src/store/key_write_locks.rs`) | sharded read/write locks | shared or exclusive acquisition | all writers but INCRBY/DECRBY |
| Key mutation tracker (`db/types.rs`) | counted watches with versions, waiters per key | watch, unwatch, bump, register, notify | transactions, blocking commands, every publishing write |
| Transactions (`src/server/transaction_run.rs`, `db/core_lifecycle.rs`) | session queue, watched versions, engine snapshot | WATCH, MULTI, EXEC, DISCARD, UNWATCH, RESET | tracker, store |
| Blocking commands (`src/server/handler_blocking*.rs`) | session's kill and unblock flags | BLPOP, BLMOVE, CLIENT UNBLOCK and KILL | tracker, lists |
| Counter cache (`db/string_integer_ops.rs`) | cached value, sequence numbers, spawned merges | INCR, DECR, INCRBY, SET/DEL invalidation | locks, store |
| Lists and list metadata cache | packed or item form, cached head and tail | push, pop, trim, delete, EXEC, readers | locks, merge queues, store |
| Merge queues | per-key queue, `running` flag, map of queues | enqueue, drain, apply, reply, go idle | every collection type |
| Versions and compaction filter (`db/version_compaction.rs`, `ttl/version_counter.rs`) | version counter, owner markers, live set, scan cursor | allocate, register, retire, filter, rebuild | engine compaction, all collections |
| Hashes, sets, sorted sets, streams, JSON | packed and spread-out forms, caches with epochs | the type's commands | versions, TTL, queues |
| Full-text and vector indexes | outbox, worker, segments, generations | ingest, search, rebuild | hashes, JSON |
| Server, sessions, pub/sub, ACL | health gate, sessions, subscriptions | accept, drain, close | all |
| Command parsing, Lua, WASM, metrics, tools | - | - | all |

### What is hard here

* A command reads without a lock, decides, and commits by compare-and-write; the
  sweeper decides from an index entry scanned a batch earlier (`ttl/manager_sweeper.rs`).
* INCRBY and DECRBY hold no key lock while everybody else does.
* A write is stored first and published to watchers and waiters afterwards.
* INCR answers from memory and merges in a spawned task that outlives the request.
* Readers without a lock fill caches that locked writers trust.
* A per-key queue is declared idle and removed while a producer adds to it.
* Data of deleted collections is removed by a compaction filter that trusts a
  volatile set of live versions, rebuilt at start.
* The process may stop between any two batches.

`PROJECT.json` lists these at their lines as 40 hazards, each with the
properties that would catch it going wrong or a note why none does.

## 2. Modules and the code they model

### KeyExpiration, Keyspace: deadlines, the TTL index, the sweeper

`meta[k]` is a key's main record reduced to its deadline, `index` the set of
(deadline, key) entries. A client task goes through `Begin`, `Stage` (RENAME plans
on a snapshot), `Lock`, `LazyCheck`/`LazyDelete` (`expire_if_needed`), `Decide` and
`Write`; a batch whose observations are out of date (`stale`) goes to `Retry` or
`GiveUp`. FLUSHDB holds all locks, reads the table (`FlushScan`), reads the index
entries once more (`FlushEntries`) and then deletes what it found,
unconditionally. The sweeper is `SweepScan`, `SweepLock`, `SweepObserve`, `SweepSkip`,
`SweepCommit`, `SweepDone`. `Crash` keeps only the store. A plan records what a
batch saw, writes, adds to and deletes from the index, so that each command's
batch is one value the invariants can talk about.

`Keyspace` is the abstract specification: requests take effect at one instant.
It grants two exceptions, both to INCRBY and DECRBY, which take no lock. A DEL of
several keys may miss one that they create meanwhile (`Missable`). FLUSHDB has two
instants: it looks (`Look`), and later deletes the keys it saw, whatever they hold
by then. In between only INCRBY and DECRBY take effect, so a key they create there
survives FLUSHDB (`db/string_keyspace_flush.rs:38`). Judging a deadline by a clock reading older than the
effect (PERSIST, EXPIRE, GETEX) is allowed too, because the code does it.

### WatchTransactions

`keyVersions` is the tracker's counted entries, `watched` the session's
remembered versions, `txn` the queue and the engine snapshot. A write is stored
in one step and published in later ones; EXEC compares key by key, then commits
under locks, and the engine refuses it if a written record changed since MULTI.
The sweeper deletes without publishing. Storage errors can strike lazy expiry in
WATCH and in EXEC. History variables (`seen`, `late`, `doomed`, `quiet`, `leaked`)
only serve the properties.

### BlockingCommands

The handler's loop: register a waiter under each key, try the pop on a snapshot,
wait for a signal, a deadline, CLIENT UNBLOCK, CLIENT KILL or disconnection. A
`Notify` is its stored permit. Writers store first, then look at `has_observers`
and signal.

### CounterCache

`entry` is the cached value, `states` the commit states, `tasks` the spawned
merges, each owning its lock guard; merges land in any order and may be refused.
The merge operator checks its sum (`src/store/kv_store_merge_operator.rs:79`). It
can overflow although no cached value did: with the counter at its maximum, a
DECR and an INCR are assigned in that order and land in the other. The error then
drops the entry and reaches the waiters, as any refused merge does. The engine is
taken to run the operator when it takes the operand.
SET and DEL lock exclusively and drop the entry after the write; INCRBY does not
lock. `MinInt` and `MaxInt` stand for the ends of i64.

### ListMetaCache, Lists

`record`/`item` are the stored list in packed or item form, `cache` and `nonEmpty`
the shared metadata cache and its flag. Dropping cached metadata, clearing the
map and resetting the flag are separate steps. `Lists` is the abstract
specification: sequences changed by whole commands.

### MergeQueue

One key's queue as an object in a map of Arcs. Producers look up, push, and turn
`running` on; a worker drains, applies, replies, and goes idle holding the mutex.
Objects are reused when nothing refers to them.

### VersionCompaction

`main` names each key's version, `owner` the markers, `sub` the sub-keys; `live`,
`ready` and `next` are the tracker. Writers plan, register, and commit or are
refused; the owner scan reads a key and judges it in a later step; compaction
visits any one stored key at a time; a crash empties the live set.
`version_owner_is_current` treats a read error as "not current" and so can retire
a version in use: `misread` marks such versions and the properties exempt them.

### Kept in the models although no run asserts anything about them

* PERSIST, EXPIRE and GETEX read the clock before the compare-and-write.
* LSET or XACK by another client does not abort a watcher: list items and stream
  records name no key to the tracker (`db/core_key_watch.rs:10`).
* The sweeper's deletion of a watched key does not abort EXEC.
* With two lists, resetting the cache flag (`db/core_write_batch.rs:645`) races with
  an insertion for the other list: later writes skip their invalidation and leave
  stale metadata cached. `ImplementsLists` is checked with one list, and the run
  says nothing about that race.
* A failed WATCH leaves its registration behind (`leaked`), a failed read of the
  owner scan retires a version in use (`misread`), and a refused batch can leave a
  version live without its marker (`refused`). The properties except these cases.

## 3. What TLC checks

Every passing property also has a mutant in `PROJECT.json`: a plausible bug in one
mapped definition that makes TLC report the property violated.

| Run | Specification | Shows |
|---|---|---|
| `expiration` | `Spec` | deadlines and index agree in both directions, expiry is never early, commands refine `Keyspace` (FLUSHDB in two instants) |
| `expiration_liveness` | `FairSpec` | with two databases, a crash and a key whose hook keeps failing, due keys of the other database are reclaimed |
| `watch` | `Spec` | an acknowledged change aborts EXEC; a Null answer has a cause; watches are counted exactly; results mean the queued main-record writes are stored |
| `counter` | `FairSpec` | cached value = stored value + merges under way, also after an overflow; the stored value stays in range; answers cover all earlier merges; no merge crosses SET, DEL or expiry; every INCR is answered |
| `blocking` | `FairSpec` | no lost wakeup, no lost or doubled element, no waiter left behind; waiting beside an element ends; UNBLOCK ends the command |
| `list` | `Spec` | one list, without unlocked readers: whatever is cached, the list refines `Lists` |
| `merge_queue` | `FairSpec` | no stranded request, one worker, requests applied in order, everybody answered |
| `versions` | `Spec` | compaction removes no readable data, versions are fresh after a restart, left-over sub-keys stay findable; no sub-key is written for a key without a structure |

### Where code and documentation disagree

Four runs expect a violation. Each is a sequence of ordinary commands for which
the code does not keep what a document, comment or test says.

| Run | Property | Disagreement |
|---|---|---|
| `exec_nested` | `ResultsMeanApplied` | EXEC drops its writes when the queued commands only touch list items, set members or stream records (`db/core_lifecycle.rs:295`), and still answers their results |
| `watch_race` | `WatchedUnchangedAtCommit` | a watched key changed but unpublished, or changed between comparison and commit, does not abort EXEC (`src/server/transaction_run.rs:106`) |
| `counter_incrby` | `CoherentAtRest` | INCRBY between the base read and the insertion leaves a wrong cached counter (`db/string_integer_ops.rs:153`) |
| `list_readers` | `PushesKept` | an unlocked LLEN can cache stale head and tail, and a later push overwrites elements (`db/native_list_helpers.rs:200`) |

These are counterexamples of the models. They were not reproduced against a
running server.

### Bounds

| Run | Instance | Why it is enough to be interesting |
|---|---|---|
| `expiration` | 2 keys, 2 clients, 15 commands, no crash, clock to 2, batch of 1 | two commands and the sweeper overlap on one key, and RENAME and DEL connect both; a deadline can be set, passed and replaced |
| `expiration_liveness` | 2 keys in 2 databases, 6 commands, 1 crash, 1 failing key | a batch of 1 is filled by the failing entry, which is the starvation case |
| `watch` | 1 key, 2 clients, 3 stored writes, 1 storage error | one watcher, one writer, and a third write that could hide the second. Two watched keys are covered only by `watch_race` |
| `counter` | 2 clients, 4 commands, values from -1 to 2, 1 refused merge | both ends of the integer range are reached; two merges can complete out of order, and overflow by it |
| `blocking` | 2 keys, 2 clients, 1 writer, 2 writes, 2 blocking calls | two clients wake for one element; a move makes a client both taker and publisher |
| `list` | 1 key, 3 clients, 7 commands, packed limit 1 | the list is unpacked, emptied and packed again |
| `merge_queue` | 2 clients, 3 requests each, pipelines of 2, batches of 1 | a queue is removed and replaced while a producer still holds it |
| `versions` | 2 keys, 1 client, 3 versions, 1 crash, 1 read error, scan batch of 1 | three versions allow one to be compacted before the crash and one after. A single client; races are between it, the scan and compaction |

Bounds are constants named `Max...` in the modules and guard the steps that would
otherwise be unbounded. `CHECK_DEADLOCK FALSE` appears where these bounds let every
task finish; the two expiration runs check deadlock, because there the sweeper
always has a step. Symmetry is used in runs without liveness properties only.

`versions` assumes what the version counter assumes of the clock: it does not go
back, a restart takes longer than a microsecond, and fewer than 2^11 versions are
allocated per microsecond.

### Fairness

* Client tasks, writers, workers and spawned merges: weak fairness. The async
  runtime polls every ready task again. Beginning a new command, a crash and a
  tick of the clock are never fair.
* The sweeper's wait for a key lock: strong fairness, because the lock is first
  come, first served while clients take and release it over and over.
* The sweeper's read of a key and its hook: strong fairness except on
  `FailingKeys`, that is, storage does not fail forever on the others.

## 4. What TLAPS proves

`KeyExpirationProofs` proves, for every set of keys, clients, databases and
commands, every batch size and every bound:

| Theorem | Statement |
|---|---|
| `TypeCorrect` | `Spec => []TypeOK` |
| `IndexComplete` | `Spec => []IndexCoversDeadlines` |
| `NoEarlyExpiry` | `Spec => ExpiryNeverEarly` |

The only assumption is `ConstantsAssumption` of `KeyExpiration`.

`IndexCoversDeadlines` is not inductive by itself: a task holds a batch planned
earlier, and the batch could delete an entry that is needed by now. `IInv` adds
what makes planned batches harmless:

* `ObservationsCurrent`: unless a task is marked stale, what it observed is still
  in the store. This is what compare-and-write buys.
* `PlansKeepIndex`: a batch adds the entry of each deadline it writes, and deletes
  an entry only if it also writes that record or saw it with another deadline.
* `PlansAuthorized`: a command writes only keys it names; lazy expiry and the
  sweeper only delete records observed due.
* `SweepEntriesDue`: what the sweeper picked from the index is due.
* `Exclusion`: FLUSHDB's batch is not validated, so what it read must still be good
  when it is written. It is, because a FLUSHDB under way holds every lock
  (`HoldsLocks`), and a command without locks writes a record back under the
  deadline it observed, or a new one without deadline (`KeepsDeadline`). So a key
  the scan did not find has no deadline to lose (`FlushSound`), and nothing but
  FLUSHDB deletes entries without having observed a record (`Conditional`).

The lemmas go from plans (each command's plan is well formed) to the effect of
applying one (`ApplyPlan`), then one lemma per group of actions for the conjuncts
above `Exclusion` and one for `Exclusion` itself, and `Invariance` combines them. `NoEarlyExpiry` follows from `IInv` step by step, since the clock
never goes back.

Only model-checked: `IndexHasNoLeaks`, the refinement of `Keyspace`, and everything
in the other modules. Liveness under fairness and `ENABLED` are out of the prover's
reach and stay with TLC, and so does what recursive definitions compute.

## 5. What is not modelled

* Hashes, sets, sorted sets, streams, JSON, full-text and vector indexes, the
  server's lifecycle, pub/sub and ACL: planned, see below.
* COPY, MOVE and SCAN; LINSERT, LREM, LSET and LMOVE; shards shared by several
  keys and the order in which several locks are taken.
* The time limit on read-only commands that can cut off XREAD BLOCK: timeouts in
  the models have no lengths.
* Internal full-text vector indexes, which register their version only after the
  commit (`db/vector_write_ops.rs:136`).
* That left-over versions are eventually reclaimed: the state space with fairness
  was too large. `GarbageIsFound` is the safety half.
* The engine: conditional batches, snapshots, merges and compaction are modelled
  from how onedis uses them and are marked external in the map.
* Parsing, reply formatting, ranking, distances, metrics, tools, Lua and WASM: no
  shared state of their own, or numeric work outside TLC's reach.

The map covers about 5% of the implementation's lines so far.

## 6. Plan

Model, in this order:

1. `KeyWriteLocks`: shards, ordered acquisition, no deadlock between multi-key
   commands; composed with RENAME and DEL.
2. `HashFields` with field deadlines, packed and spread-out form, length and counter
   cache epochs; the same form for sets and sorted sets (member and score index).
3. `Streams`: identifiers, groups, pending entries, XCLAIM against XACK; an abstract
   log as specification.
4. `FullTextIndex`: outbox, worker, generations, crash between commit and index.
5. `VectorIndex`: runtime states, segments, rebuild, late registration of versions.
6. `ServerLifecycle` and `Sessions`: health gate, drain, close order, subscriptions.
7. COPY, MOVE, LMOVE, LSET in the existing modules; two keys in the `list` run.

Runs are merged where modules compose, so that each run keeps one question.

Prove, in this order: `IndexHasNoLeaks`; the refinement of `Keyspace`;
`WatchersCounted` and `AcknowledgedChangeAborts`; `NoLostWakeup` and `WaitersExact`;
`MergesKeepTheirPlace` and `CommittedMeansMerged`; `OneWorker` and
`NoStrandedRequest`; `FreshVersions` and `LiveDataKept`.
