------------------------- MODULE VersionCompaction --------------------------
(***************************************************************************)
(* Versions of structured values and how compaction reclaims old ones.     *)
(*                                                                         *)
(* The main record of a hash, list, set, sorted set, stream or JSON        *)
(* document names a version; its sub-keys carry that version.  Replacing   *)
(* or renaming a key allocates a new version and may leave the sub-keys of *)
(* the old one behind.  A batch that puts a main record also puts an owner *)
(* marker, version -> key, and registers the version as live before it is  *)
(* written.  A background scan walks the owner markers in bounded batches, *)
(* compares each with the key's main record and registers or retires the   *)
(* version.  The engine's compaction filter removes every sub-key and      *)
(* owner marker whose version is not live.  The live set is volatile: at   *)
(* start it is rebuilt from the markers before the filter is armed.        *)
(*                                                                         *)
(* Abstractions: one database (the tracker and the version counter are     *)
(* shared, scan cursors are per database).  A writer plans on the main     *)
(* records it observed and its batch is refused when one was written       *)
(* since; a writer that holds the key's lock is one that is never refused. *)
(* now counts microseconds; a compaction pass visits one stored key.       *)
(***************************************************************************)
EXTENDS Integers, FiniteSets, FiniteSetsExt

CONSTANTS
    Keys,
    Fields,         \* fields, items, members, nodes: what a sub-key is named by
    Clients,
    BatchLimit,     \* VERSION_REFRESH_BATCH_LIMIT
    TickVersions,   \* 2 ^ VERSION_TIMESTAMP_COUNTER_BITS
    MaxNow,         \* bound on the clock
    MaxVersion,     \* bound on the versions allocated
    MaxCrashes,     \* bound on the crashes
    MaxErrors       \* bound on the failed reads of the scan

ASSUME ConstantsAssumption ==
    /\ IsFiniteSet(Keys) /\ IsFiniteSet(Fields)
    /\ BatchLimit \in Nat \ {0} /\ TickVersions \in Nat \ {0}
    /\ MaxNow \in Nat /\ MaxVersion \in Nat
    /\ MaxCrashes \in Nat /\ MaxErrors \in Nat

NoVersion == 0    \* no main record, or a string's
Keep == -1        \* a main record the batch does not write

VARIABLES
    now,       \* the wall clock
    counter,   \* VersionCounter
    main,      \* version named by each key's main record
    owner,     \* owner markers: set of <<version, key>>
    sub,       \* stored sub-keys: set of <<key, version, field>>
    live,      \* VersionCompactionTracker::live_versions
    ready,     \* VersionCompactionTracker::ready
    next,      \* VersionCompactionTracker::owner_scan_next
    scan,      \* owner markers the scan has read and not judged yet
    verdict,   \* whether the first of them is current, once its key was read
    pc,        \* where each client is
    plan,      \* the batch each client is about to write
    stale,     \* clients whose observed records were written since
    crashes, errors,
    misread,   \* history: current versions whose main record a scan could not read
    refused    \* history: versions a refused batch left live, their marker gone

store == <<main, owner, sub>>
tracker == <<live, ready, next, scan, verdict, misread, errors>>
clients == <<pc, plan, stale, refused>>
vars == <<now, counter, store, tracker, clients, crashes>>

Versions == 0 .. MaxVersion
NoPlan == [write |-> [k \in Keys |-> Keep], put |-> {}, drop |-> {}, mark |-> FALSE]

Init ==
    /\ now = 0 /\ counter = 0
    /\ main = [k \in Keys |-> NoVersion]
    /\ owner = {} /\ sub = {} /\ live = {}
    /\ ready = TRUE
    /\ next = 0 /\ scan = {} /\ verdict = "none"
    /\ pc = [c \in Clients |-> "idle"]
    /\ plan = [c \in Clients |-> NoPlan]
    /\ stale = {}
    /\ crashes = 0 /\ errors = 0
    /\ misread = {} /\ refused = {}

-----------------------------------------------------------------------------
(* Version numbers.                                                        *)

\* Mutant: the counter alone, without the floor of the clock.
NextVersionNoFloor == counter + 1

\* VersionCounter::next.
NextVersion == Max({counter + 1, now * TickVersions})

\* Fewer than 2^11 versions are allocated in a microsecond, so the counter
\* does not run ahead of the clock.
CanAllocate ==
    /\ NextVersion < (now + 1) * TickVersions
    /\ NextVersion <= MaxVersion

-----------------------------------------------------------------------------
(* Writers.                                                                *)

SubKeys(k) == {s \in sub : s[1] = k /\ s[2] = main[k]}
Write(k, v) == [NoPlan.write EXCEPT ![k] = v]

\* A new structure on k, over nothing, a string or an older structure (HSET,
\* RPUSH..., JSON.SET of the root, the promotion of a packed value): the
\* sub-keys of the older one stay.
CreatePlan(k, f, v) ==
    [write |-> Write(k, v), put |-> {<<k, v, f>>}, drop |-> {}, mark |-> TRUE]

\* A write into the structure k has: its metadata and a sub-key.  Some
\* writers skip the marker, which is there already
\* (write_existing_version_batch_if_not_empty_async).
AddPlan(k, f, mark) ==
    [write |-> Write(k, main[k]), put |-> {<<k, main[k], f>>}, drop |-> {},
     mark |-> mark]

\* Mutant: the sub-keys move with their version.
RenamePlanSameVersion(k, j, v) ==
    [write |-> [Write(k, NoVersion) EXCEPT ![j] = main[k]],
     put |-> {<<j, main[k], s[3]>> : s \in SubKeys(k)},
     drop |-> SubKeys(k) \cup SubKeys(j), mark |-> TRUE]

\* rename_key: the structure of k is copied to j under a new version, both
\* old structures are deleted.
RenamePlan(k, j, v) ==
    [write |-> [Write(k, NoVersion) EXCEPT ![j] = v],
     put |-> {<<j, v, s[3]>> : s \in SubKeys(k)},
     drop |-> SubKeys(k) \cup SubKeys(j), mark |-> TRUE]

Plan(c, p) ==
    /\ ready /\ pc[c] = "idle"
    /\ pc' = [pc EXCEPT ![c] = "register"]
    /\ plan' = [plan EXCEPT ![c] = p]
    /\ stale' = stale \ {c}
    /\ UNCHANGED <<now, store, tracker, refused, crashes>>

Create(c) ==
    /\ CanAllocate
    /\ counter' = NextVersion
    /\ \E k \in Keys, f \in Fields : Plan(c, CreatePlan(k, f, NextVersion))

\* Mutant: the key's record is not checked, the sub-key of a key without a
\* structure is written under version 0.
AddUnchecked(c) ==
    /\ \E k \in Keys, f \in Fields, mark \in BOOLEAN : Plan(c, AddPlan(k, f, mark))
    /\ UNCHANGED counter

Add(c) ==
    /\ \E k \in Keys, f \in Fields, mark \in BOOLEAN :
          main[k] # NoVersion /\ Plan(c, AddPlan(k, f, mark))
    /\ UNCHANGED counter

Rename(c) ==
    /\ CanAllocate
    /\ counter' = NextVersion
    /\ \E k, j \in Keys :
          k # j /\ main[k] # NoVersion /\ Plan(c, RenamePlan(k, j, NextVersion))

Written(p) == {k \in Keys : p.write[k] # Keep}
\* The structures the batch has markers for, and their versions.
Structures(p) == {k \in Written(p) : p.mark /\ p.write[k] # NoVersion}
PlanVersions(p) == {p.write[k] : k \in Structures(p)}

\* batch_with_version_owner_markers: the versions of the main records in the
\* batch become live before the batch is written.
Register(c) ==
    /\ pc[c] = "register"
    /\ live' = live \cup PlanVersions(plan[c])
    /\ pc' = [pc EXCEPT ![c] = "commit"]
    /\ UNCHANGED <<now, counter, store, ready, next, scan, verdict, misread,
                   errors, plan, stale, refused, crashes>>

Finish(c) ==
    /\ pc[c] = "commit"
    /\ pc' = [pc EXCEPT ![c] = "idle"]
    /\ plan' = [plan EXCEPT ![c] = NoPlan]

\* Mutant: the batch is written without them.
NoMarkers(p) == {}

\* append_version_owner_markers: one for each structure the batch puts.
Markers(p) == {<<p.write[k], k>> : k \in Structures(p)}

\* The batch, its owner markers included, is applied atomically.
Commit(c) ==
    LET p == plan[c]
        after(k) == IF k \in Written(p) THEN p.write[k] ELSE main[k]
    IN  /\ Finish(c)
        /\ c \notin stale
        /\ main' = [k \in Keys |-> after(k)]
        /\ owner' = {o \in owner : \A q \in Markers(p) : q[1] # o[1]} \cup Markers(p)
        /\ sub' = (sub \ p.drop) \cup p.put
        /\ stale' = (stale \cup {d \in Clients :
                        Written(plan[d]) \cap Written(p) # {}}) \ {c}
        /\ UNCHANGED <<now, counter, tracker, refused, crashes>>

Marked(v) == \E o \in owner : o[1] = v

\* The compare-and-write or the transaction's commit is refused.
Conflict(c) ==
    /\ Finish(c)
    /\ c \in stale
    /\ stale' = stale \ {c}
    /\ refused' = refused \cup {v \in PlanVersions(plan[c]) :
                                   ~Marked(v) /\ \E s \in sub : s[2] = v}
    /\ UNCHANGED <<now, counter, store, tracker, crashes>>

\* Batches without a structure register nothing and take effect when they
\* are written: planning and writing are one step.
Discard(S, dropped) ==
    /\ ready
    /\ main' = [k \in Keys |-> IF k \in S THEN NoVersion ELSE main[k]]
    /\ sub' = sub \ dropped
    /\ stale' = stale \cup {c \in Clients : Written(plan[c]) \cap S # {}}
    /\ UNCHANGED <<now, counter, tracker, pc, plan, refused, crashes>>

\* SET over a structure: its sub-keys stay, hidden.
SetString(k) == main[k] # NoVersion /\ Discard({k}, {}) /\ UNCHANGED owner

\* DEL and expiry delete the sub-keys of the version they read.
Delete(k) == main[k] # NoVersion /\ Discard({k}, SubKeys(k)) /\ UNCHANGED owner

\* FLUSHDB deletes every key of the database's table, under all locks.
Flush == sub # {} /\ Discard(Keys, sub) /\ owner' = {}

-----------------------------------------------------------------------------
(* The scan of the owner markers.                                          *)

Smallest(S, n) == {o \in S : Cardinality({q \in S : q[1] < o[1]}) < n}

\* refresh_retired_versions_for_compaction: the next batch of markers.  An
\* empty batch only resets the cursor.
ScanOwners ==
    LET batch == Smallest({o \in owner : o[1] >= next}, BatchLimit)
    IN  /\ ready /\ scan = {} /\ verdict = "none"
        /\ batch # {} \/ next # 0
        /\ scan' = batch
        /\ next' = IF Cardinality(batch) < BatchLimit THEN 0
                   ELSE Max({o[1] : o \in batch}) + 1
        /\ UNCHANGED <<now, counter, store, clients, live, ready, verdict,
                       misread, errors, crashes>>

First == CHOOSE o \in scan : \A q \in scan : o[1] <= q[1]

\* version_owner_is_current, when the read succeeds.
IsCurrent(o) == main[o[2]] = o[1]

ReadOwnersKey ==
    /\ scan # {} /\ verdict = "none"
    /\ verdict' = IF IsCurrent(First) THEN "current" ELSE "retired"
    /\ UNCHANGED <<now, counter, store, clients, live, ready, next, scan,
                   misread, errors, crashes>>

\* A failed read counts as "not current".
ReadFails ==
    /\ scan # {} /\ verdict = "none" /\ errors < MaxErrors
    /\ errors' = errors + 1
    /\ misread' = misread \cup (IF IsCurrent(First) THEN {First[1]} ELSE {})
    /\ verdict' = "retired"
    /\ UNCHANGED <<now, counter, store, clients, live, ready, next, scan, crashes>>

\* register_live_version or retire_version.
Judge ==
    /\ verdict # "none"
    /\ live' = IF verdict = "current" THEN live \cup {First[1]}
               ELSE live \ {First[1]}
    /\ scan' = scan \ {First}
    /\ verdict' = "none"
    /\ UNCHANGED <<now, counter, store, clients, ready, next, misread, errors, crashes>>

-----------------------------------------------------------------------------
(* Compaction, restart, time.                                              *)

\* should_remove.
ShouldRemove(v) == ready /\ v \notin live

CompactSub(s) ==
    /\ ShouldRemove(s[2])
    /\ sub' = sub \ {s}
    /\ UNCHANGED <<now, counter, main, owner, tracker, clients, crashes>>

CompactOwner(o) ==
    /\ ShouldRemove(o[1])
    /\ owner' = owner \ {o}
    /\ UNCHANGED <<now, counter, main, sub, tracker, clients, crashes>>

\* A restart takes longer than the clock's resolution.
Crash ==
    /\ crashes < MaxCrashes /\ now < MaxNow
    /\ crashes' = crashes + 1
    /\ now' = now + 1
    /\ counter' = 0
    /\ live' = {} /\ ready' = FALSE /\ next' = 0
    /\ scan' = {} /\ verdict' = "none"
    /\ pc' = [c \in Clients |-> "idle"]
    /\ plan' = [c \in Clients |-> NoPlan]
    /\ stale' = {} /\ refused' = {}
    /\ UNCHANGED <<store, misread, errors>>

\* rebuild_from_store: every marker's version is observed and registered,
\* then the filter is armed and clients are served.
Rebuild ==
    /\ ~ready
    /\ \E o \in owner :
          /\ o[1] \notin live
          /\ live' = live \cup {o[1]}
          /\ counter' = Max({counter, o[1]})
    /\ UNCHANGED <<now, store, clients, ready, next, scan, verdict, misread,
                   errors, crashes>>

MarkReady ==
    /\ ~ready
    /\ \A o \in owner : o[1] \in live
    /\ ready' = TRUE
    /\ UNCHANGED <<now, counter, store, clients, live, next, scan, verdict,
                   misread, errors, crashes>>

Tick ==
    /\ now < MaxNow
    /\ now' = now + 1
    /\ UNCHANGED <<counter, store, tracker, clients, crashes>>

ClientStep(c) == Register(c) \/ Commit(c) \/ Conflict(c)
ScanStep == ScanOwners \/ ReadOwnersKey \/ ReadFails \/ Judge
Startup == Rebuild \/ MarkReady
Compaction == (\E s \in sub : CompactSub(s)) \/ (\E o \in owner : CompactOwner(o))

Next ==
    \/ \E c \in Clients : Create(c) \/ Add(c) \/ Rename(c) \/ ClientStep(c)
    \/ \E k \in Keys : SetString(k) \/ Delete(k)
    \/ Flush \/ ScanStep \/ Compaction \/ Crash \/ Startup \/ Tick

Spec == Init /\ [][Next]_vars

-----------------------------------------------------------------------------
(* Properties.                                                             *)

Allocated == Versions \ {NoVersion}
SubKeyNames == Keys \X Allocated \X Fields

\* Every variable keeps its type.  Version 0 is what a string's record holds:
\* no sub-key, owner marker or live version carries it, stored or in a batch
\* under way, so no writer adds to a key without a structure.
TypeOK ==
    /\ now \in 0 .. MaxNow
    /\ counter \in Versions
    /\ main \in [Keys -> Versions]
    /\ owner \subseteq Allocated \X Keys
    /\ sub \subseteq SubKeyNames
    /\ live \subseteq Allocated
    /\ ready \in BOOLEAN
    /\ next \in 0 .. MaxVersion + 1
    /\ scan \subseteq Allocated \X Keys
    /\ verdict \in {"none", "current", "retired"}
    /\ pc \in [Clients -> {"idle", "register", "commit"}]
    /\ plan \in [Clients -> [write : [Keys -> Versions \cup {Keep}],
                             put : SUBSET SubKeyNames,
                             drop : SUBSET SubKeyNames, mark : BOOLEAN]]
    /\ stale \subseteq Clients
    /\ crashes \in 0 .. MaxCrashes /\ errors \in 0 .. MaxErrors
    /\ misread \subseteq Allocated /\ refused \subseteq Allocated

\* Compaction never removes data a client can still read: whatever the scan,
\* the filter, writers and restarts do between each other's steps, a stored
\* sub-key of a key's current version disappears only together with that
\* version.  The one exception the code has is a version whose main record
\* the scan failed to read: version_owner_is_current takes the error for
\* "not current".
LiveDataKept ==
    [][\A s \in sub \ sub' :
          s[2] = main[s[1]] /\ s[2] = main'[s[1]] => s[2] \in misread]_vars

\* A structure starts empty: the version a main record is given is one no
\* stored sub-key of that key carries, although compaction removed the owner
\* marker that would have told a restarted counter about it.
FreshVersions ==
    [][\A k \in Keys : main'[k] \notin {NoVersion, main[k]} =>
          \A s \in sub : s[1] = k => s[2] # main'[k]]_vars

\* Sub-keys left behind by a replaced structure can be reclaimed: while
\* their version counts as live, the scan has an owner marker to meet it by.
\* The exceptions the code has are a version that a refused writer (a
\* transaction on an old snapshot) registered after the marker was compacted
\* away, and one that a failed read retired too early: no scan meets them
\* again before the next restart.
GarbageIsFound ==
    ready => \A s \in sub :
        s[2] \in live /\ s[2] # main[s[1]] =>
            \/ Marked(s[2])
            \/ s[2] \in refused \cup misread
            \/ \E c \in Clients : s[2] \in PlanVersions(plan[c])
=============================================================================
