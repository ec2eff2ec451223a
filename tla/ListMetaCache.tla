--------------------------- MODULE ListMetaCache ----------------------------
(***************************************************************************)
(* Lists in the store and the cache of their metadata.                     *)
(*                                                                         *)
(* A small list is packed into its main record.  A larger one is a main    *)
(* record ListMeta (version, head, tail) and one item per index from head  *)
(* up to tail.  list_meta reads the metadata through a cache shared by all *)
(* connections; writers hold the key's write lock, commit the batch, drop  *)
(* the cached metadata and cache the new ones.  Readers (LLEN, LINDEX,     *)
(* LRANGE) take no lock, yet a miss fills the cache with what they read.   *)
(* A flag lets writes skip the invalidation while nothing was cached.      *)
(*                                                                         *)
(* Abstractions: elements are the numbers of their pushes; pushes go to    *)
(* the tail, pops and trims drop the head.  Under the key's lock a read of *)
(* the store and the write that follows it are one step.  Deadlines are    *)
(* left to KeyExpiration.                                                  *)
(***************************************************************************)
EXTENDS Integers, Sequences, Functions

CONSTANTS
    Keys,
    Clients,
    Commands,    \* the commands issued, out of "len", "push", "pop", "trim", "del", "exec"
    SmallMax,    \* SMALL_LIST_MAX_ITEMS
    MaxCalls,    \* bound on the commands issued
    None

ASSUME ConstantsAssumption ==
    /\ Commands \subseteq {"len", "push", "pop", "trim", "del", "exec"}
    /\ SmallMax \in Nat \ {0} /\ MaxCalls \in Nat

VARIABLES
    record,    \* main records: None, [packed |-> elements] or a ListMeta
    item,      \* item keys <<key, version, index>> and their elements
    cache,     \* list_meta_cache
    nonEmpty,  \* list_meta_cache_maybe_non_empty
    lock,      \* holder of each key's write lock
    pc,        \* where each client is
    call,      \* its command and key
    seen,      \* the metadata it read or is about to cache; a transaction's snapshot
    range,     \* whether the batch it committed has a RangeDelete
    then,      \* where it goes once the caches are invalidated
    versions,  \* VersionCounter
    pushed,    \* pushes committed: the last element
    calls      \* commands issued so far

local == <<call, seen, range, then>>
store == <<record, item, versions, pushed>>
vars == <<store, cache, nonEmpty, lock, pc, local, calls>>

NoCall == [op |-> "none", key |-> None]
ListMeta(v, h, t) == [version |-> v, head |-> h, tail |-> t]

Init ==
    /\ record = [k \in Keys |-> None]
    /\ item = [x \in {} |-> 0]
    /\ cache = [k \in Keys |-> None]
    /\ nonEmpty = FALSE
    /\ lock = [k \in Keys |-> None]
    /\ pc = [c \in Clients |-> "idle"]
    /\ call = [c \in Clients |-> NoCall]
    /\ seen = [c \in Clients |-> None]
    /\ range = [c \in Clients |-> FALSE]
    /\ then = [c \in Clients |-> "end"]
    /\ versions = 0
    /\ pushed = 0
    /\ calls = 0

Key(c) == call[c].key
Goto(c, place) == pc' = [pc EXCEPT ![c] = place]
IsPacked(r) == r # None /\ "packed" \in DOMAIN r

\* decode_list_meta, or for a packed list what decode_entry gives: version 0.
MetaOf(r) ==
    IF r = None THEN None
    ELSE IF IsPacked(r) THEN ListMeta(0, 0, Len(r.packed))
    ELSE r

ItemKeys(k, m) == {<<k, m.version, i>> : i \in m.head .. m.tail - 1}

\* The elements a reader of the store finds under key k; 0 where an item is missing.
Contents(k) ==
    LET r == record[k]
        At(x) == IF x \in DOMAIN item THEN item[x] ELSE 0
    IN  IF r = None THEN <<>>
        ELSE IF IsPacked(r) THEN r.packed
        ELSE [i \in 1 .. r.tail - r.head |-> At(<<k, r.version, r.head + i - 1>>)]

PutItem(x, e) == [y \in DOMAIN item \cup {x} |-> IF y = x THEN e ELSE item[y]]
WithoutItems(xs) == Restrict(item, DOMAIN item \ xs)

\* Metadata of a fresh version holding the elements s, and the items that hold them.
Unpacked(k, s) ==
    [record |-> ListMeta(versions + 1, 0, Len(s)),
     item |-> [x \in DOMAIN item \cup {<<k, versions + 1, i - 1>> : i \in DOMAIN s} |->
                 IF x[1] = k /\ x[2] = versions + 1 THEN s[x[3] + 1] ELSE item[x]]]

-----------------------------------------------------------------------------
(* The cache. *)

\* A miss reads the main record; what was read goes to the cache, whoever read it.
list_meta(c) ==
    LET k == Key(c)
        next == IF call[c].op = "len" THEN "end" ELSE "write"
    IN  /\ pc[c] = "lookup"
        /\ \/ /\ cache[k] # None
              /\ seen' = [seen EXCEPT ![c] = cache[k]]
              /\ Goto(c, next)
              /\ UNCHANGED then
           \/ /\ cache[k] = None
              /\ seen' = [seen EXCEPT ![c] = MetaOf(record[k])]
              /\ then' = [then EXCEPT ![c] = next]
              /\ Goto(c, IF record[k] = None THEN "end" ELSE "insert")
        /\ UNCHANGED <<store, cache, nonEmpty, lock, call, range, calls>>

cache_list_meta(c) ==
    /\ pc[c] = "insert"
    /\ cache' = [cache EXCEPT ![Key(c)] = seen[c]]
    /\ Goto(c, "flag")
    /\ UNCHANGED <<store, nonEmpty, lock, local, calls>>

set_maybe_non_empty(c) ==
    /\ pc[c] = "flag"
    /\ nonEmpty' = TRUE
    /\ Goto(c, then[c])
    /\ UNCHANGED <<store, cache, lock, local, calls>>

\* Mutant: a RangeDelete resets the flag without clearing the cache.
invalidate_without_clear(c) ==
    /\ pc[c] = "invalidate"
    /\ \/ ~nonEmpty /\ Goto(c, then[c]) /\ then' = [then EXCEPT ![c] = "end"] /\ UNCHANGED cache
       \/ nonEmpty /\ range[c] /\ Goto(c, "unflag") /\ UNCHANGED <<then, cache>>
       \/ /\ nonEmpty /\ ~range[c]
          /\ cache' = [cache EXCEPT ![Key(c)] = None]
          /\ Goto(c, then[c])
          /\ then' = [then EXCEPT ![c] = "end"]
    /\ UNCHANGED <<store, nonEmpty, lock, call, seen, range, calls>>

\* After a committed batch: nothing while the flag is off; everything, and the
\* flag in a second step, for a RangeDelete; else the batch's main key.
invalidate_list_meta_cache_for_batch(c) ==
    /\ pc[c] = "invalidate"
    /\ \/ /\ ~nonEmpty
          /\ Goto(c, then[c])
          /\ then' = [then EXCEPT ![c] = "end"]
          /\ UNCHANGED cache
       \/ /\ nonEmpty /\ range[c]
          /\ cache' = [k \in Keys |-> None]
          /\ Goto(c, "unflag")
          /\ UNCHANGED then
       \/ /\ nonEmpty /\ ~range[c]
          /\ cache' = [cache EXCEPT ![Key(c)] = None]
          /\ Goto(c, then[c])
          /\ then' = [then EXCEPT ![c] = "end"]
    /\ UNCHANGED <<store, nonEmpty, lock, call, seen, range, calls>>

clear_maybe_non_empty(c) ==
    /\ pc[c] = "unflag"
    /\ nonEmpty' = FALSE
    /\ Goto(c, then[c])
    /\ then' = [then EXCEPT ![c] = "end"]
    /\ UNCHANGED <<store, cache, lock, call, seen, range, calls>>

remove_list_meta_cache(c) ==
    /\ pc[c] = "remove"
    /\ cache' = [cache EXCEPT ![Key(c)] = None]
    /\ Goto(c, "end")
    /\ UNCHANGED <<store, nonEmpty, lock, local, calls>>

-----------------------------------------------------------------------------
(* The commands. *)

\* LLEN and the other readers go straight to the metadata; EXEC takes its
\* snapshot; the other commands wait for the key's write lock.
Call(c, op, k) ==
    /\ pc[c] = "idle"
    /\ calls < MaxCalls
    /\ calls' = calls + 1
    /\ call' = [call EXCEPT ![c] = [op |-> op, key |-> k]]
    /\ \/ op = "len" /\ Goto(c, "lookup") /\ UNCHANGED <<lock, seen>>
       \/ /\ op = "exec" /\ Goto(c, "commit")
          /\ seen' = [seen EXCEPT ![c] = record[k]]
          /\ UNCHANGED lock
       \/ /\ op \notin {"len", "exec"} /\ Goto(c, "start")
          /\ lock[k] = None
          /\ lock' = [lock EXCEPT ![k] = c]
          /\ UNCHANGED seen
    /\ UNCHANGED <<store, cache, nonEmpty, range, then>>

Return(c) ==
    /\ pc[c] = "end"
    /\ lock' = [k \in Keys |-> IF lock[k] = c THEN None ELSE lock[k]]
    /\ Goto(c, "idle")
    /\ call' = [call EXCEPT ![c] = NoCall]
    /\ seen' = [seen EXCEPT ![c] = None]
    /\ range' = [range EXCEPT ![c] = FALSE]
    /\ then' = [then EXCEPT ![c] = "end"]
    /\ UNCHANGED <<store, cache, nonEmpty, calls>>

\* The batch is committed: the record r and the items its puts and deletes leave.
Commit(c, r, items, rangeDelete, next) ==
    /\ record' = [record EXCEPT ![Key(c)] = r]
    /\ item' = items
    /\ range' = [range EXCEPT ![c] = rangeDelete]
    /\ then' = [then EXCEPT ![c] = next]
    /\ Goto(c, "invalidate")

\* A push on a list that is absent or packed never looks at the cache.
PushedPacked(k) ==
    LET s == Append(Contents(k), pushed + 1)
    IN  IF Len(s) <= SmallMax
        THEN [record |-> [packed |-> s], item |-> item]
        ELSE Unpacked(k, s)

NewVersion(r) == versions' = IF r # None /\ ~IsPacked(r) /\ r.version > versions
                             THEN r.version ELSE versions

try_list_push_packed(c) ==
    LET k == Key(c)
        new == PushedPacked(k)
    IN  /\ pc[c] = "start" /\ call[c].op = "push"
        /\ record[k] = None \/ IsPacked(record[k])
        /\ Commit(c, new.record, new.item, FALSE, "end")
        /\ NewVersion(new.record)
        /\ pushed' = pushed + 1
        /\ UNCHANGED <<cache, nonEmpty, lock, call, seen, calls>>

\* With metadata, the new item goes to the tail that list_meta answered.
list_push_batch(c) ==
    LET k == Key(c)
        m == seen[c]
        new == [m EXCEPT !.tail = @ + 1]
    IN  /\ pc[c] = "write" /\ call[c].op = "push"
        /\ Commit(c, new, PutItem(<<k, m.version, m.tail>>, pushed + 1), FALSE, "insert")
        /\ seen' = [seen EXCEPT ![c] = new]
        /\ pushed' = pushed + 1
        /\ UNCHANGED <<cache, nonEmpty, lock, call, versions, calls>>

\* A push or trim of a list that is not packed first asks for its metadata.
NeedsMeta(c) ==
    /\ pc[c] = "start"
    /\ \/ call[c].op = "push" /\ record[Key(c)] # None
       \/ call[c].op = "trim"
    /\ ~IsPacked(record[Key(c)])
    /\ Goto(c, "lookup")
    /\ UNCHANGED <<store, cache, nonEmpty, lock, local, calls>>

promote_packed_list(c) ==
    LET k == Key(c)
        new == Unpacked(k, Contents(k))
    IN  /\ pc[c] = "start" /\ call[c].op = "trim"
        /\ IsPacked(record[k])
        /\ Commit(c, new.record, new.item, FALSE, "lookup")
        /\ NewVersion(new.record)
        /\ UNCHANGED <<cache, nonEmpty, lock, call, seen, pushed, calls>>

\* Mutant: trimming the last element away leaves the main record.
list_trim_keeping_record(c) ==
    LET m == seen[c]
    IN  /\ pc[c] = "write" /\ call[c].op = "trim"
        /\ Commit(c, [m EXCEPT !.head = @ + 1], WithoutItems({<<Key(c), m.version, m.head>>}),
                  TRUE, "end")
        /\ UNCHANGED <<cache, nonEmpty, lock, call, seen, versions, pushed, calls>>

\* LTRIM key 1 -1.
list_trim(c) ==
    LET k == Key(c)
        m == seen[c]
        dropped == IF m.tail - m.head <= 1 THEN ItemKeys(k, m) ELSE {<<k, m.version, m.head>>}
    IN  /\ pc[c] = "write" /\ call[c].op = "trim"
        /\ Commit(c, IF m.tail - m.head <= 1 THEN None ELSE [m EXCEPT !.head = @ + 1],
                  WithoutItems(dropped), TRUE, "end")
        /\ UNCHANGED <<cache, nonEmpty, lock, call, seen, versions, pushed, calls>>

try_list_pop_packed(c) ==
    LET k == Key(c)
        s == Tail(Contents(k))
    IN  /\ pc[c] = "start" /\ call[c].op = "pop"
        /\ IsPacked(record[k])
        /\ Commit(c, IF s = <<>> THEN None ELSE [packed |-> s], item, FALSE, "end")
        /\ UNCHANGED <<cache, nonEmpty, lock, call, seen, versions, pushed, calls>>

\* Pops read the metadata from the store, not through the cache.
list_pop_many_batch(c) ==
    LET k == Key(c)
        m == record[k]
        new == [m EXCEPT !.head = @ + 1]
        empty == new.head >= new.tail
    IN  /\ pc[c] = "start" /\ call[c].op = "pop"
        /\ m # None /\ ~IsPacked(m)
        /\ Commit(c, IF empty THEN None ELSE new, WithoutItems({<<k, m.version, m.head>>}),
                  TRUE, IF empty THEN "remove" ELSE "insert")
        /\ seen' = [seen EXCEPT ![c] = new]
        /\ UNCHANGED <<cache, nonEmpty, lock, call, versions, pushed, calls>>

delete_keys(c) ==
    LET k == Key(c)
        m == MetaOf(record[k])
    IN  /\ pc[c] = "start" /\ call[c].op = "del"
        /\ record[k] # None
        /\ Commit(c, None, WithoutItems({x \in DOMAIN item : x[1] = k /\ x[2] = m.version}),
                  TRUE, "remove")
        /\ UNCHANGED <<cache, nonEmpty, lock, call, seen, versions, pushed, calls>>

NothingThere(c) ==
    /\ pc[c] = "start" /\ call[c].op \in {"pop", "del"}
    /\ record[Key(c)] = None
    /\ Goto(c, "end")
    /\ UNCHANGED <<store, cache, nonEmpty, lock, local, calls>>

-----------------------------------------------------------------------------
(* MULTI, RPUSH, EXEC: the transaction's writes are planned on its snapshot, *)
(* and its commit takes the locks of the keys it changed.                    *)

Conflict(c) ==
    /\ pc[c] = "commit"
    /\ lock[Key(c)] = None
    /\ record[Key(c)] # seen[c]
    /\ Goto(c, "end")
    /\ UNCHANGED <<store, cache, nonEmpty, lock, local, calls>>

commit_transaction(c) ==
    LET k == Key(c)
        r == record[k]
        new == IF r = None \/ IsPacked(r) THEN PushedPacked(k)
               ELSE [record |-> [r EXCEPT !.tail = @ + 1],
                     item |-> PutItem(<<k, r.version, r.tail>>, pushed + 1)]
    IN  /\ pc[c] = "commit"
        /\ lock[k] = None
        /\ lock' = [lock EXCEPT ![k] = c]
        /\ r = seen[c]
        /\ record' = [record EXCEPT ![k] = new.record]
        /\ item' = new.item
        /\ NewVersion(new.record)
        /\ pushed' = pushed + 1
        /\ Goto(c, "committed")
        /\ UNCHANGED <<cache, nonEmpty, local, calls>>

\* The keys are dropped unless no cache of any kind ever held anything.
invalidate_caches_for_committed_mutations(c) ==
    /\ pc[c] = "committed"
    /\ \/ cache' = [cache EXCEPT ![Key(c)] = None]
       \/ ~nonEmpty /\ UNCHANGED cache
    /\ Goto(c, "end")
    /\ UNCHANGED <<store, nonEmpty, lock, local, calls>>

Step(c) ==
    \/ \E op \in Commands, k \in Keys : Call(c, op, k)
    \/ list_meta(c)
    \/ cache_list_meta(c)
    \/ set_maybe_non_empty(c)
    \/ invalidate_list_meta_cache_for_batch(c)
    \/ clear_maybe_non_empty(c)
    \/ remove_list_meta_cache(c)
    \/ try_list_push_packed(c)
    \/ list_push_batch(c)
    \/ NeedsMeta(c)
    \/ promote_packed_list(c)
    \/ list_trim(c)
    \/ try_list_pop_packed(c)
    \/ list_pop_many_batch(c)
    \/ delete_keys(c)
    \/ NothingThere(c)
    \/ Conflict(c)
    \/ commit_transaction(c)
    \/ invalidate_caches_for_committed_mutations(c)
    \/ Return(c)

Next == \E c \in Clients : Step(c)

Spec == Init /\ [][Next]_vars

-----------------------------------------------------------------------------
(* Properties. *)

ListMetas == [version : Nat, head : Int, tail : Int]

\* Records, cached metadata and locks have the shapes the code gives them, and a
\* client that commits a batch holds its key's lock.
TypeOK ==
    /\ \A k \in Keys : \/ record[k] = None
                       \/ IsPacked(record[k]) /\ Len(record[k].packed) \in 1 .. SmallMax
                       \/ record[k] \in ListMetas /\ record[k].head < record[k].tail
    /\ cache \in [Keys -> ListMetas \cup {None}]
    /\ nonEmpty \in BOOLEAN
    /\ lock \in [Keys -> Clients \cup {None}]
    /\ \A x \in DOMAIN item : x[2] \in 1 .. versions
    /\ \A c \in Clients :
         pc[c] \in {"start", "write", "invalidate", "unflag", "remove", "committed"}
           => lock[Key(c)] = c

\* Every acknowledged push is in the list (for instances that only push and read).
PushesKept ==
    \A e \in 1 .. pushed : \E k \in Keys : e \in Range(Contents(k))

\* The stored lists only change as whole lists do: by a push at the tail, the removal
\* of the head or a deletion.  Unpacking is invisible, and so is caching as long as one
\* list uses the cache: its non-empty flag is shared by all lists.
AbstractLists == INSTANCE Lists WITH list <- [k \in Keys |-> Contents(k)], Elements <- 1 .. MaxCalls
ImplementsLists == AbstractLists!Spec
=============================================================================
