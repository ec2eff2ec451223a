------------------------ MODULE KeyExpirationProofs ------------------------
(***************************************************************************)
(* For every set of keys, clients, databases and commands: the TTL index   *)
(* covers every deadline, and nothing but a command deletes a record       *)
(* before its deadline.                                                    *)
(***************************************************************************)
EXTENDS KeyExpiration, TLAPS

\* What the lemmas below say of a plan built from the records m.
Good(p, m) ==
    /\ p \in Plan
    /\ KeepsIndex(p)
    /\ \A k \in Keys : On(p.seen, k) => p.seen[k] = m[k]

\* A batch that observed no record deletes no entry.
Guarded(p) == p.seen = Nothing => p.unindex = {}

WritesOnly(p, S) == \A k \in Keys : On(p.write, k) => k \in S

\* The entry of a deadline is a well-formed index entry of the key.
LEMMA EntryType ==
    ASSUME NEW d \in Meta, NEW k \in Keys
    PROVE  /\ Entry(d, k) \subseteq Entries
           /\ \A e \in Entry(d, k) : e = <<d, k>> /\ e[1] = d /\ e[2] = k /\ d > NoTtl
  BY DEF Entry, Entries, Meta, Deadlines, NoTtl, Absent

\* The empty batch, which stands for a task with nothing to commit.
LEMMA EmptyPlanGood ==
    ASSUME NEW m \in [Keys -> Meta]
    PROVE  Good(EmptyPlan, m) /\ WritesOnly(EmptyPlan, {}) /\ Guarded(EmptyPlan)
  BY DEF Good, Guarded, WritesOnly, EmptyPlan, Nothing, Plan, Records, KeepsIndex, On, Unset, NoTtl

\* write_string_value_to_batch: the new deadline's entry is added.
LEMMA PutPlanGood ==
    ASSUME NEW m \in [Keys -> Meta], NEW k \in Keys, NEW d \in Meta
    PROVE  /\ Good(PutPlan(k, m, d), m) /\ WritesOnly(PutPlan(k, m, d), {k})
           /\ Guarded(PutPlan(k, m, d))
<1> DEFINE p == PutPlan(k, m, d)
<1>1. /\ p.seen = Observed({k}, m)
      /\ p.write = [Nothing EXCEPT ![k] = d]
      /\ p.unindex = Entry(m[k], k) \ Entry(d, k)
      /\ p.reindex = Entry(d, k)
  BY DEF PutPlan
<1>2. Meta \subseteq Int /\ Unset \notin Meta
  BY DEF Meta, Deadlines, Absent, Unset
<1>3. p \in Plan
  <2>1. p.seen \in Records /\ p.write \in Records
    BY <1>1 DEF Observed, Nothing, Records
  <2>2. p.unindex \subseteq Entries /\ p.reindex \subseteq Entries
    BY <1>1, EntryType
  <2> QED
    BY <2>1, <2>2 DEF PutPlan, Plan
<1>4. \A x \in Keys : p.write[x] = IF x = k THEN d ELSE Unset
  BY <1>1 DEF Nothing
<1>5. KeepsIndex(p)
  <2>1. \A x \in Keys : p.write[x] > NoTtl => <<p.write[x], x>> \in p.reindex
    BY <1>1, <1>4 DEF Entry, NoTtl, Unset
  <2>2. \A e \in p.unindex : e[2] = k
    BY <1>1, EntryType
  <2>3. On(p.write, k)
    BY <1>4, <1>2 DEF On
  <2> QED
    BY <2>1, <2>2, <2>3 DEF KeepsIndex
<1>6. \A x \in Keys : On(p.seen, x) => p.seen[x] = m[x]
  BY <1>1 DEF Observed, On
<1>7. WritesOnly(p, {k})
  BY <1>4 DEF WritesOnly, On
<1>8. Guarded(p)
  <2>1. p.seen[k] = m[k] /\ Nothing[k] = Unset /\ m[k] # Unset
    BY <1>1, <1>2 DEF Observed, Nothing
  <2> QED
    BY <2>1 DEF Guarded
<1> QED
  BY <1>3, <1>5, <1>6, <1>7, <1>8 DEF Good

\* append_expiration_delete_to_batch and the DEL batches.
LEMMA DeletePlanGood ==
    ASSUME NEW m \in [Keys -> Meta], NEW S \in SUBSET Keys
    PROVE  /\ Good(DeletePlan(S, m), m)
           /\ WritesOnly(DeletePlan(S, m), S) /\ Guarded(DeletePlan(S, m))
           /\ \A k \in Keys : On(DeletePlan(S, m).write, k) =>
                 /\ DeletePlan(S, m).write[k] = Absent
                 /\ DeletePlan(S, m).seen[k] = m[k]
<1> DEFINE p == DeletePlan(S, m)
<1>1. /\ p.seen = Observed(S, m)
      /\ p.write = Deleted(S)
      /\ p.unindex = UNION {Entry(m[x], x) : x \in S}
      /\ p.reindex = {}
  BY DEF DeletePlan
<1>2. /\ \A x \in Keys : p.write[x] = IF x \in S THEN Absent ELSE Unset
      /\ \A x \in Keys : p.seen[x] = IF x \in S THEN m[x] ELSE Unset
      /\ p.write \in Records /\ p.seen \in Records
  BY <1>1 DEF Observed, Deleted, Records, Meta
<1>3. \A e \in p.unindex : e \in Entries /\ e[2] \in S
  BY <1>1, EntryType
<1>4. p \in Plan
  BY <1>1, <1>2, <1>3 DEF DeletePlan, Plan
<1>5. KeepsIndex(p)
  BY <1>2, <1>3 DEF KeepsIndex, On, Absent, Unset, NoTtl, Entries
<1>6. Guarded(p)
  <2>1. ASSUME NEW x \in S PROVE p.seen # Nothing
    BY <2>1, <1>2 DEF Nothing, Meta, Deadlines, Absent, Unset
  <2>2. S = {} => p.unindex = {}
    BY <1>3
  <2> QED
    BY <2>1, <2>2 DEF Guarded
<1> QED
  BY <1>2, <1>4, <1>5, <1>6 DEF Good, WritesOnly, On

\* rename_key: both records are written, so both old entries may go.
LEMMA MovePlanGood ==
    ASSUME NEW m \in [Keys -> Meta], NEW a \in Keys, NEW b \in Keys, a # b
    PROVE  /\ Good(MovePlan(a, b, m), m) /\ WritesOnly(MovePlan(a, b, m), {a, b})
           /\ Guarded(MovePlan(a, b, m))
<1> DEFINE p == MovePlan(a, b, m)
<1>1. /\ p.seen = Observed({a, b}, m)
      /\ p.write = [Nothing EXCEPT ![a] = Absent, ![b] = m[a]]
      /\ p.unindex = Entry(m[a], a) \cup Entry(m[b], b)
      /\ p.reindex = Entry(m[a], b)
  BY DEF MovePlan
<1>2. \A x \in Keys : p.write[x] = IF x = b THEN m[a] ELSE IF x = a THEN Absent ELSE Unset
  BY <1>1 DEF Nothing
<1>3. p.write \in Records /\ p.seen \in Records
  BY <1>1 DEF Observed, Nothing, Records, Meta
<1>4. /\ p.unindex \subseteq Entries /\ p.reindex \subseteq Entries
      /\ \A e \in p.unindex : e[2] \in {a, b}
  BY <1>1, EntryType
<1>5. p \in Plan
  BY <1>3, <1>4 DEF MovePlan, Plan
<1>6. On(p.write, a) /\ On(p.write, b)
  BY <1>2 DEF On, Meta, Deadlines, Absent, Unset
<1>7. KeepsIndex(p)
  <2>1. \A x \in Keys : p.write[x] > NoTtl => <<p.write[x], x>> \in p.reindex
    BY <1>1, <1>2 DEF Entry, NoTtl, Unset, Absent
  <2> QED
    BY <2>1, <1>4, <1>6 DEF KeepsIndex
<1>8. \A x \in Keys : On(p.seen, x) => p.seen[x] = m[x]
  BY <1>1 DEF Observed, On
<1>9. WritesOnly(p, {a, b})
  BY <1>2 DEF WritesOnly, On
<1>10. Guarded(p)
  <2>1. p.seen[a] = m[a] /\ Nothing[a] = Unset /\ m[a] # Unset
    BY <1>1 DEF Observed, Nothing, Meta, Deadlines, Absent, Unset
  <2> QED
    BY <2>1 DEF Guarded
<1> QED
  BY <1>5, <1>7, <1>8, <1>9, <1>10 DEF Good

\* flushdb_async: the batch of the scan, and the batch the second scan extends.
LEMMA FlushPlanGood ==
    ASSUME NEW m \in [Keys -> Meta], NEW db, NEW idx \in SUBSET Entries
    PROVE  LET p == FlushPlan(db, m, idx) IN
           /\ Good(p, m) /\ p.seen = Nothing
           /\ \A e \in p.unindex : DbOf[e[2]] = db
           /\ \A k \in Keys : DbOf[k] = db /\ ~On(p.write, k) => m[k] = Absent
<1> DEFINE p == FlushPlan(db, m, idx)
           S == {k \in Keys : DbOf[k] = db /\ m[k] # Absent}
<1>1. /\ p.seen = Nothing
      /\ p.write = Deleted(S)
      /\ p.unindex = EntriesIn(db, idx)
      /\ p.reindex = {}
  BY DEF FlushPlan
<1>2. \A x \in Keys : p.write[x] = IF x \in S THEN Absent ELSE Unset
  BY <1>1 DEF Deleted
<1>3. p.write \in Records /\ p.seen \in Records
  BY <1>1 DEF Deleted, Nothing, Records, Meta
<1>4. p.unindex \subseteq Entries /\ \A e \in p.unindex : DbOf[e[2]] = db
  BY <1>1 DEF EntriesIn
<1>5. p \in Plan
  BY <1>1, <1>3, <1>4 DEF FlushPlan, Plan
<1>6. KeepsIndex(p)
  BY <1>1, <1>2 DEF KeepsIndex, Absent, Unset, NoTtl
<1>7. \A k \in Keys : DbOf[k] = db /\ ~On(p.write, k) => m[k] = Absent
  BY <1>2 DEF On, Absent, Unset
<1> QED
  BY <1>1, <1>4, <1>5, <1>6, <1>7 DEF Good, On, Nothing

\* expire_key_async: the record goes only with its own deadline's entry.
LEMMA SweepPlanGood ==
    ASSUME NEW m \in [Keys -> Meta], NEW e \in Entries
    PROVE  /\ Good(SweepPlan(e, m), m) /\ Guarded(SweepPlan(e, m))
           /\ \A k \in Keys : On(SweepPlan(e, m).write, k) =>
                 /\ SweepPlan(e, m).write[k] = Absent
                 /\ SweepPlan(e, m).seen[k] = e[1]
<1> DEFINE p == SweepPlan(e, m)
           key == e[2]
<1>1. /\ p.seen = Observed({key}, m)
      /\ p.write = Deleted({k \in {key} : m[k] = e[1]})
      /\ p.unindex = {e}
      /\ p.reindex = {}
  BY DEF SweepPlan
<1>2. key \in Keys
  BY DEF Entries
<1>3. /\ \A x \in Keys : p.write[x] = IF x = key /\ m[x] = e[1] THEN Absent ELSE Unset
      /\ \A x \in Keys : p.seen[x] = IF x = key THEN m[x] ELSE Unset
  BY <1>1 DEF Deleted, Observed
<1>4. p.write \in Records /\ p.seen \in Records
  BY <1>1 DEF Deleted, Observed, Records, Meta
<1>5. p \in Plan
  BY <1>1, <1>4 DEF SweepPlan, Plan
<1>6. On(p.seen, key)
  BY <1>2, <1>3 DEF On, Meta, Deadlines, Absent, Unset
<1>7. KeepsIndex(p)
  <2>1. \A x \in Keys : ~(p.write[x] > NoTtl)
    BY <1>3 DEF Absent, Unset, NoTtl
  <2>2. On(p.write, key) \/ p.seen[key] # e[1]
    BY <1>2, <1>3 DEF On, Absent, Unset
  <2> QED
    BY <2>1, <2>2, <1>1, <1>6 DEF KeepsIndex
<1>8. \A x \in Keys : On(p.seen, x) => p.seen[x] = m[x]
  BY <1>3 DEF On
<1>9. \A x \in Keys : On(p.write, x) => p.write[x] = Absent /\ p.seen[x] = e[1]
  BY <1>3 DEF On
<1>10. Guarded(p)
  BY <1>2, <1>6 DEF Guarded, On, Nothing
<1> QED
  BY <1>5, <1>7, <1>8, <1>9, <1>10 DEF Good

\* Whatever a command decides, its batch is good and writes only its keys.
LEMMA PlanOfGood ==
    ASSUME NEW m \in [Keys -> Meta], NEW t \in Nat, NEW o \in Command, o.cmd # "flush"
    PROVE  LET p == PlanOf(o, m, t) IN
           Good(p, m) /\ WritesOnly(p, LocksOf(o)) /\ Guarded(p)
<1> DEFINE p == PlanOf(o, m, t)
           k == o.key
<1>1. /\ k \in Keys /\ o.to \in Keys /\ o.arg \in Int /\ o.at \in Deadlines
      /\ o.cmd \in CommandNames
      /\ o.cmd = "set" => o.arg >= -1
      /\ o.cmd = "getex" => o.arg >= -1
      /\ o.cmd \in {"expire", "getexat"} => o.arg >= 0
  BY DEF Command, KeepTtl, Persist
<1>2. Keys # {} /\ {k} \subseteq Keys /\ Deadlines \subseteq Meta /\ Deadlines = Nat
  BY <1>1 DEF Meta, Deadlines
<1>3. LocksOf(o) = {k, o.to}
  BY DEF LocksOf, KeysOf
<1> DEFINE Fine(q) == Good(q, m) /\ WritesOnly(q, LocksOf(o)) /\ Guarded(q)
<1>4. Fine(EmptyPlan) /\ Fine(DeletePlan({k}, m)) /\ \A d \in Meta : Fine(PutPlan(k, m, d))
  BY <1>1, <1>2, <1>3, EmptyPlanGood, PutPlanGood, DeletePlanGood DEF WritesOnly
<1>5. m[k] \in Meta /\ NoTtl \in Meta
  BY <1>1, <1>2 DEF NoTtl
<1> SUFFICES Fine(p)
  OBVIOUS
<1> HIDE DEF Fine
<1>7. CASE o.cmd = "set"
  <2>1. SetDeadline(o, m[k]) \in Meta
    BY <1>1, <1>2, <1>5, <1>7 DEF SetDeadline, KeepTtl
  <2> QED
    BY <2>1, <1>4, <1>7 DEF PlanOf, SetPlan
<1>8. CASE o.cmd = "expire"
  BY ZenonT(30), <1>1, <1>2, <1>4, <1>8 DEF PlanOf, ExpirePlan
<1>9. CASE o.cmd = "persist"
  BY <1>4, <1>5, <1>9 DEF PlanOf, PersistPlan
<1>10. CASE o.cmd = "getex"
  <2>1. o.arg # Persist => t + o.arg \in Meta
    BY <1>1, <1>2, <1>10 DEF Persist
  <2> QED
    BY <2>1, <1>4, <1>5, <1>10 DEF PlanOf, GetexPlan, PersistPlan
<1>11. CASE o.cmd = "getexat"
  BY <1>1, <1>2, <1>4, <1>11 DEF PlanOf, GetexAtPlan
<1>12. CASE o.cmd = "del"
  <2> DEFINE S == {x \in KeysOf(o) : m[x] # Absent}
  <2>1. S \subseteq Keys /\ S \subseteq LocksOf(o)
    BY <1>1, <1>3, <1>12 DEF KeysOf
  <2>2. p = DeletePlan(S, m)
    BY ZenonT(30), <1>12 DEF PlanOf, DelPlan
  <2> QED
    BY <2>1, <2>2, DeletePlanGood DEF WritesOnly, Fine
<1>13. CASE o.cmd \in {"mutate", "incrby"}
  <2>1. (IF m[k] = Absent THEN NoTtl ELSE m[k]) \in Meta
    BY <1>5
  <2> QED
    BY <2>1, <1>4, <1>13 DEF PlanOf, MutatePlan, IncrbyPlan, KeepDeadlinePlan
<1>14. CASE o.cmd = "rename"
  <2>1. k # o.to => Fine(MovePlan(k, o.to, m))
    BY <1>1, <1>3, MovePlanGood DEF Fine
  <2> QED
    BY <2>1, <1>4, <1>14 DEF PlanOf, RenamePlan
<1>16. CASE o.cmd = "probe"
  BY <1>4, <1>16 DEF PlanOf
<1> QED
  BY <1>1, <1>7, <1>8, <1>9, <1>10, <1>11, <1>12, <1>13, <1>14, <1>16 DEF CommandNames

\* INCRBY and the lazy expiry probe: the deadline observed, or none.
LEMMA UnlockedPlan ==
    ASSUME NEW m \in [Keys -> Meta], NEW t \in Nat, NEW o \in Command, o.cmd \in Unlocked
    PROVE  LET p == PlanOf(o, m, t) IN
           \A k \in Keys : On(p.write, k) =>
               On(p.seen, k) /\ p.write[k] \in {p.seen[k], NoTtl}
<1> DEFINE p == PlanOf(o, m, t)
           key == o.key
           d == IF m[key] = Absent THEN NoTtl ELSE m[key]
<1>1. CASE o.cmd = "incrby"
  <2>1. p = PutPlan(key, m, d)
    BY ZenonT(30), <1>1 DEF PlanOf, IncrbyPlan, KeepDeadlinePlan
  <2>2. p.seen = Observed({key}, m) /\ p.write = [Nothing EXCEPT ![key] = d]
    BY <2>1 DEF PutPlan
  <2>3. key \in Keys /\ m[key] \in Meta
    BY DEF Command
  <2> QED
    BY <2>2, <2>3 DEF Observed, Nothing, On, Meta, Deadlines, Absent, Unset
<1>2. CASE o.cmd = "probe"
  BY <1>2 DEF PlanOf, EmptyPlan, Nothing, On
<1> QED
  BY <1>1, <1>2 DEF Unlocked

-----------------------------------------------------------------------------
(* Three ways a step touches the plans and the store.                      *)

\* A part of the invariant that only speaks of plans and the store.
StoreInv ==
    /\ meta \in [Keys -> Meta]
    /\ index \subseteq Entries
    /\ plan \in [Procs -> Plan]
    /\ stale \in [Procs -> BOOLEAN]
    /\ IndexCoversDeadlines
    /\ ObservationsCurrent
    /\ PlansKeepIndex

\* A task observes the store, or drops what it held: the others' observations
\* stand, because the store did not change.
LEMMA NewPlan ==
    ASSUME StoreInv, NEW p \in Procs, NEW q, Good(q, meta),
           plan' = [plan EXCEPT ![p] = q],
           stale' = stale \/ stale' = [stale EXCEPT ![p] = FALSE],
           stale'[p] => q = EmptyPlan,
           UNCHANGED <<meta, index>>
    PROVE  StoreInv'
<1>1. /\ plan' \in [Procs -> Plan] /\ plan'[p] = q
      /\ \A x \in Procs : x # p => plan'[x] = plan[x]
  BY DEF StoreInv, Good
<1>2. /\ stale' \in [Procs -> BOOLEAN]
      /\ \A x \in Procs : x # p => stale'[x] = stale[x]
  BY ZenonT(30) DEF StoreInv
<1>3. ObservationsCurrent'
  BY <1>1, <1>2 DEF StoreInv, ObservationsCurrent, Good
<1>4. PlansKeepIndex'
  BY <1>1 DEF StoreInv, PlansKeepIndex, Good, KeepsIndex
<1> QED
  BY <1>1, <1>2, <1>3, <1>4 DEF StoreInv, IndexCoversDeadlines

\* A step that touches neither the store nor a plan.
LEMMA StoreUnchanged ==
    ASSUME StoreInv, UNCHANGED <<meta, index, plan, stale>>
    PROVE  StoreInv'
<1>1. IndexCoversDeadlines'
  BY DEF StoreInv, IndexCoversDeadlines
<1>2. ObservationsCurrent'
  BY DEF StoreInv, ObservationsCurrent
<1>3. PlansKeepIndex'
  BY DEF StoreInv, PlansKeepIndex, KeepsIndex
<1> QED
  BY <1>1, <1>2, <1>3 DEF StoreInv

\* What an unconditional batch unindexes is not the entry of a record it leaves.
BlindSafe(p) ==
    plan[p].seen = Nothing =>
        \A e \in plan[p].unindex : On(plan[p].write, e[2]) \/ meta[e[2]] # e[1]

\* A batch is applied: what it wrote is indexed, what it did not write keeps
\* its entry, and whoever had observed a written record is stale.
LEMMA ApplyPlan ==
    ASSUME StoreInv, NEW p \in Procs, ~stale[p], BlindSafe(p),
           Apply(plan[p], p), plan' = [plan EXCEPT ![p] = EmptyPlan]
    PROVE  /\ StoreInv'
           /\ \A k \in Keys : meta'[k] # meta[k] =>
                 On(plan[p].write, k) /\ meta'[k] = plan[p].write[k]
<1> DEFINE w == plan[p].write
<1>1. /\ plan[p] \in Plan /\ w \in Records /\ plan[p].seen \in Records
      /\ plan[p].unindex \subseteq Entries /\ plan[p].reindex \subseteq Entries
  BY DEF StoreInv, Plan
<1>2. \A k \in Keys : meta'[k] = IF On(w, k) THEN w[k] ELSE meta[k]
  BY DEF Apply
<1>3. meta' \in [Keys -> Meta]
  BY <1>1 DEF Apply, StoreInv, Records, On
<1>4. index' = (index \ plan[p].unindex) \cup plan[p].reindex /\ index' \subseteq Entries
  BY <1>1 DEF Apply, StoreInv
<1>5. /\ plan' \in [Procs -> Plan] /\ plan'[p] = EmptyPlan
      /\ \A x \in Procs : x # p => plan'[x] = plan[x]
  BY EmptyPlanGood DEF StoreInv, Good
<1>6. /\ stale' \in [Procs -> BOOLEAN]
      /\ \A x \in Procs : x # p => stale'[x] = (stale[x] \/ \E k \in Keys : On(w, k) /\ On(plan[x].seen, k))
  BY ZenonT(30) DEF Apply, StoreInv
<1>7. IndexCoversDeadlines'
  <2> SUFFICES ASSUME NEW k \in Keys, meta'[k] > NoTtl
               PROVE  <<meta'[k], k>> \in index'
    BY DEF IndexCoversDeadlines, Entry
  <2>1. CASE On(w, k)
    <3>1. meta'[k] = w[k]
      BY <2>1, <1>2
    <3> QED
      BY <3>1, <1>4 DEF StoreInv, PlansKeepIndex, KeepsIndex
  <2>2. CASE ~On(w, k)
    <3>1. meta'[k] = meta[k] /\ <<meta[k], k>> \in index
      BY <2>2, <1>2 DEF StoreInv, IndexCoversDeadlines, Entry
    <3>2. ~(On(plan[p].seen, k) /\ plan[p].seen[k] # meta[k])
      BY DEF StoreInv, ObservationsCurrent
    <3>3. <<meta[k], k>> \notin plan[p].unindex
      BY <2>2, <3>2 DEF StoreInv, PlansKeepIndex, KeepsIndex, BlindSafe
    <3> QED
      BY <3>1, <3>3, <1>4
  <2> QED
    BY <2>1, <2>2
<1>8. ObservationsCurrent'
  <2> SUFFICES ASSUME NEW x \in Procs, ~stale'[x], NEW k \in Keys, On(plan'[x].seen, k)
               PROVE  meta'[k] = plan'[x].seen[k]
    BY DEF ObservationsCurrent, On
  <2>1. x # p
    BY <1>5 DEF EmptyPlan, Nothing, On
  <2>2. plan'[x] = plan[x] /\ ~stale[x] /\ ~On(w, k)
    BY ZenonT(30), <2>1, <1>5, <1>6
  <2> QED
    BY <2>2, <1>2 DEF StoreInv, ObservationsCurrent
<1>9. PlansKeepIndex'
  <2>1. KeepsIndex(EmptyPlan)
    BY EmptyPlanGood DEF Good, StoreInv
  <2> QED
    BY <2>1, <1>5 DEF StoreInv, PlansKeepIndex, KeepsIndex
<1> QED
  BY <1>2, <1>3, <1>4, <1>5, <1>6, <1>7, <1>8, <1>9 DEF StoreInv

-----------------------------------------------------------------------------
(* The inductive invariant.                                                *)

\* The rest of the type invariant.
LocalOK ==
    /\ now \in Nat
    /\ lockedBy \in [Keys -> Procs \cup {NoOwner}]
    /\ pc \in [Procs -> PcValues]
    /\ op \in [Clients -> Command]
    /\ todo \in [Clients -> SUBSET Keys]
    /\ sweep \subseteq Entries
    /\ entry \in Deadlines \X Keys
    /\ nextDb \in 0 .. NumDbs - 1
    /\ crashes \in 0 .. MaxCrashes

\* The invariant but for the exclusion of FLUSHDB and the others.
Core == StoreInv /\ LocalOK /\ PlansAuthorized /\ SweepEntriesDue

\* The invariant as the lemmas below use it.
LEMMA Split == IInv <=> Core /\ Exclusion
  BY DEF IInv, Core, StoreInv, LocalOK, TypeOK

\* FLUSHDB deletes no entry of a record it leaves.
LEMMA BlindPlansSafe ==
    ASSUME IInv, NEW p \in Procs
    PROVE  BlindSafe(p)
<1> SUFFICES ASSUME plan[p].seen = Nothing, NEW e \in plan[p].unindex, ~On(plan[p].write, e[2])
             PROVE  meta[e[2]] # e[1]
  BY DEF BlindSafe
<1>1. p \in Clients /\ Flushing(p)
  BY DEF IInv, Exclusion, Conditional
<1>2. e[2] \in Keys /\ e[1] \in Deadlines \ {NoTtl}
  BY DEF IInv, TypeOK, Plan, Entries
<1>3. meta[e[2]] \in {Absent, NoTtl}
  BY <1>1, <1>2 DEF IInv, Exclusion, FlushSound
<1> QED
  BY <1>2, <1>3 DEF Deadlines, Absent, NoTtl

\* The command of an idle client is a command.
LEMMA IdleType == Idle \in Command /\ Idle.at = NoTtl
  BY ConstantsAssumption
  DEF Idle, Command, CommandNames, Conditions, Deadlines, NoTtl

\* The initial store is empty and nobody has planned anything.
LEMMA InitInv == Init => IInv
<1> SUFFICES ASSUME Init PROVE IInv
  OBVIOUS
<1>1. meta \in [Keys -> Meta]
  BY DEF Init, Meta
<1>2. Good(EmptyPlan, meta)
  BY <1>1, EmptyPlanGood
<1>3. StoreInv
  BY <1>1, <1>2 DEF Init, StoreInv, IndexCoversDeadlines, Entry, ObservationsCurrent,
     PlansKeepIndex, Good, NoTtl, Absent
<1>4. LocalOK
  BY ConstantsAssumption, IdleType
  DEF Init, LocalOK, PcValues, Entries, Deadlines, NoTtl
<1>5. PlansAuthorized /\ SweepEntriesDue
  BY DEF Init, PlansAuthorized, SweepEntriesDue, EmptyPlan, Procs
<1>6. Exclusion
  BY DEF Init, Exclusion, Conditional, HoldsLocks, KeepsDeadline, FlushSound, Flushing,
     EmptyPlan, Procs
<1> QED
  BY <1>3, <1>4, <1>5, <1>6, Split DEF Core

\* Any step of a client that leaves the others alone: what has to be shown of
\* the client's new plan and command.
LEMMA ClientFrame ==
    ASSUME IInv, NEW c \in Clients, NEW pcv \in PcValues \ {"sweep"}, NEW q,
           pc' = [pc EXCEPT ![c] = pcv],
           plan' = [plan EXCEPT ![c] = q],
           op' \in [Clients -> Command],
           \A d \in Clients : d # c => op'[d] = op[d],
           pcv = "idle" => q.write = Nothing,
           pcv \in {"lock", "entries", "write"} => WritesOnly(q, LocksOf(op'[c])),
           pcv = "lazy" => \A k \in Keys : On(q.write, k) =>
                              q.write[k] = Absent /\ Due(q.seen[k], now),
           UNCHANGED <<now, sweep, entry>>
    PROVE  PlansAuthorized' /\ SweepEntriesDue'
<1> USE DEF Procs
<1>1. c # Sweeper
  BY ConstantsAssumption
<1>2. /\ pc'[c] = pcv /\ \A p \in Procs : p # c => pc'[p] = pc[p]
      /\ plan'[c] = q /\ \A p \in Procs : p # c => plan'[p] = plan[p]
  BY ZenonT(30) DEF IInv, TypeOK
<1>3. SweepEntriesDue'
  BY ZenonT(30), <1>1, <1>2 DEF IInv, SweepEntriesDue, Due
<1>4. \A d \in Clients : pc'[d] = "idle" => plan'[d].write = Nothing
  BY <1>2 DEF IInv, PlansAuthorized
<1>5. ASSUME NEW d \in Clients, pc'[d] \in {"lock", "entries", "write"}
      PROVE  \A k \in Keys : On(plan'[d].write, k) => k \in LocksOf(op'[d])
  BY ZenonT(30), <1>2, <1>5 DEF IInv, PlansAuthorized, WritesOnly
<1>6. ASSUME NEW p \in Procs, pc'[p] \in {"lazy", "sweep"}
      PROVE  \A k \in Keys : On(plan'[p].write, k) =>
                plan'[p].write[k] = Absent /\ Due(plan'[p].seen[k], now')
  <2>1. CASE p = c
    <3>1. plan'[p] = q /\ pcv = "lazy" /\ now' = now
      BY <2>1, <1>2, <1>6
    <3> QED
      BY ZenonT(30), <3>1
  <2>2. CASE p # c
    <3>1. PlansAuthorized
      BY DEF IInv
    <3>2. pc[p] \in {"lazy", "sweep"} /\ plan'[p] = plan[p] /\ now' = now
      BY ZenonT(30), <2>2, <1>2, <1>6
    <3> QED
      BY ZenonT(30), <3>1, <3>2 DEF PlansAuthorized
  <2> QED
    BY <2>1, <2>2
<1>7. PlansAuthorized'
  BY <1>4, <1>5, <1>6 DEF PlansAuthorized, LocksOf, KeysOf, On, Nothing
<1> QED
  BY <1>3, <1>7

\* A command's own steps.
LEMMA ClientStepInv ==
    ASSUME IInv, NEW c \in Clients, Begin(c) \/ ClientStep(c)
    PROVE  Core'
<1> USE DEF Procs
<1>a. StoreInv /\ LocalOK /\ c \in Procs /\ c # Sweeper /\ NoOwner \notin Procs
  BY ZenonT(30), Split, ConstantsAssumption DEF Core
<1>b. Good(EmptyPlan, meta) /\ EmptyPlan.write = Nothing
  BY ZenonT(30), <1>a, EmptyPlanGood DEF StoreInv, EmptyPlan
<1>c. op[c] \in Command /\ plan[c] \in Plan /\ now \in Nat
  BY <1>a DEF LocalOK, StoreInv
<1>d. ASSUME op[c].cmd # "flush"
      PROVE  LET p == PlanOf(op[c], meta, now) IN Good(p, meta) /\ WritesOnly(p, LocksOf(op[c]))
  BY <1>a, <1>c, <1>d, PlanOfGood DEF StoreInv
<1>e. ASSUME Reply(c) PROVE
        /\ pc' = [pc EXCEPT ![c] = "idle"] /\ plan' = [plan EXCEPT ![c] = EmptyPlan]
        /\ pc' \in [Procs -> PcValues] /\ op' \in [Clients -> Command]
        /\ todo' \in [Clients -> SUBSET Keys]
        /\ lockedBy' \in [Keys -> Procs \cup {NoOwner}]
        /\ \A d \in Clients : d # c => op'[d] = op[d]
  BY <1>a, <1>e, IdleType DEF LocalOK, Reply, Release, PcValues
<1>f. ASSUME Reply(c), UNCHANGED <<now, sweep, entry>>
      PROVE  PlansAuthorized' /\ SweepEntriesDue'
  <2>1. /\ pc' = [pc EXCEPT ![c] = "idle"] /\ plan' = [plan EXCEPT ![c] = EmptyPlan]
        /\ op' \in [Clients -> Command]
        /\ \A d \in Clients : d # c => op'[d] = op[d]
    BY ZenonT(30), <1>e, <1>f
  <2> QED
    BY ZenonT(30), <2>1, <1>b, <1>f, ClientFrame DEF PcValues
<1>1. CASE Begin(c)
  <2>0. PICK o \in Commands :
        /\ op' = [op EXCEPT ![c] = o]
        /\ todo' = [todo EXCEPT ![c] = IF o.cmd \in Unlocked THEN {o.key} ELSE {}]
        /\ pc' = [pc EXCEPT ![c] = CASE o.cmd \in Unlocked -> "expire"
                                     [] o.cmd = "rename" -> "stage"
                                     [] OTHER -> "lock"]
    BY ZenonT(30), <1>1 DEF Begin
  <2> DEFINE v == CASE o.cmd \in Unlocked -> "expire"
                    [] o.cmd = "rename" -> "stage"
                    [] OTHER -> "lock"
  <2>1. o \in Command /\ o.key \in Keys /\ v \in {"expire", "stage", "lock"}
    BY ConstantsAssumption DEF Command, Unlocked
  <2>2. plan[c].write = Nothing /\ pc[c] = "idle"
    BY <1>1, <1>a DEF Begin, IInv, PlansAuthorized
  <2>3. /\ UNCHANGED <<now, meta, index, lockedBy, plan, stale, sweep, entry, nextDb, crashes>>
        /\ plan' = [plan EXCEPT ![c] = plan[c]]
    BY <1>1, <1>a DEF Begin, StoreInv
  <2>4. StoreInv'
    BY <2>3, <1>a, StoreUnchanged
  <2>5. LocalOK'
    BY ZenonT(30), <2>0, <2>1, <2>3, <1>a DEF LocalOK, PcValues
  <2>6. WritesOnly(plan[c], LocksOf(op'[c]))
    BY <2>2 DEF WritesOnly, On, Nothing
  <2>7. PlansAuthorized' /\ SweepEntriesDue'
    <3> HIDE DEF v
    <3>1. /\ v \in PcValues \ {"sweep"} /\ v # "lazy"
          /\ op' \in [Clients -> Command]
          /\ \A d \in Clients : d # c => op'[d] = op[d]
      BY <2>0, <2>1, <1>a DEF PcValues, LocalOK
    <3>2. pc' = [pc EXCEPT ![c] = v]
      BY <2>0 DEF v
    <3> QED
      BY ZenonT(30), <2>1, <2>2, <2>3, <2>6, <3>1, <3>2, ClientFrame DEF On, Nothing
  <2> QED
    BY <2>4, <2>5, <2>7 DEF Core
<1>2. ASSUME NEW next \in {"lock", "write"}, NEW p,
             Good(p, meta), WritesOnly(p, LocksOf(op[c])), Submit(c, p, next),
             UNCHANGED <<now, meta, index, sweep, entry, nextDb, crashes>>
      PROVE  Core'
  <2>1. CASE p = EmptyPlan /\ Reply(c) /\ UNCHANGED stale
    <3>1. StoreInv'
      BY ZenonT(30), <2>1, <1>2, <1>a, <1>b, <1>e, NewPlan
    <3>2. LocalOK'
      BY <2>1, <1>2, <1>a, <1>e DEF LocalOK
    <3>3. PlansAuthorized' /\ SweepEntriesDue'
      BY <2>1, <1>2, <1>f
    <3> QED
      BY ZenonT(30), <3>1, <3>2, <3>3 DEF Core
  <2>2. CASE /\ plan' = [plan EXCEPT ![c] = p]
             /\ stale' = [stale EXCEPT ![c] = FALSE]
             /\ pc' = [pc EXCEPT ![c] = next]
             /\ UNCHANGED <<op, todo, lockedBy>>
    <3>1. ~stale'[c]
      BY <2>2, <1>a DEF StoreInv
    <3>2. Good(p, meta) /\ WritesOnly(p, LocksOf(op'[c]))
      BY <2>2, <1>2
    <3>3. StoreInv'
      BY ZenonT(30), <2>2, <3>1, <3>2, <1>2, <1>a, NewPlan
    <3>4. LocalOK'
      BY <2>2, <1>2, <1>a DEF LocalOK, PcValues
    <3>5. next \in PcValues \ {"sweep"} /\ next # "lazy" /\ op' \in [Clients -> Command]
      BY <2>2, <1>a DEF PcValues, LocalOK
    <3>6. PlansAuthorized' /\ SweepEntriesDue'
      BY ZenonT(30), <2>2, <3>2, <3>5, <1>2, ClientFrame
    <3> QED
      BY <3>3, <3>4, <3>6 DEF Core
  <2> QED
    BY <1>2, <2>1, <2>2 DEF Submit
<1>3. CASE Stage(c)
  <2>1. /\ Submit(c, PlanOf(op[c], meta, now), "lock")
        /\ UNCHANGED <<now, meta, index, sweep, entry, nextDb, crashes>>
        /\ op[c].cmd # "flush"
    BY ZenonT(30), <1>3 DEF Stage
  <2> QED
    BY ZenonT(30), <2>1, <1>d, <1>2
<1>4. CASE Lock(c)
  <2>1. /\ UNCHANGED <<now, meta, index, plan, stale, sweep, entry, nextDb, crashes>>
        /\ pc[c] = "lock" /\ plan' = [plan EXCEPT ![c] = plan[c]]
    BY <1>4, <1>a DEF Lock, StoreInv
  <2>2. StoreInv'
    BY <2>1, <1>a, StoreUnchanged
  <2>3. /\ op'[c] \in Command
        /\ op' = [op EXCEPT ![c] = op'[c]]
        /\ op'[c].key = op[c].key /\ op'[c].to = op[c].to /\ op'[c].cmd = op[c].cmd
    BY <1>4, <1>a, <1>c DEF Lock, LocalOK, Command, Deadlines, NoTtl
  <2>4. op' \in [Clients -> Command] /\ \A d \in Clients : d # c => op'[d] = op[d]
    BY <2>3, <1>a DEF LocalOK
  <2>5. LocksOf(op'[c]) = LocksOf(op[c])
    BY <2>3 DEF LocksOf, KeysOf
  <2>6. todo' \in [Clients -> SUBSET Keys]
    BY <1>4, <1>a, <1>c DEF Lock, LocalOK, KeysOf, Command
  <2>7. lockedBy' \in [Keys -> Procs \cup {NoOwner}]
    BY <1>4, <1>a DEF Lock, Acquire, LocalOK
  <2> DEFINE v == IF op[c].cmd = "rename" THEN "write" ELSE "expire"
  <2>8. pc' = [pc EXCEPT ![c] = v] /\ v \in {"write", "expire"}
    BY ZenonT(30), <1>4 DEF Lock
  <2>9. LocalOK'
    BY ZenonT(30), <2>1, <2>4, <2>6, <2>7, <2>8, <1>a DEF LocalOK, PcValues
  <2>10. WritesOnly(plan[c], LocksOf(op'[c]))
    BY <2>1, <2>5 DEF IInv, PlansAuthorized, WritesOnly
  <2>12. PlansAuthorized' /\ SweepEntriesDue'
    <3> HIDE DEF v
    <3> QED
      BY ZenonT(30), <2>1, <2>4, <2>8, <2>10, ClientFrame DEF PcValues
  <2> QED
    BY <2>2, <2>9, <2>12 DEF Core
<1>5. CASE LazyCheck(c)
  <2>1. PICK k \in todo[c] :
          \/ /\ todo' = [todo EXCEPT ![c] = @ \ {k}]
             /\ UNCHANGED <<pc, plan, stale>>
          \/ /\ Due(meta[k], now)
             /\ plan' = [plan EXCEPT ![c] = DeletePlan({k}, meta)]
             /\ stale' = [stale EXCEPT ![c] = FALSE]
             /\ pc' = [pc EXCEPT ![c] = "lazy"]
             /\ UNCHANGED todo
    BY ZenonT(30), <1>5 DEF LazyCheck
  <2>2. /\ UNCHANGED <<now, meta, index, lockedBy, op, sweep, entry, nextDb, crashes>>
        /\ pc[c] = "expire" /\ k \in Keys
    BY ZenonT(30), <1>5, <1>a DEF LazyCheck, LocalOK
  <2>3. CASE UNCHANGED <<pc, plan, stale>> /\ todo' = [todo EXCEPT ![c] = @ \ {k}]
    <3>1. StoreInv'
      BY ZenonT(30), <2>2, <2>3, <1>a, StoreUnchanged
    <3>2. LocalOK'
      BY ZenonT(30), <2>2, <2>3, <1>a DEF LocalOK
    <3>3. PlansAuthorized' /\ SweepEntriesDue'
      BY ZenonT(30), <2>2, <2>3 DEF IInv, PlansAuthorized, SweepEntriesDue, Due, LocksOf, KeysOf, On, Nothing
    <3> QED
      BY <3>1, <3>2, <3>3 DEF Core
  <2>4. CASE /\ Due(meta[k], now)
             /\ plan' = [plan EXCEPT ![c] = DeletePlan({k}, meta)]
             /\ stale' = [stale EXCEPT ![c] = FALSE]
             /\ pc' = [pc EXCEPT ![c] = "lazy"]
             /\ UNCHANGED todo
    <3> DEFINE q == DeletePlan({k}, meta)
    <3>1. /\ Good(q, meta)
          /\ \A x \in Keys : On(q.write, x) => q.write[x] = Absent /\ Due(q.seen[x], now)
      <4>1. meta \in [Keys -> Meta] /\ {k} \in SUBSET Keys
        BY ZenonT(30), <2>2, <1>a DEF StoreInv
      <4>2. /\ Good(q, meta) /\ WritesOnly(q, {k})
            /\ \A x \in Keys : On(q.write, x) => q.write[x] = Absent /\ q.seen[x] = meta[x]
        BY ZenonT(30), <4>1, DeletePlanGood
      <4> QED
        BY ZenonT(30), <4>2, <2>4 DEF WritesOnly
    <3>2. ~stale'[c]
      BY ZenonT(30), <2>4, <1>a DEF StoreInv
    <3> HIDE DEF q
    <3>3. plan' = [plan EXCEPT ![c] = q]
      BY ZenonT(30), <2>4 DEF q
    <3>4. StoreInv'
      BY ZenonT(30), <2>2, <2>4, <3>1, <3>2, <3>3, <1>a, NewPlan
    <3>5. LocalOK'
      BY ZenonT(30), <2>2, <2>4, <1>a DEF LocalOK, PcValues
    <3>6. op' \in [Clients -> Command] /\ op' = op
      BY <2>2, <1>a DEF LocalOK
    <3>7. PlansAuthorized' /\ SweepEntriesDue'
      BY ZenonT(30), <2>2, <2>4, <3>1, <3>3, <3>6, ClientFrame DEF PcValues
    <3> QED
      BY <3>4, <3>5, <3>7 DEF Core
  <2> QED
    BY <2>1, <2>3, <2>4
<1>6. CASE LazyDelete(c)
  <2>1. /\ pc' = [pc EXCEPT ![c] = "expire"] /\ plan' = [plan EXCEPT ![c] = EmptyPlan]
        /\ UNCHANGED <<now, lockedBy, op, sweep, entry, nextDb, crashes>>
        /\ op' \in [Clients -> Command]
    BY <1>6, <1>a DEF LazyDelete, LocalOK
  <2>2. StoreInv'
    <3>1. CASE stale[c] /\ stale' = [stale EXCEPT ![c] = FALSE] /\ UNCHANGED <<meta, index, todo>>
      BY ZenonT(30), <3>1, <2>1, <1>a, <1>b, NewPlan
    <3>2. CASE ~stale[c] /\ Apply(plan[c], c)
      BY ZenonT(30), <3>2, <2>1, <1>a, ApplyPlan, BlindPlansSafe
    <3> QED
      BY <3>1, <3>2, <1>6 DEF LazyDelete
  <2>3. todo' \in [Clients -> SUBSET Keys]
    BY <1>6, <1>a DEF LazyDelete, LocalOK
  <2>4. LocalOK'
    BY <2>1, <2>3, <1>a DEF LocalOK, PcValues
  <2>5. PlansAuthorized' /\ SweepEntriesDue'
    BY ZenonT(30), <2>1, <1>b, ClientFrame DEF PcValues
  <2> QED
    BY <2>2, <2>4, <2>5 DEF Core
<1>7. CASE Decide(c)
  <2>1. CASE /\ todo' = [todo EXCEPT ![c] = {op[c].key}]
             /\ UNCHANGED <<op, pc, plan, stale, lockedBy>>
    <3>1. UNCHANGED <<now, meta, index, sweep, entry, nextDb, crashes>> /\ op[c].key \in Keys
      BY ZenonT(30), <1>7, <1>c DEF Decide, Command
    <3>2. StoreInv'
      BY ZenonT(30), <3>1, <2>1, <1>a, StoreUnchanged
    <3>3. LocalOK'
      BY ZenonT(30), <3>1, <2>1, <1>a DEF LocalOK
    <3>4. PlansAuthorized' /\ SweepEntriesDue'
      BY ZenonT(30), <3>1, <2>1 DEF IInv, PlansAuthorized, SweepEntriesDue, Due, LocksOf, KeysOf, On, Nothing
    <3> QED
      BY <3>2, <3>3, <3>4 DEF Core
  <2>2. CASE Submit(c, PlanOf(op[c], meta, now), "write")
    <3>1. UNCHANGED <<now, meta, index, sweep, entry, nextDb, crashes>> /\ op[c].cmd # "flush"
      BY ZenonT(30), <1>7 DEF Decide
    <3> QED
      BY ZenonT(30), <2>2, <3>1, <1>d, <1>2
  <2> QED
    BY ZenonT(30), <2>1, <2>2, <1>7 DEF Decide
<1>11. CASE FlushScan(c)
  <2> DEFINE q == FlushPlan(DbOf[op[c].key], meta, index)
  <2>1. /\ plan' = [plan EXCEPT ![c] = q]
        /\ stale' = [stale EXCEPT ![c] = FALSE]
        /\ pc' = [pc EXCEPT ![c] = "entries"]
        /\ op[c].cmd = "flush"
        /\ UNCHANGED <<now, meta, index, lockedBy, op, todo, sweep, entry, nextDb, crashes>>
    BY ZenonT(30), <1>11 DEF FlushScan
  <2>2. Good(q, meta)
    BY <1>a, FlushPlanGood DEF StoreInv
  <2>3. ~stale'[c]
    BY ZenonT(30), <2>1, <1>a DEF StoreInv
  <2>4. WritesOnly(q, LocksOf(op'[c]))
    BY <2>1 DEF WritesOnly, LocksOf
  <2> HIDE DEF q
  <2>5. StoreInv'
    BY ZenonT(30), <2>1, <2>2, <2>3, <1>a, NewPlan
  <2>6. LocalOK'
    BY <2>1, <1>a DEF LocalOK, PcValues
  <2>7. op' \in [Clients -> Command] /\ op' = op
    BY <2>1, <1>a DEF LocalOK
  <2>8. PlansAuthorized' /\ SweepEntriesDue'
    BY ZenonT(30), <2>1, <2>4, <2>7, ClientFrame DEF PcValues
  <2> QED
    BY <2>5, <2>6, <2>8 DEF Core
<1>12. CASE FlushEntries(c)
  <2> DEFINE q == [plan[c] EXCEPT !.unindex = @ \cup EntriesIn(DbOf[op[c].key], index)]
  <2>1. /\ Submit(c, q, "write") /\ pc[c] = "entries"
        /\ UNCHANGED <<now, meta, index, sweep, entry, nextDb, crashes>>
    BY ZenonT(30), <1>12 DEF FlushEntries
  <2>2. op[c].cmd = "flush" /\ plan[c].seen = Nothing
    BY <2>1 DEF IInv, Exclusion, FlushSound, Flushing
  <2>3. /\ q.seen = plan[c].seen /\ q.write = plan[c].write /\ q.reindex = plan[c].reindex
        /\ q.unindex = plan[c].unindex \cup EntriesIn(DbOf[op[c].key], index)
    BY <1>c DEF Plan
  <2>4. q \in Plan
    BY <1>a, <1>c DEF StoreInv, Plan, EntriesIn
  <2>5. KeepsIndex(q)
    BY <2>2, <2>3, <1>a DEF StoreInv, PlansKeepIndex, KeepsIndex
  <2>6. Good(q, meta)
    BY <2>2, <2>3, <2>4, <2>5 DEF Good, On, Nothing
  <2>7. WritesOnly(q, LocksOf(op[c]))
    BY <2>2 DEF WritesOnly, LocksOf
  <2> HIDE DEF q
  <2> QED
    BY ZenonT(30), <2>1, <2>6, <2>7, <1>2
<1>8. CASE Write(c)
  <2>1. StoreInv'
    BY ZenonT(30), <1>8, <1>a, <1>e, ApplyPlan, BlindPlansSafe DEF Write
  <2>2. LocalOK'
    BY ZenonT(30), <1>8, <1>a, <1>e DEF Write, LocalOK
  <2>3. PlansAuthorized' /\ SweepEntriesDue'
    BY ZenonT(30), <1>8, <1>f DEF Write
  <2> QED
    BY <2>1, <2>2, <2>3 DEF Core
<1>9. CASE Retry(c)
  <2>1. /\ pc' = [pc EXCEPT ![c] = "expire"] /\ plan' = [plan EXCEPT ![c] = EmptyPlan]
        /\ stale' = [stale EXCEPT ![c] = FALSE]
        /\ UNCHANGED <<now, meta, index, lockedBy, op, sweep, entry, nextDb, crashes>>
        /\ op' \in [Clients -> Command]
    BY <1>9, <1>a DEF Retry, LocalOK
  <2>2. StoreInv'
    BY ZenonT(30), <2>1, <1>a, <1>b, NewPlan
  <2>3. todo' \in [Clients -> SUBSET Keys]
    BY ZenonT(30), <1>9, <1>a, <1>c DEF Retry, LocalOK, KeysOf, Command
  <2>4. LocalOK'
    BY <2>1, <2>3, <1>a DEF LocalOK, PcValues
  <2>5. PlansAuthorized' /\ SweepEntriesDue'
    BY ZenonT(30), <2>1, <1>b, ClientFrame DEF PcValues
  <2> QED
    BY <2>2, <2>4, <2>5 DEF Core
<1>10. CASE GiveUp(c)
  <2>1. StoreInv'
    BY ZenonT(30), <1>10, <1>a, <1>b, <1>e, NewPlan DEF GiveUp
  <2>2. LocalOK'
    BY <1>10, <1>a, <1>e DEF GiveUp, LocalOK
  <2>3. PlansAuthorized' /\ SweepEntriesDue'
    BY ZenonT(30), <1>10, <1>f DEF GiveUp
  <2> QED
    BY <2>1, <2>2, <2>3 DEF Core
<1> QED
  BY <1>1, <1>3, <1>4, <1>5, <1>6, <1>7, <1>8, <1>9, <1>10, <1>11,
     <1>12 DEF ClientStep

\* Steps that leave the plans of every client and the store alone.
LEMMA SweeperFrame ==
    ASSUME IInv, NEW pcv \in {"idle", "next", "observe", "sweep"}, NEW q,
           pc' = [pc EXCEPT ![Sweeper] = pcv],
           plan' = [plan EXCEPT ![Sweeper] = q],
           pcv = "sweep" => \A k \in Keys : On(q.write, k) =>
                               q.write[k] = Absent /\ Due(q.seen[k], now),
           UNCHANGED <<now, op>>
    PROVE  PlansAuthorized' /\ pc'[Sweeper] = pcv
<1> USE DEF Procs
<1>1. \A c \in Clients : c # Sweeper
  BY ZenonT(30), ConstantsAssumption
<1>2. /\ pc'[Sweeper] = pcv /\ \A p \in Procs : p # Sweeper => pc'[p] = pc[p]
      /\ plan'[Sweeper] = q /\ \A p \in Procs : p # Sweeper => plan'[p] = plan[p]
  BY ZenonT(30) DEF IInv, TypeOK
<1>3. \A c \in Clients : pc'[c] = pc[c] /\ plan'[c] = plan[c]
  BY ZenonT(30), <1>1, <1>2
<1>4. ASSUME NEW p \in Procs, pc'[p] \in {"lazy", "sweep"}
      PROVE  \A k \in Keys : On(plan'[p].write, k) =>
                plan'[p].write[k] = Absent /\ Due(plan'[p].seen[k], now')
  <2>1. CASE p = Sweeper
    <3>1. plan'[p] = q /\ pcv = "sweep" /\ now' = now
      BY ZenonT(30), <2>1, <1>2, <1>4
    <3> QED
      BY ZenonT(30), <3>1
  <2>2. CASE p # Sweeper
    <3>1. PlansAuthorized
      BY DEF IInv
    <3>2. pc[p] \in {"lazy", "sweep"} /\ plan'[p] = plan[p] /\ now' = now
      BY <2>2, <1>2, <1>4
    <3> QED
      BY ZenonT(30), <3>1, <3>2 DEF PlansAuthorized
  <2> QED
    BY ZenonT(30), <2>1, <2>2
<1> QED
  BY ZenonT(30), <1>2, <1>3, <1>4 DEF IInv, PlansAuthorized, LocksOf, KeysOf, On, Nothing

\* The sweeper's own steps.
LEMMA SweeperStepInv ==
    ASSUME IInv, SweeperStep
    PROVE  Core'
<1> USE DEF Procs
<1>a. StoreInv /\ LocalOK /\ SweepEntriesDue /\ Sweeper \in Procs /\ NoOwner \notin Procs
  BY Split, ConstantsAssumption DEF Core
<1>b. plan = [plan EXCEPT ![Sweeper] = plan[Sweeper]] /\ now \in Nat
  BY <1>a DEF StoreInv, LocalOK
<1>c. ASSUME UNCHANGED <<meta, index, plan, stale>> PROVE StoreInv'
  BY <1>a, <1>c, StoreUnchanged
<1>d. ASSUME Release(Sweeper) PROVE lockedBy' \in [Keys -> Procs \cup {NoOwner}]
  BY ZenonT(30), <1>a, <1>d DEF LocalOK, Release
<1>1. CASE SweepScan
  <2>1. /\ pc' = [pc EXCEPT ![Sweeper] = "next"]
        /\ UNCHANGED <<now, meta, index, lockedBy, op, todo, plan, stale, entry, crashes>>
    BY ZenonT(30), <1>1 DEF SweepScan
  <2>2. PICK B \in SUBSET {e \in index : e[1] <= now} :
          /\ sweep' = B
          /\ \E last \in B : nextDb' = IF Cardinality(B) = BatchSize
                                       THEN DbAfter(DbOf[last[2]]) ELSE nextDb
    BY <1>1 DEF SweepScan
  <2>3. sweep' \subseteq Entries /\ \A e \in sweep' : e[1] <= now
    BY ZenonT(30), <2>2, <1>a DEF StoreInv
  <2>4. nextDb' \in 0 .. NumDbs - 1
    <3>1. PICK last \in B : nextDb' \in {DbAfter(DbOf[last[2]]), nextDb}
      BY <2>2
    <3>2. last[2] \in Keys
      BY <2>2, <2>3 DEF Entries
    <3>3. DbOf[last[2]] \in 0 .. NumDbs - 1 /\ NumDbs \in Nat /\ NumDbs > 0
      BY <3>2, ConstantsAssumption
    <3>4. DbAfter(DbOf[last[2]]) \in 0 .. NumDbs - 1
      BY <3>3 DEF DbAfter
    <3> QED
      BY <3>1, <3>4, <1>a DEF LocalOK
  <2>5. LocalOK'
    BY <2>1, <2>3, <2>4, <1>a DEF LocalOK, PcValues
  <2>6. PlansAuthorized' /\ pc'[Sweeper] = "next"
    BY ZenonT(30), <2>1, <1>b, SweeperFrame
  <2> QED
    BY ZenonT(30), <2>1, <2>3, <2>5, <2>6, <1>c DEF Core, SweepEntriesDue
<1>2. CASE \E e \in sweep : SweepLock(e)
  <2>1. PICK e \in sweep : SweepLock(e)
    BY <1>2
  <2>2. /\ pc' = [pc EXCEPT ![Sweeper] = "observe"] /\ sweep' = sweep \ {e} /\ entry' = e
        /\ UNCHANGED <<now, meta, index, op, todo, plan, stale, nextDb, crashes>>
    BY ZenonT(30), <2>1 DEF SweepLock
  <2>3. lockedBy' \in [Keys -> Procs \cup {NoOwner}]
    BY <2>1, <1>a DEF SweepLock, Acquire, LocalOK
  <2>4. e \in Entries /\ e[1] <= now
    BY <1>a DEF LocalOK, SweepEntriesDue
  <2>5. entry' \in Deadlines \X Keys /\ Due(entry'[1], now)
    BY <2>2, <2>4, <1>b DEF Entries, Due, Deadlines, NoTtl
  <2>6. LocalOK'
    BY <2>2, <2>3, <2>5, <1>a DEF LocalOK, PcValues
  <2>7. PlansAuthorized' /\ pc'[Sweeper] = "observe"
    BY ZenonT(30), <2>2, <1>b, SweeperFrame
  <2>8. SweepEntriesDue'
    BY ZenonT(30), <2>2, <2>5, <2>7, <1>a DEF SweepEntriesDue, Due
  <2> QED
    BY <2>2, <2>6, <2>7, <2>8, <1>c DEF Core
<1>3. CASE \E k \in Keys : SweepObserve(k)
  <2> DEFINE q == SweepPlan(entry, meta)
  <2>1. /\ pc[Sweeper] = "observe"
        /\ plan' = [plan EXCEPT ![Sweeper] = q]
        /\ stale' = [stale EXCEPT ![Sweeper] = FALSE]
        /\ pc' = [pc EXCEPT ![Sweeper] = "sweep"]
        /\ UNCHANGED <<now, meta, index, lockedBy, op, todo, sweep, entry, nextDb, crashes>>
    BY ZenonT(30), <1>3 DEF SweepObserve
  <2>2. Due(entry[1], now) /\ entry \in Entries
    BY <2>1, <1>a, <1>b DEF SweepEntriesDue, LocalOK, Entries, Due, Deadlines, NoTtl
  <2>3. /\ Good(q, meta)
        /\ \A k \in Keys : On(q.write, k) => q.write[k] = Absent /\ Due(q.seen[k], now)
    BY ZenonT(30), <2>2, <1>a, SweepPlanGood DEF StoreInv
  <2>4. ~stale'[Sweeper]
    BY ZenonT(30), <2>1, <1>a DEF StoreInv
  <2> HIDE DEF q
  <2>5. StoreInv'
    BY ZenonT(30), <2>1, <2>3, <2>4, <1>a, NewPlan
  <2>6. LocalOK'
    BY <2>1, <1>a DEF LocalOK, PcValues
  <2>7. PlansAuthorized' /\ pc'[Sweeper] = "sweep"
    BY ZenonT(30), <2>1, <2>3, SweeperFrame
  <2>8. SweepEntriesDue'
    BY ZenonT(30), <2>1, <2>7, <1>a DEF SweepEntriesDue
  <2> QED
    BY ZenonT(30), <2>5, <2>6, <2>7, <2>8 DEF Core
<1>4. CASE SweepSkip
  <2>1. /\ pc' = [pc EXCEPT ![Sweeper] = "next"] /\ Release(Sweeper)
        /\ UNCHANGED <<now, meta, index, op, todo, plan, stale, sweep, entry, nextDb, crashes>>
    BY ZenonT(30), <1>4 DEF SweepSkip
  <2>2. LocalOK'
    BY ZenonT(30), <2>1, <1>a, <1>d DEF LocalOK, PcValues
  <2>3. PlansAuthorized' /\ pc'[Sweeper] = "next"
    BY <2>1, <1>b, SweeperFrame
  <2>4. SweepEntriesDue'
    BY ZenonT(30), <2>1, <2>3, <1>a DEF SweepEntriesDue
  <2> QED
    BY <2>1, <2>2, <2>3, <2>4, <1>c DEF Core
<1>5. CASE SweepCommit
  <2>1. /\ pc' = [pc EXCEPT ![Sweeper] = "next"] /\ Release(Sweeper)
        /\ plan' = [plan EXCEPT ![Sweeper] = EmptyPlan]
        /\ UNCHANGED <<now, op, todo, sweep, entry, nextDb, crashes>>
    BY <1>5 DEF SweepCommit
  <2>2. StoreInv'
    <3>1. CASE UNCHANGED <<meta, index>> /\ stale' = [stale EXCEPT ![Sweeper] = FALSE]
      <4>1. Good(EmptyPlan, meta)
        BY <1>a, EmptyPlanGood DEF StoreInv
      <4> QED
        BY ZenonT(30), <3>1, <4>1, <2>1, <1>a, NewPlan
    <3>2. CASE ~stale[Sweeper] /\ Apply(plan[Sweeper], Sweeper)
      BY ZenonT(30), <3>2, <2>1, <1>a, ApplyPlan, BlindPlansSafe
    <3> QED
      BY <3>1, <3>2, <1>5 DEF SweepCommit
  <2>3. LocalOK'
    BY <2>1, <1>a, <1>d DEF LocalOK, PcValues
  <2>4. PlansAuthorized' /\ pc'[Sweeper] = "next"
    BY ZenonT(30), <2>1, SweeperFrame
  <2>5. SweepEntriesDue'
    BY ZenonT(30), <2>1, <2>4, <1>a DEF SweepEntriesDue
  <2> QED
    BY ZenonT(30), <2>2, <2>3, <2>4, <2>5 DEF Core
<1>6. CASE SweepDone
  <2>1. /\ pc' = [pc EXCEPT ![Sweeper] = "idle"]
        /\ UNCHANGED <<now, meta, index, lockedBy, op, todo, plan, stale, sweep, entry, nextDb, crashes>>
    BY ZenonT(30), <1>6 DEF SweepDone
  <2>2. LocalOK'
    BY ZenonT(30), <2>1, <1>a DEF LocalOK, PcValues
  <2>3. PlansAuthorized' /\ pc'[Sweeper] = "idle"
    BY ZenonT(30), <2>1, <1>b, SweeperFrame
  <2>4. SweepEntriesDue'
    BY <2>1, <2>3, <1>a DEF SweepEntriesDue
  <2> QED
    BY ZenonT(30), <2>1, <2>2, <2>3, <2>4, <1>c DEF Core
<1> QED
  BY <1>1, <1>2, <1>3, <1>4, <1>5, <1>6 DEF SweeperStep

\* Time only makes more records due; a crash loses only what tasks hold.
LEMMA OtherStepInv ==
    ASSUME IInv, Tick \/ Crash \/ UNCHANGED vars
    PROVE  Core'
<1> USE DEF Procs
<1>a. StoreInv /\ LocalOK /\ PlansAuthorized /\ SweepEntriesDue /\ now \in Nat
  BY Split DEF Core, LocalOK
<1>b. ASSUME UNCHANGED <<meta, index, plan, stale>> PROVE StoreInv'
  BY ZenonT(30), <1>a, <1>b, StoreUnchanged
<1>1. CASE Tick
  <2>1. /\ now' = now + 1
        /\ UNCHANGED <<meta, index, lockedBy, pc, op, todo, plan, stale, sweep, entry,
                       nextDb, crashes>>
    BY <1>1 DEF Tick
  <2>2. LocalOK'
    BY <2>1, <1>a DEF LocalOK
  <2>3. \A p \in Procs : plan[p].seen \in [Keys -> Int]
    BY <1>a DEF StoreInv, Plan, Records, Meta, Deadlines, Absent, Unset
  <2>4. \A d \in Int : Due(d, now) => Due(d, now')
    BY <2>1, <1>a DEF Due, NoTtl
  <2>5. PlansAuthorized'
    BY <2>1, <2>3, <2>4, <1>a DEF PlansAuthorized, LocksOf, KeysOf, On, Nothing
  <2>6. \A e \in sweep : e[1] \in Int
    BY <1>a DEF LocalOK, Entries, Deadlines
  <2>7. SweepEntriesDue'
    BY <2>1, <2>4, <2>6, <1>a DEF SweepEntriesDue, LocalOK, Deadlines
  <2> QED
    BY ZenonT(30), <2>1, <2>2, <2>5, <2>7, <1>b DEF Core
<1>2. CASE Crash
  <2>1. /\ plan' = [p \in Procs |-> EmptyPlan] /\ stale' = [p \in Procs |-> FALSE]
        /\ pc' = [p \in Procs |-> "idle"]
        /\ UNCHANGED <<now, meta, index, entry>>
    BY ZenonT(30), <1>2 DEF Crash
  <2>2. Good(EmptyPlan, meta) /\ EmptyPlan.write = Nothing
    BY ZenonT(30), <1>a, EmptyPlanGood DEF StoreInv, EmptyPlan
  <2>3. StoreInv'
    BY ZenonT(30), <2>1, <2>2, <1>a DEF StoreInv, Good, IndexCoversDeadlines, ObservationsCurrent,
       PlansKeepIndex, KeepsIndex
  <2>4. LocalOK'
    <3>1. op' \in [Clients -> Command] /\ todo' \in [Clients -> SUBSET Keys]
      BY ZenonT(30), <1>2, IdleType DEF Crash
    <3>2. nextDb' \in 0 .. NumDbs - 1 /\ crashes' \in 0 .. MaxCrashes
      BY <1>2, <1>a, ConstantsAssumption DEF Crash, LocalOK
    <3>3. pc' \in [Procs -> PcValues] /\ lockedBy' \in [Keys -> Procs \cup {NoOwner}]
      BY ZenonT(30), <1>2 DEF Crash, PcValues
    <3>4. now' \in Nat /\ sweep' \subseteq Entries /\ entry' \in Deadlines \X Keys
      BY ZenonT(30), <1>2, <1>a DEF Crash, LocalOK
    <3> QED
      BY ZenonT(30), <3>1, <3>2, <3>3, <3>4 DEF LocalOK
  <2>5. PlansAuthorized'
    BY ZenonT(30), <2>1, <2>2 DEF PlansAuthorized, Nothing
  <2>6. SweepEntriesDue'
    BY ZenonT(30), <1>2, <2>1 DEF Crash, SweepEntriesDue
  <2> QED
    BY ZenonT(30), <2>3, <2>4, <2>5, <2>6 DEF Core
<1>3. CASE UNCHANGED vars
  <2>1. StoreInv'
    BY ZenonT(30), <1>3, <1>b DEF vars
  <2>2. LocalOK'
    BY ZenonT(30), <1>3, <1>a DEF vars, LocalOK
  <2>3. PlansAuthorized'
    BY ZenonT(30), <1>3, <1>a DEF vars, PlansAuthorized, LocksOf, KeysOf
  <2>4. SweepEntriesDue'
    BY <1>3, <1>a DEF vars, SweepEntriesDue
  <2> QED
    BY <2>1, <2>2, <2>3, <2>4 DEF Core
<1> QED
  BY ZenonT(30), <1>1, <1>2, <1>3

-----------------------------------------------------------------------------
(* FLUSHDB and the others.                                                 *)

\* A step of task p: the others keep their plans, commands and locks, and a
\* record that changes while another task's FLUSHDB runs is left without a
\* deadline.
LEMMA ExclusionFrame ==
    ASSUME IInv, NEW p \in Procs,
           \A x \in Procs : x # p => pc'[x] = pc[x] /\ plan'[x] = plan[x],
           \A x \in Clients : x # p => op'[x] = op[x],
           \A k \in Keys : lockedBy[k] \in Procs /\ lockedBy[k] # p => lockedBy'[k] = lockedBy[k],
           \A x \in Clients : x # p /\ Flushing(x) =>
               \A k \in Keys : meta'[k] \in {meta[k], Absent, NoTtl},
           Conditional(p)',
           p \in Clients => HoldsLocks(p)' /\ KeepsDeadline(p)' /\ FlushSound(p)'
    PROVE  Exclusion'
<1> USE DEF Procs
<1>0. Exclusion
  BY DEF IInv
<1>1. ASSUME NEW x \in Procs, x # p PROVE Conditional(x)'
  BY <1>0, <1>1 DEF Exclusion, Conditional, Flushing, Nothing
<1>2. ASSUME NEW x \in Clients, x # p PROVE HoldsLocks(x)'
  <2>1. pc'[x] = pc[x] /\ op'[x] = op[x]
    BY <1>2
  <2>2. LocksOf(op[x]) \subseteq Keys
    <3>1. op[x] \in Command
      BY ZenonT(30) DEF IInv, TypeOK
    <3> QED
      BY <3>1 DEF LocksOf, KeysOf, Command
  <2> SUFFICES ASSUME pc[x] \in {"expire", "lazy", "entries", "write"}, op[x].cmd \notin Unlocked,
                      NEW k \in LocksOf(op[x])
               PROVE  lockedBy'[k] = x
    BY <2>1 DEF HoldsLocks, LocksOf, KeysOf, Unlocked
  <2>3. lockedBy[k] = x
    BY <1>0 DEF Exclusion, HoldsLocks
  <2> QED
    BY <1>2, <2>2, <2>3
<1>3. ASSUME NEW x \in Clients, x # p PROVE KeepsDeadline(x)'
  <2>1. pc'[x] = pc[x] /\ op'[x] = op[x] /\ plan'[x] = plan[x] /\ KeepsDeadline(x)
    BY <1>0, <1>3 DEF Exclusion
  <2> QED
    BY <2>1 DEF KeepsDeadline, On, Unlocked
<1>4. ASSUME NEW x \in Clients, x # p PROVE FlushSound(x)'
  <2>1. pc'[x] = pc[x] /\ op'[x] = op[x] /\ plan'[x] = plan[x] /\ FlushSound(x)
    BY <1>0, <1>4 DEF Exclusion
  <2>2. Flushing(x)' = Flushing(x)
    BY <2>1 DEF Flushing
  <2>3. ASSUME Flushing(x), NEW k \in Keys, DbOf[k] = DbOf[op[x].key], ~On(plan[x].write, k)
        PROVE  meta'[k] \in {Absent, NoTtl}
    <3>1. meta[k] \in {Absent, NoTtl}
      BY <2>1, <2>3 DEF FlushSound
    <3>2. meta'[k] \in {meta[k], Absent, NoTtl}
      BY <1>4, <2>3
    <3> QED
      BY <3>1, <3>2
  <2>4. /\ pc[x] = "entries" => op[x].cmd = "flush"
        /\ Flushing(x) => plan[x].seen = Nothing
        /\ Flushing(x) => \A e \in plan[x].unindex : DbOf[e[2]] = DbOf[op[x].key]
    BY <2>1 DEF FlushSound
  <2> HIDE DEF Procs
  <2>5. (pc[x] = "entries" => op[x].cmd = "flush")'
    BY <2>1, <2>4
  <2>6. ASSUME Flushing(x)
        PROVE  /\ plan'[x].seen = Nothing
               /\ \A e \in plan'[x].unindex : DbOf[e[2]] = DbOf[op'[x].key]
               /\ \A k \in Keys : DbOf[k] = DbOf[op'[x].key] /\ ~On(plan'[x].write, k) =>
                     meta'[k] \in {Absent, NoTtl}
    BY <2>1, <2>3, <2>4, <2>6
  <2> QED
    BY <2>2, <2>5, <2>6 DEF FlushSound, On, Nothing
<1> QED
  BY <1>1, <1>2, <1>3, <1>4 DEF Exclusion

\* A batch that deletes due records leaves nothing with a deadline that had
\* none.
LEMMA ExpiryDeletes ==
    ASSUME IInv, NEW p \in Procs, pc[p] \in {"lazy", "sweep"}, Apply(plan[p], p)
    PROVE  \A k \in Keys : meta'[k] \in {meta[k], Absent, NoTtl}
<1>1. \A k \in Keys : On(plan[p].write, k) => plan[p].write[k] = Absent
  BY ZenonT(30) DEF IInv, PlansAuthorized
<1> QED
  BY <1>1 DEF Apply

\* The batch of a command, while another task's FLUSHDB holds every lock: it is
\* INCRBY's.
LEMMA WriteBesideFlush ==
    ASSUME IInv, NEW c \in Clients, pc[c] = "write", ~stale[c], Apply(plan[c], c),
           NEW x \in Clients, x # c, Flushing(x)
    PROVE  \A k \in Keys : meta'[k] \in {meta[k], Absent, NoTtl}
<1> SUFFICES ASSUME NEW k \in Keys, On(plan[c].write, k)
             PROVE  plan[c].write[k] \in {meta[k], NoTtl}
  BY DEF Apply
<1>1. k \in LocksOf(op[c])
  BY ZenonT(30) DEF IInv, PlansAuthorized
<1>2. lockedBy[k] = x
  <2>1. op[x].cmd = "flush" /\ pc[x] \in {"entries", "write"} /\ HoldsLocks(x)
    BY DEF IInv, Exclusion, Flushing
  <2> QED
    BY <2>1 DEF HoldsLocks, LocksOf, Unlocked
<1>3. HoldsLocks(c) /\ KeepsDeadline(c)
  BY DEF IInv, Exclusion
<1>4. op[c].cmd \in Unlocked
  BY <1>1, <1>2, <1>3 DEF HoldsLocks
<1>5. On(plan[c].seen, k) /\ plan[c].write[k] \in {plan[c].seen[k], NoTtl}
  BY <1>3, <1>4 DEF KeepsDeadline
<1>6. plan[c].seen[k] = meta[k]
  BY ZenonT(30), <1>5 DEF IInv, ObservationsCurrent, Procs
<1> QED
  BY <1>5, <1>6

\* The commands' steps.
LEMMA ClientExclusion ==
    ASSUME IInv, NEW c \in Clients, Begin(c) \/ ClientStep(c)
    PROVE  Exclusion'
<1>a. /\ c \in Procs /\ Clients \subseteq Procs /\ NoOwner \notin Procs
      /\ pc \in [Procs -> PcValues] /\ plan \in [Procs -> Plan] /\ op \in [Clients -> Command]
      /\ lockedBy \in [Keys -> Procs \cup {NoOwner}]
      /\ meta \in [Keys -> Meta] /\ index \in SUBSET Entries /\ now \in Nat
      /\ op[c] \in Command
  BY ZenonT(30), ConstantsAssumption DEF IInv, TypeOK, Procs
<1>b. Conditional(c) /\ HoldsLocks(c) /\ KeepsDeadline(c) /\ FlushSound(c)
  BY <1>a DEF IInv, Exclusion
<1>c. Guarded(EmptyPlan) /\ EmptyPlan.write = Nothing
  BY <1>a, EmptyPlanGood DEF EmptyPlan
<1>d. ASSUME NEW v, NEW q, pc' = [pc EXCEPT ![c] = v], plan' = [plan EXCEPT ![c] = q]
      PROVE  /\ \A x \in Procs : x # c => pc'[x] = pc[x] /\ plan'[x] = plan[x]
             /\ pc'[c] = v /\ plan'[c] = q
  BY <1>a, <1>d
<1>e. ASSUME Guarded(plan'[c]) PROVE Conditional(c)'
  BY <1>e DEF Conditional, Guarded, Nothing
<1>f. ASSUME op' = op \/ \E o : op' = [op EXCEPT ![c] = o]
      PROVE  \A x \in Clients : x # c => op'[x] = op[x]
  BY <1>a, <1>f
<1>g. ASSUME lockedBy' = lockedBy \/ Release(c)
      PROVE  \A k \in Keys : lockedBy[k] \in Procs /\ lockedBy[k] # c => lockedBy'[k] = lockedBy[k]
  BY <1>a, <1>g DEF Release
<1>h. ASSUME meta' = meta
      PROVE  \A x \in Clients : x # c /\ Flushing(x) =>
                 \A k \in Keys : meta'[k] \in {meta[k], Absent, NoTtl}
  BY <1>h
<1>r. ASSUME Reply(c),
             \A x \in Clients : x # c /\ Flushing(x) =>
                 \A k \in Keys : meta'[k] \in {meta[k], Absent, NoTtl}
      PROVE  Exclusion'
  <2>1. /\ pc' = [pc EXCEPT ![c] = "idle"] /\ plan' = [plan EXCEPT ![c] = EmptyPlan]
        /\ op' = [op EXCEPT ![c] = Idle] /\ Release(c)
    BY ZenonT(30), <1>r DEF Reply
  <2>2. pc'[c] = "idle" /\ plan'[c] = EmptyPlan
    BY <2>1, <1>d
  <2>3. HoldsLocks(c)' /\ KeepsDeadline(c)' /\ FlushSound(c)'
    BY <2>2 DEF HoldsLocks, KeepsDeadline, FlushSound, Flushing
  <2>4. Conditional(c)'
    BY <2>2, <1>c, <1>e
  <2>5. \A x \in Clients : x # c => op'[x] = op[x]
    BY <2>1, <1>f
  <2> QED
    BY ZenonT(60), <2>1, <2>3, <2>4, <2>5, <1>a, <1>d, <1>g, <1>r, ExclusionFrame
<1>1. CASE Begin(c)
  <2>1. PICK o \in Commands :
        /\ op' = [op EXCEPT ![c] = o]
        /\ pc' = [pc EXCEPT ![c] = CASE o.cmd \in Unlocked -> "expire"
                                     [] o.cmd = "rename" -> "stage"
                                     [] OTHER -> "lock"]
    BY ZenonT(30), <1>1 DEF Begin
  <2>2. /\ UNCHANGED <<meta, lockedBy, plan>> /\ pc[c] = "idle"
    BY ZenonT(30), <1>1 DEF Begin
  <2>3. op'[c] = o /\ \A x \in Clients : x # c => op'[x] = op[x]
    BY <2>1, <1>a
  <2>4. /\ \A x \in Procs : x # c => pc'[x] = pc[x] /\ plan'[x] = plan[x]
        /\ pc'[c] \in {"stage", "lock"} \/ (pc'[c] = "expire" /\ o.cmd \in Unlocked)
    BY <2>1, <2>2, <1>a
  <2>5. HoldsLocks(c)' /\ KeepsDeadline(c)' /\ FlushSound(c)'
    BY <2>3, <2>4 DEF HoldsLocks, KeepsDeadline, FlushSound, Flushing
  <2>6. Conditional(c)'
    <3>1. Guarded(plan[c])
      BY <2>2, <1>b DEF Conditional, Guarded, Flushing
    <3> QED
      BY <3>1, <2>2, <1>e
  <2> QED
    BY ZenonT(60), <2>2, <2>3, <2>4, <2>5, <2>6, <1>a, <1>g, <1>h, ExclusionFrame
<1>2. ASSUME NEW next \in {"lock", "write"}, NEW p, Submit(c, p, next), UNCHANGED meta,
             next = "write" => pc[c] \in {"expire", "entries"},
             \/ /\ op[c].cmd # "flush" /\ Guarded(p)
                /\ op[c].cmd \in Unlocked => \A k \in Keys : On(p.write, k) =>
                      On(p.seen, k) /\ p.write[k] \in {p.seen[k], NoTtl}
             \/ /\ op[c].cmd = "flush" /\ next = "write" /\ p.seen = Nothing
                /\ \A e \in p.unindex : DbOf[e[2]] = DbOf[op[c].key]
                /\ \A k \in Keys : DbOf[k] = DbOf[op[c].key] /\ ~On(p.write, k) =>
                      meta[k] \in {Absent, NoTtl}
      PROVE  Exclusion'
  <2>1. CASE Reply(c)
    BY <2>1, <1>2, <1>h, <1>r
  <2>2. CASE /\ plan' = [plan EXCEPT ![c] = p]
             /\ pc' = [pc EXCEPT ![c] = next]
             /\ UNCHANGED <<op, todo, lockedBy>>
    <3>1. /\ \A x \in Procs : x # c => pc'[x] = pc[x] /\ plan'[x] = plan[x]
          /\ pc'[c] = next /\ plan'[c] = p
      BY <2>2, <1>d
    <3>2. op' = op /\ lockedBy' = lockedBy /\ meta' = meta
      BY <2>2, <1>2
    <3>3. \A x \in Clients : x # c => op'[x] = op[x]
      BY <3>2
    <3>4. HoldsLocks(c)'
      BY <3>1, <3>2, <1>2, <1>b DEF HoldsLocks, LocksOf, KeysOf, Unlocked
    <3>5. KeepsDeadline(c)'
      BY <3>1, <3>2, <1>2 DEF KeepsDeadline, Unlocked, On
    <3>6. FlushSound(c)'
      <4>1. pc'[c] # "entries"
        BY <3>1, <1>2
      <4>2. CASE op[c].cmd # "flush"
        BY <4>1, <4>2, <3>2 DEF FlushSound, Flushing
      <4>3. CASE op[c].cmd = "flush"
        BY <4>1, <4>3, <3>1, <3>2, <1>2 DEF FlushSound, On, Nothing
      <4> QED
        BY <4>2, <4>3
    <3>7. Conditional(c)'
      <4>1. CASE Guarded(p)
        BY <4>1, <3>1, <1>e
      <4>2. CASE op[c].cmd = "flush" /\ next = "write"
        BY <4>2, <3>1, <3>2 DEF Conditional, Flushing
      <4> QED
        BY <4>1, <4>2, <1>2
    <3> QED
      BY ZenonT(60), <3>1, <3>2, <3>3, <3>4, <3>5, <3>6, <3>7, <1>a, <1>g, <1>h, ExclusionFrame
  <2> QED
    BY ZenonT(30), <1>2, <2>1, <2>2 DEF Submit
<1>3. ASSUME op[c].cmd # "flush"
      PROVE  LET p == PlanOf(op[c], meta, now) IN
             /\ Guarded(p)
             /\ op[c].cmd \in Unlocked => \A k \in Keys : On(p.write, k) =>
                   On(p.seen, k) /\ p.write[k] \in {p.seen[k], NoTtl}
  BY <1>3, <1>a, PlanOfGood, UnlockedPlan
<1>4. CASE Stage(c)
  <2>1. /\ Submit(c, PlanOf(op[c], meta, now), "lock") /\ UNCHANGED meta /\ op[c].cmd # "flush"
    BY ZenonT(30), <1>4 DEF Stage
  <2> QED
    BY ZenonT(60), <2>1, <1>2, <1>3
<1>5. CASE Lock(c)
  <2>1. /\ pc[c] = "lock" /\ Acquire(LocksOf(op[c]), c) /\ UNCHANGED <<meta, plan>>
        /\ pc' = [pc EXCEPT ![c] = IF op[c].cmd = "rename" THEN "write" ELSE "expire"]
    BY ZenonT(30), <1>5 DEF Lock
  <2>2. /\ op'[c].cmd = op[c].cmd /\ op'[c].key = op[c].key /\ op'[c].to = op[c].to
        /\ \A x \in Clients : x # c => op'[x] = op[x]
    BY <1>5, <1>a DEF Lock, Command
  <2>3. /\ \A x \in Procs : x # c => pc'[x] = pc[x] /\ plan'[x] = plan[x]
        /\ pc'[c] = IF op[c].cmd = "rename" THEN "write" ELSE "expire"
        /\ plan'[c] = plan[c]
    BY <2>1, <1>a
  <2>4. /\ \A k \in LocksOf(op[c]) : k \in Keys /\ lockedBy'[k] = c
        /\ \A k \in Keys : lockedBy[k] \in Procs /\ lockedBy[k] # c => lockedBy'[k] = lockedBy[k]
    <3>1. LocksOf(op[c]) \subseteq Keys
      BY <1>a DEF LocksOf, KeysOf, Command
    <3> QED
      BY <3>1, <2>1, <1>a DEF Acquire
  <2>5. HoldsLocks(c)'
    BY <2>2, <2>4 DEF HoldsLocks, LocksOf, KeysOf
  <2>6. KeepsDeadline(c)' /\ FlushSound(c)'
    BY <2>2, <2>3 DEF KeepsDeadline, FlushSound, Flushing, Unlocked
  <2>7. Conditional(c)'
    <3>1. Guarded(plan[c])
      BY <2>1, <1>b DEF Conditional, Guarded, Flushing
    <3> QED
      BY <3>1, <2>3, <1>e
  <2> QED
    BY ZenonT(60), <2>1, <2>2, <2>3, <2>4, <2>5, <2>6, <2>7, <1>a, <1>h, ExclusionFrame
\* Steps that stay in the lazy expiry of the command.
<1>6. ASSUME UNCHANGED <<op, lockedBy>>, pc[c] \in {"expire", "lazy", "write"},
             pc'[c] \in {"expire", "lazy"}, Guarded(plan'[c]),
             \A x \in Procs : x # c => pc'[x] = pc[x] /\ plan'[x] = plan[x],
             \A x \in Clients : x # c /\ Flushing(x) =>
                 \A k \in Keys : meta'[k] \in {meta[k], Absent, NoTtl}
      PROVE  Exclusion'
  <2>1. HoldsLocks(c)'
    BY <1>6, <1>b DEF HoldsLocks, LocksOf, KeysOf, Unlocked
  <2>2. KeepsDeadline(c)' /\ FlushSound(c)'
    BY <1>6 DEF KeepsDeadline, FlushSound, Flushing
  <2>3. Conditional(c)'
    BY <1>6, <1>e
  <2>4. \A x \in Clients : x # c => op'[x] = op[x]
    BY <1>6
  <2> QED
    BY ZenonT(60), <2>1, <2>2, <2>3, <2>4, <1>6, <1>a, <1>g, ExclusionFrame
<1>7. CASE LazyCheck(c)
  <2>1. PICK k \in todo[c] :
          \/ UNCHANGED <<pc, plan>>
          \/ /\ plan' = [plan EXCEPT ![c] = DeletePlan({k}, meta)]
             /\ pc' = [pc EXCEPT ![c] = "lazy"]
    BY ZenonT(30), <1>7 DEF LazyCheck
  <2>2. UNCHANGED <<meta, op, lockedBy>> /\ pc[c] = "expire"
    BY ZenonT(30), <1>7 DEF LazyCheck
  <2>3. CASE UNCHANGED <<pc, plan>>
    <3>1. Guarded(plan[c])
      BY <2>2, <1>b DEF Conditional, Guarded, Flushing
    <3>2. Guarded(plan'[c]) /\ pc'[c] = "expire"
      BY <3>1, <2>2, <2>3
    <3> QED
      BY ZenonT(60), <3>2, <2>2, <2>3, <1>6, <1>h
  <2>4. CASE /\ plan' = [plan EXCEPT ![c] = DeletePlan({k}, meta)]
             /\ pc' = [pc EXCEPT ![c] = "lazy"]
    <3>1. {k} \in SUBSET Keys
      BY DEF IInv, TypeOK
    <3>2. Guarded(DeletePlan({k}, meta))
      BY <3>1, <1>a, DeletePlanGood
    <3>3. /\ \A x \in Procs : x # c => pc'[x] = pc[x] /\ plan'[x] = plan[x]
          /\ pc'[c] = "lazy" /\ plan'[c] = DeletePlan({k}, meta)
      BY <2>4, <1>d
    <3> QED
      BY ZenonT(60), <3>2, <3>3, <2>2, <1>6, <1>h
  <2> QED
    BY <2>1, <2>3, <2>4
<1>8. CASE LazyDelete(c)
  <2>1. /\ pc' = [pc EXCEPT ![c] = "expire"] /\ plan' = [plan EXCEPT ![c] = EmptyPlan]
        /\ UNCHANGED <<op, lockedBy>> /\ pc[c] = "lazy"
        /\ meta' = meta \/ Apply(plan[c], c)
    BY ZenonT(30), <1>8 DEF LazyDelete
  <2>2. /\ \A x \in Procs : x # c => pc'[x] = pc[x] /\ plan'[x] = plan[x]
        /\ pc'[c] = "expire" /\ plan'[c] = EmptyPlan
    BY <2>1, <1>d
  <2>3. \A k \in Keys : meta'[k] \in {meta[k], Absent, NoTtl}
    BY <2>1, <1>a, ExpiryDeletes
  <2> QED
    BY ZenonT(60), <2>1, <2>2, <2>3, <1>c, <1>6
<1>9. CASE Decide(c)
  <2>1. CASE UNCHANGED <<op, pc, plan, lockedBy, meta>>
    <3>1. pc[c] = "expire"
      BY ZenonT(30), <1>9 DEF Decide
    <3>2. Guarded(plan[c])
      BY <3>1, <1>b DEF Conditional, Guarded, Flushing
    <3>3. Guarded(plan'[c]) /\ pc'[c] = "expire"
      BY <3>1, <3>2, <2>1
    <3> QED
      BY ZenonT(60), <3>1, <3>3, <2>1, <1>6, <1>h
  <2>2. CASE Submit(c, PlanOf(op[c], meta, now), "write")
    <3>1. pc[c] = "expire" /\ op[c].cmd # "flush" /\ UNCHANGED meta
      BY ZenonT(30), <1>9 DEF Decide
    <3> QED
      BY ZenonT(60), <3>1, <2>2, <1>2, <1>3
  <2> QED
    BY ZenonT(30), <2>1, <2>2, <1>9 DEF Decide
<1>10. CASE FlushScan(c)
  <2> DEFINE q == FlushPlan(DbOf[op[c].key], meta, index)
  <2>1. /\ plan' = [plan EXCEPT ![c] = q] /\ pc' = [pc EXCEPT ![c] = "entries"]
        /\ pc[c] = "expire" /\ op[c].cmd = "flush" /\ UNCHANGED <<meta, op, lockedBy>>
    BY ZenonT(30), <1>10 DEF FlushScan
  <2>2. /\ q.seen = Nothing
        /\ \A e \in q.unindex : DbOf[e[2]] = DbOf[op[c].key]
        /\ \A k \in Keys : DbOf[k] = DbOf[op[c].key] /\ ~On(q.write, k) => meta[k] = Absent
    <3> DEFINE db == DbOf[op[c].key]
    <3>1. meta \in [Keys -> Meta] /\ index \in SUBSET Entries
      BY <1>a
    <3> HIDE DEF db
    <3> QED
      BY <3>1, FlushPlanGood DEF db
  <2> HIDE DEF q
  <2>3. /\ \A x \in Procs : x # c => pc'[x] = pc[x] /\ plan'[x] = plan[x]
        /\ pc'[c] = "entries" /\ plan'[c] = q
    BY <2>1, <1>d
  <2>4. HoldsLocks(c)'
    BY <2>1, <2>3, <1>b DEF HoldsLocks, LocksOf, Unlocked
  <2>5. KeepsDeadline(c)'
    BY <2>3 DEF KeepsDeadline
  <2>6. FlushSound(c)'
    BY <2>1, <2>2, <2>3 DEF FlushSound, Flushing, On, Nothing
  <2>7. Conditional(c)'
    BY <2>1, <2>3 DEF Conditional, Flushing
  <2>8. \A x \in Clients : x # c => op'[x] = op[x]
    BY <2>1
  <2> QED
    BY ZenonT(60), <2>1, <2>3, <2>4, <2>5, <2>6, <2>7, <2>8, <1>a, <1>g, <1>h, ExclusionFrame
<1>11. CASE FlushEntries(c)
  <2> DEFINE q == [plan[c] EXCEPT !.unindex = @ \cup EntriesIn(DbOf[op[c].key], index)]
  <2>1. Submit(c, q, "write") /\ pc[c] = "entries" /\ UNCHANGED meta
    BY ZenonT(30), <1>11 DEF FlushEntries
  <2>2. /\ q.seen = plan[c].seen /\ q.write = plan[c].write
        /\ q.unindex = plan[c].unindex \cup EntriesIn(DbOf[op[c].key], index)
    BY <1>a DEF Plan
  <2>3. op[c].cmd = "flush" /\ Flushing(c)
    BY <2>1, <1>b DEF FlushSound, Flushing
  <2>4. /\ q.seen = Nothing
        /\ \A e \in q.unindex : DbOf[e[2]] = DbOf[op[c].key]
        /\ \A k \in Keys : DbOf[k] = DbOf[op[c].key] /\ ~On(q.write, k) =>
              meta[k] \in {Absent, NoTtl}
    BY <2>2, <2>3, <1>b DEF FlushSound, EntriesIn
  <2> HIDE DEF q
  <2> QED
    BY ZenonT(60), <2>1, <2>3, <2>4, <1>2
<1>12. CASE Write(c)
  <2>1. pc[c] = "write" /\ ~stale[c] /\ Apply(plan[c], c) /\ Reply(c)
    BY ZenonT(30), <1>12 DEF Write
  <2>2. \A x \in Clients : x # c /\ Flushing(x) =>
            \A k \in Keys : meta'[k] \in {meta[k], Absent, NoTtl}
    BY ZenonT(30), <2>1, WriteBesideFlush
  <2> QED
    BY <2>1, <2>2, <1>r
<1>13. CASE Retry(c)
  <2>1. /\ pc' = [pc EXCEPT ![c] = "expire"] /\ plan' = [plan EXCEPT ![c] = EmptyPlan]
        /\ UNCHANGED <<meta, op, lockedBy>> /\ pc[c] = "write"
    BY ZenonT(30), <1>13 DEF Retry
  <2>2. /\ \A x \in Procs : x # c => pc'[x] = pc[x] /\ plan'[x] = plan[x]
        /\ pc'[c] = "expire" /\ plan'[c] = EmptyPlan
    BY <2>1, <1>d
  <2> QED
    BY ZenonT(60), <2>1, <2>2, <1>c, <1>h, <1>6
<1>14. CASE GiveUp(c)
  BY <1>14, <1>h, <1>r DEF GiveUp
<1> QED
  BY <1>1, <1>4, <1>5, <1>7, <1>8, <1>9, <1>10, <1>11, <1>12, <1>13, <1>14 DEF ClientStep

\* The sweeper's steps: it deletes, under a lock, and its batch is conditional.
LEMMA SweeperExclusion ==
    ASSUME IInv, SweeperStep
    PROVE  Exclusion'
<1>a. /\ Sweeper \in Procs /\ Sweeper \notin Clients /\ NoOwner \notin Procs
      /\ pc \in [Procs -> PcValues] /\ plan \in [Procs -> Plan]
      /\ lockedBy \in [Keys -> Procs \cup {NoOwner}]
      /\ meta \in [Keys -> Meta] /\ index \in SUBSET Entries /\ now \in Nat
      /\ entry \in Deadlines \X Keys /\ sweep \subseteq Entries
  BY ZenonT(30), ConstantsAssumption DEF IInv, TypeOK, Procs
<1>b. Guarded(plan[Sweeper]) /\ Guarded(EmptyPlan)
  BY <1>a, EmptyPlanGood DEF IInv, Exclusion, Conditional, Guarded
<1>1. ASSUME op' = op,
             \A x \in Procs : x # Sweeper => pc'[x] = pc[x] /\ plan'[x] = plan[x],
             Guarded(plan'[Sweeper]),
             \A k \in Keys : lockedBy[k] \in Procs /\ lockedBy[k] # Sweeper =>
                 lockedBy'[k] = lockedBy[k],
             \A k \in Keys : meta'[k] \in {meta[k], Absent, NoTtl}
      PROVE  Exclusion'
  <2>1. Conditional(Sweeper)'
    BY <1>1 DEF Conditional, Guarded, Nothing
  <2>2. \A x \in Clients : x # Sweeper => op'[x] = op[x]
    BY <1>1
  <2> QED
    BY ZenonT(60), <2>1, <2>2, <1>1, <1>a, ExclusionFrame
<1>2. ASSUME meta' = meta PROVE \A k \in Keys : meta'[k] \in {meta[k], Absent, NoTtl}
  BY <1>2
<1>3. ASSUME lockedBy' = lockedBy \/ Release(Sweeper)
      PROVE  \A k \in Keys : lockedBy[k] \in Procs /\ lockedBy[k] # Sweeper =>
                 lockedBy'[k] = lockedBy[k]
  BY <1>3, <1>a DEF Release
<1>4. ASSUME NEW v, pc' = [pc EXCEPT ![Sweeper] = v]
      PROVE  \A x \in Procs : x # Sweeper => pc'[x] = pc[x]
  BY <1>4, <1>a
<1>5. CASE SweepScan
  <2>1. /\ pc' = [pc EXCEPT ![Sweeper] = "next"] /\ UNCHANGED <<meta, lockedBy, op, plan>>
    BY ZenonT(30), <1>5 DEF SweepScan
  <2> QED
    BY ZenonT(60), <2>1, <1>b, <1>1, <1>2, <1>3, <1>4
<1>6. CASE \E e \in sweep : SweepLock(e)
  <2>1. PICK e \in sweep : SweepLock(e)
    BY <1>6
  <2>2. /\ pc' = [pc EXCEPT ![Sweeper] = "observe"] /\ UNCHANGED <<meta, op, plan>>
        /\ Acquire({e[2]}, Sweeper)
    BY ZenonT(30), <2>1 DEF SweepLock
  <2>3. \A k \in Keys : lockedBy[k] \in Procs /\ lockedBy[k] # Sweeper =>
            lockedBy'[k] = lockedBy[k]
    BY <2>2, <1>a DEF Acquire
  <2> QED
    BY ZenonT(60), <2>2, <2>3, <1>b, <1>1, <1>2, <1>4
<1>7. CASE \E k \in Keys : SweepObserve(k)
  <2> DEFINE q == SweepPlan(entry, meta)
  <2>1. /\ pc[Sweeper] = "observe" /\ plan' = [plan EXCEPT ![Sweeper] = q]
        /\ pc' = [pc EXCEPT ![Sweeper] = "sweep"]
        /\ UNCHANGED <<meta, lockedBy, op>>
    BY ZenonT(30), <1>7 DEF SweepObserve
  <2>2. entry \in Entries
    BY <2>1, <1>a DEF IInv, SweepEntriesDue, Entries, Due, Deadlines, NoTtl
  <2>3. Guarded(q)
    BY <2>2, <1>a, SweepPlanGood
  <2> HIDE DEF q
  <2>4. plan'[Sweeper] = q /\ \A x \in Procs : x # Sweeper => plan'[x] = plan[x]
    BY <2>1, <1>a
  <2> QED
    BY ZenonT(60), <2>1, <2>3, <2>4, <1>1, <1>2, <1>3, <1>4
<1>8. CASE SweepSkip
  <2>1. /\ pc' = [pc EXCEPT ![Sweeper] = "next"] /\ Release(Sweeper) /\ UNCHANGED <<meta, op, plan>>
    BY ZenonT(30), <1>8 DEF SweepSkip
  <2> QED
    BY ZenonT(60), <2>1, <1>b, <1>1, <1>2, <1>3, <1>4
<1>9. CASE SweepCommit
  <2>1. /\ pc[Sweeper] = "sweep"
        /\ pc' = [pc EXCEPT ![Sweeper] = "next"] /\ Release(Sweeper) /\ UNCHANGED op
        /\ plan' = [plan EXCEPT ![Sweeper] = EmptyPlan]
        /\ meta' = meta \/ Apply(plan[Sweeper], Sweeper)
    BY ZenonT(30), <1>9 DEF SweepCommit
  <2>2. \A k \in Keys : meta'[k] \in {meta[k], Absent, NoTtl}
    BY <2>1, <1>a, <1>2, ExpiryDeletes
  <2>3. plan'[Sweeper] = EmptyPlan /\ \A x \in Procs : x # Sweeper => plan'[x] = plan[x]
    BY <2>1, <1>a
  <2> QED
    BY ZenonT(60), <2>1, <2>2, <2>3, <1>b, <1>1, <1>3, <1>4
<1>10. CASE SweepDone
  <2>1. /\ pc' = [pc EXCEPT ![Sweeper] = "idle"] /\ UNCHANGED <<meta, lockedBy, op, plan>>
    BY ZenonT(30), <1>10 DEF SweepDone
  <2> QED
    BY ZenonT(60), <2>1, <1>b, <1>1, <1>2, <1>3, <1>4
<1> QED
  BY <1>5, <1>6, <1>7, <1>8, <1>9, <1>10 DEF SweeperStep

\* Time changes nothing here; after a crash no task is in a command.
LEMMA OtherExclusion ==
    ASSUME IInv, Tick \/ Crash \/ UNCHANGED vars
    PROVE  Exclusion'
<1>1. CASE UNCHANGED <<meta, lockedBy, pc, op, plan>>
  <2>0. /\ \A p \in Procs : Conditional(p)
        /\ \A c \in Clients : HoldsLocks(c) /\ KeepsDeadline(c) /\ FlushSound(c)
    BY DEF IInv, Exclusion
  <2>1. ASSUME NEW p \in Procs PROVE Conditional(p)'
    BY ZenonT(30), <2>0, <1>1 DEF Conditional, Flushing, Nothing
  <2>2. ASSUME NEW c \in Clients PROVE HoldsLocks(c)'
    BY ZenonT(30), <2>0, <1>1 DEF HoldsLocks, LocksOf, KeysOf, Unlocked
  <2>3. ASSUME NEW c \in Clients PROVE KeepsDeadline(c)'
    BY ZenonT(30), <2>0, <1>1 DEF KeepsDeadline, Unlocked, On
  <2>4. ASSUME NEW c \in Clients PROVE FlushSound(c)'
    BY ZenonT(30), <2>0, <1>1 DEF FlushSound, Flushing, On, Nothing
  <2> QED
    BY ZenonT(30), <2>1, <2>2, <2>3, <2>4 DEF Exclusion
<1>2. CASE Crash
  <2>1. plan' = [p \in Procs |-> EmptyPlan] /\ pc' = [p \in Procs |-> "idle"]
    BY ZenonT(30), <1>2 DEF Crash
  <2>2. \A p \in Procs : plan'[p].unindex = {} /\ pc'[p] = "idle"
    BY <2>1 DEF EmptyPlan
  <2> QED
    BY <2>2 DEF Exclusion, Conditional, HoldsLocks, KeepsDeadline, FlushSound, Flushing, Procs
<1> QED
  BY <1>1, <1>2 DEF Tick, vars

-----------------------------------------------------------------------------
(* The theorems.                                                           *)

\* The invariant is inductive.
LEMMA Invariance == Spec => []IInv
<1>1. IInv /\ [Next]_vars => IInv'
  <2> SUFFICES ASSUME IInv, [Next]_vars PROVE Core' /\ Exclusion'
    BY DEF IInv, Core, StoreInv, LocalOK, TypeOK
  <2> QED
    BY ClientStepInv, SweeperStepInv, OtherStepInv,
       ClientExclusion, SweeperExclusion, OtherExclusion DEF Next
<1> QED
  BY <1>1, InitInv, PTL DEF Spec

\* Every task's state stays well formed, for any keys, clients and commands.
THEOREM TypeCorrect == Spec => []TypeOK
<1>1. IInv => TypeOK
  BY DEF IInv
<1> QED
  BY <1>1, Invariance, PTL

\* The TTL index covers every deadline in the store: the sweeper cannot miss
\* a key, however commands, lazy expiry, RENAME, FLUSHDB, sweeps and crashes
\* interleave.
THEOREM IndexComplete == Spec => []IndexCoversDeadlines
<1>1. IInv => IndexCoversDeadlines
  BY DEF IInv
<1> QED
  BY <1>1, Invariance, PTL

\* No background or lazy expiry deletes a record before its deadline: a
\* concurrent SET, PERSIST or EXPIRE cannot be deleted by a stale sweeper
\* decision, and a command changes only the keys whose locks it names.
THEOREM NoEarlyExpiry == Spec => ExpiryNeverEarly
<1> USE DEF Procs
<1>1. ASSUME IInv, [Next]_vars, NEW k \in Keys
      PROVE  RecordChangeAllowed(k)
  <2>a. /\ StoreInv /\ PlansAuthorized /\ Sweeper \in Procs
        /\ pc \in [Procs -> PcValues]
    BY ZenonT(30), <1>1, Split DEF Core, LocalOK
  <2>b. ASSUME NEW p \in Procs, pc[p] \in {"lazy", "sweep"}, ~stale[p], Apply(plan[p], p),
               plan' = [plan EXCEPT ![p] = EmptyPlan]
        PROVE  RecordChangeAllowed(k)
    <3>1. meta'[k] # meta[k] => On(plan[p].write, k) /\ meta'[k] = plan[p].write[k]
      BY ZenonT(30), <1>1, <2>a, <2>b, ApplyPlan, BlindPlansSafe
    <3>2. On(plan[p].write, k) => plan[p].write[k] = Absent /\ Due(plan[p].seen[k], now)
      BY ZenonT(30), <2>a, <2>b DEF PlansAuthorized
    <3>3. Due(plan[p].seen[k], now) => plan[p].seen[k] = meta[k]
      <4>1. Due(plan[p].seen[k], now) => On(plan[p].seen, k)
        BY DEF Due, On, Unset, NoTtl
      <4>2. On(plan[p].seen, k) => plan[p].seen[k] = meta[k]
        BY ZenonT(30), <2>a, <2>b DEF StoreInv, ObservationsCurrent
      <4> QED
        BY <4>1, <4>2
    <3> QED
      BY ZenonT(30), <3>1, <3>2, <3>3 DEF RecordChangeAllowed
  <2>c. ASSUME NEW c \in Clients, Write(c) PROVE RecordChangeAllowed(k)
    <3>1. meta'[k] # meta[k] => On(plan[c].write, k)
      BY ZenonT(30), <1>1, <2>a, <2>c, ApplyPlan, BlindPlansSafe DEF Write, Reply
    <3>2. pc[c] = "write" /\ pc'[c] = "idle"
      BY <2>a, <2>c DEF Write, Reply
    <3>3. On(plan[c].write, k) => k \in LocksOf(op[c])
      BY ZenonT(30), <2>a, <3>2 DEF PlansAuthorized
    <3> QED
      BY ZenonT(30), <3>1, <3>2, <3>3 DEF RecordChangeAllowed
  <2>d. ASSUME meta' = meta PROVE RecordChangeAllowed(k)
    BY <2>d DEF RecordChangeAllowed
  <2>1. ASSUME NEW c \in Clients, Begin(c) \/ ClientStep(c) PROVE RecordChangeAllowed(k)
    <3>1. CASE LazyDelete(c)
      BY ZenonT(30), <3>1, <2>a, <2>b, <2>d DEF LazyDelete
    <3>2. CASE Write(c)
      BY <3>2, <2>c
    <3>3. CASE \/ Begin(c) \/ Stage(c) \/ Lock(c) \/ LazyCheck(c) \/ Decide(c)
               \/ FlushScan(c) \/ FlushEntries(c) \/ Retry(c) \/ GiveUp(c)
      BY <3>3, <2>d DEF Begin, Stage, Lock, LazyCheck, Decide, FlushScan, FlushEntries, Retry, GiveUp
    <3> QED
      BY <2>1, <3>1, <3>2, <3>3 DEF ClientStep
  <2>2. CASE SweeperStep
    <3>1. CASE SweepCommit
      BY ZenonT(30), <3>1, <2>a, <2>b, <2>d DEF SweepCommit
    <3>2. CASE SweepScan \/ SweepSkip \/ SweepDone
      BY <3>2, <2>d DEF SweepScan, SweepSkip, SweepDone
    <3>3. CASE \E e \in sweep : SweepLock(e)
      BY <3>3, <2>d DEF SweepLock
    <3>4. CASE \E x \in Keys : SweepObserve(x)
      BY ZenonT(30), <3>4, <2>d DEF SweepObserve
    <3> QED
      BY <2>2, <3>1, <3>2, <3>3, <3>4 DEF SweeperStep
  <2>3. CASE Tick \/ Crash \/ UNCHANGED vars
    BY <2>3, <2>d DEF Tick, Crash, vars
  <2> QED
    BY <1>1, <2>1, <2>2, <2>3 DEF Next
<1>2. IInv /\ [Next]_vars => [\A k \in Keys : RecordChangeAllowed(k)]_vars
  BY <1>1
<1> QED
  BY <1>2, Invariance, PTL DEF Spec, ExpiryNeverEarly
=============================================================================
