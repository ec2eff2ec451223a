----------------------------- MODULE MergeQueue -----------------------------
(***************************************************************************)
(* The queues that merge concurrent commands on one key into one batch:    *)
(* LPUSH/RPUSH, LPOP/RPOP, ZADD, ZINCRBY, XADD and BITOP all use the same  *)
(* protocol, modelled here for one key.                                    *)
(*                                                                         *)
(* A producer takes the key's queue from a map of Arcs, creating it if it  *)
(* is not there, appends its request under the queue's mutex, and if it    *)
(* turns `running` on, spawns a worker.  The worker drains and applies     *)
(* batches; when it finds the queue empty it turns `running` off and,      *)
(* still holding the mutex, removes the queue from the map if nobody else  *)
(* holds it.                                                               *)
(*                                                                         *)
(* Abstractions: a request is its client and its number among the client's *)
(* requests.  The batch that applies requests (ListMetaCache for lists) is *)
(* one step that finishes them all; whether its write succeeded only shows *)
(* in the text of the replies.                                             *)
(***************************************************************************)
EXTENDS Integers, Sequences, FiniteSets, SequencesExt

CONSTANTS
    Clients,
    Queues,       \* the queue objects: memory is reused once nothing refers to it
    Workers,      \* worker tasks, reused likewise
    BatchMax,     \* LIST_PUSH_MERGE_BATCH_MAX and its siblings
    Pipeline,     \* requests a client enqueues before it awaits their replies
    MaxRequests,  \* bound on the requests of one client
    None

ASSUME ConstantsAssumption ==
    /\ IsFiniteSet(Clients) /\ IsFiniteSet(Queues) /\ IsFiniteSet(Workers)
    /\ BatchMax \in Nat \ {0} /\ Pipeline \in Nat \ {0} /\ MaxRequests \in Nat
    \* Enough objects for every holder to have one of its own.
    /\ Cardinality(Queues) > Cardinality(Clients)

VARIABLES
    map,       \* list_push_queues: the key's entry
    pending,   \* requests waiting in each queue
    running,   \* its `running` flag
    mutex,     \* the worker that holds its `pending` lock across steps
    pc,        \* where each client is
    queue,     \* the Arc it holds
    sent,      \* requests of the current pipeline it enqueued
    waiting,   \* its requests whose replies it awaits
    issued,    \* requests it ever enqueued
    wpc,       \* where each worker is
    wqueue,    \* the Arc it holds
    batch,     \* the requests it drained
    done       \* history: how many requests of each client were applied

client == <<pc, queue, sent, waiting, issued>>
worker == <<wpc, wqueue, batch>>
vars == <<map, pending, running, mutex, client, worker, done>>

Init ==
    /\ map = None
    /\ pending = [q \in Queues |-> <<>>]
    /\ running = [q \in Queues |-> FALSE]
    /\ mutex = [q \in Queues |-> None]
    /\ pc = [c \in Clients |-> "idle"]
    /\ queue = [c \in Clients |-> None]
    /\ sent = [c \in Clients |-> 0]
    /\ waiting = [c \in Clients |-> {}]
    /\ issued = [c \in Clients |-> 0]
    /\ wpc = [w \in Workers |-> "none"]
    /\ wqueue = [w \in Workers |-> None]
    /\ batch = [w \in Workers |-> <<>>]
    /\ done = [c \in Clients |-> 0]

Holders(q) == {c \in Clients : queue[c] = q} \cup {w \in Workers : wqueue[w] = q}
strong_count(q) == Cardinality(Holders(q)) + (IF map = q THEN 1 ELSE 0)

Goto(c, place) == pc' = [pc EXCEPT ![c] = place]
WorkerGoto(w, place) == wpc' = [wpc EXCEPT ![w] = place]

-----------------------------------------------------------------------------
(* Producers. *)

\* entry(queue_key).or_insert_with(new).clone()
Entry(c) ==
    /\ pc[c] \in {"idle", "sending"}
    /\ issued[c] < MaxRequests
    /\ \/ map # None /\ queue' = [queue EXCEPT ![c] = map] /\ UNCHANGED <<map, pending, running>>
       \/ /\ map = None
          /\ LET q == CHOOSE x \in Queues : strong_count(x) = 0
             IN  /\ map' = q
                 /\ queue' = [queue EXCEPT ![c] = q]
                 /\ pending' = [pending EXCEPT ![q] = <<>>]
                 /\ running' = [running EXCEPT ![q] = FALSE]
    /\ Goto(c, "push")
    /\ UNCHANGED <<mutex, sent, waiting, issued, worker, done>>

push_back(c) ==
    LET q == queue[c]
        r == [client |-> c, seq |-> issued[c] + 1]
    IN  /\ pc[c] = "push"
        /\ mutex[q] = None
        /\ pending' = [pending EXCEPT ![q] = Append(@, r)]
        /\ issued' = [issued EXCEPT ![c] = @ + 1]
        /\ sent' = [sent EXCEPT ![c] = @ + 1]
        /\ waiting' = [waiting EXCEPT ![c] = @ \cup {r}]
        /\ Goto(c, "run")
        /\ UNCHANGED <<map, running, mutex, queue, worker, done>>

\* Mutant: `running` is stored without comparing it first.
spawn_worker_always(c) ==
    LET q == queue[c]
    IN  /\ pc[c] = "run"
        /\ running' = [running EXCEPT ![q] = TRUE]
        /\ \E w \in Workers :
              wpc[w] = "none" /\ WorkerGoto(w, "drain") /\ wqueue' = [wqueue EXCEPT ![w] = q]
        /\ Goto(c, "drop")
        /\ UNCHANGED <<map, pending, mutex, queue, sent, waiting, issued, batch, done>>

\* The compare_exchange on `running`; the winner spawns a worker with a clone.
try_spawn_worker(c) ==
    LET q == queue[c]
    IN  /\ pc[c] = "run"
        /\ \/ running[q] /\ UNCHANGED <<running, wpc, wqueue>>
           \/ /\ ~running[q]
              /\ running' = [running EXCEPT ![q] = TRUE]
              /\ LET w == CHOOSE x \in Workers : wpc[x] = "none"
                 IN  WorkerGoto(w, "drain") /\ wqueue' = [wqueue EXCEPT ![w] = q]
        /\ Goto(c, "drop")
        /\ UNCHANGED <<map, pending, mutex, queue, sent, waiting, issued, batch, done>>

\* drop(queue), then the next request of the pipeline or the first reply.
drop_queue(c) ==
    /\ pc[c] = "drop"
    /\ queue' = [queue EXCEPT ![c] = None]
    /\ Goto(c, IF sent[c] < Pipeline /\ issued[c] < MaxRequests THEN "sending" ELSE "await")
    /\ UNCHANGED <<map, pending, running, mutex, sent, waiting, worker, issued, done>>

Replied(c) ==
    /\ pc[c] = "await"
    /\ waiting[c] = {}
    /\ Goto(c, "idle")
    /\ sent' = [sent EXCEPT ![c] = 0]
    /\ UNCHANGED <<map, pending, running, mutex, queue, waiting, worker, issued, done>>

\* The connection ends while the replies are awaited: the receivers are dropped.
Disconnect(c) ==
    /\ pc[c] = "await"
    /\ waiting[c] # {}
    /\ Goto(c, "idle")
    /\ sent' = [sent EXCEPT ![c] = 0]
    /\ waiting' = [waiting EXCEPT ![c] = {}]
    /\ UNCHANGED <<map, pending, running, mutex, queue, worker, issued, done>>

-----------------------------------------------------------------------------
(* The worker. *)

\* Mutant: the queue is emptied although the batch is limited.
drain_all(w) ==
    LET q == wqueue[w]
        count == IF Len(pending[q]) < BatchMax THEN Len(pending[q]) ELSE BatchMax
    IN  /\ wpc[w] = "drain"
        /\ mutex[q] = None
        /\ batch' = [batch EXCEPT ![w] = SubSeq(pending[q], 1, count)]
        /\ pending' = [pending EXCEPT ![q] = <<>>]
        /\ WorkerGoto(w, IF count = 0 THEN "check" ELSE "apply")
        /\ UNCHANGED <<map, running, mutex, client, wqueue, done>>

drain(w) ==
    LET q == wqueue[w]
        count == IF Len(pending[q]) < BatchMax THEN Len(pending[q]) ELSE BatchMax
    IN  /\ wpc[w] = "drain"
        /\ mutex[q] = None
        /\ batch' = [batch EXCEPT ![w] = SubSeq(pending[q], 1, count)]
        /\ pending' = [pending EXCEPT ![q] = SubSeq(@, count + 1, Len(@))]
        /\ WorkerGoto(w, IF count = 0 THEN "check" ELSE "apply")
        /\ UNCHANGED <<map, running, mutex, client, wqueue, done>>

\* list_push_batch_async: one write for the whole batch.
apply_batch(w) ==
    /\ wpc[w] = "apply"
    /\ done' = [c \in Clients |-> done[c] + Len(SelectSeq(batch[w], LAMBDA r : r.client = c))]
    /\ WorkerGoto(w, "reply")
    /\ UNCHANGED <<map, pending, running, mutex, client, wqueue, batch>>

send_replies(w) ==
    /\ wpc[w] = "reply"
    /\ waiting' = [c \in Clients |-> waiting[c] \ Range(batch[w])]
    /\ batch' = [batch EXCEPT ![w] = <<>>]
    /\ WorkerGoto(w, "check")
    /\ UNCHANGED <<map, pending, running, mutex, pc, queue, sent, issued, wqueue, done>>

\* Mutant: the mutex is released before `running` is turned off.
check_pending_unlocked(w) ==
    LET q == wqueue[w]
    IN  /\ wpc[w] = "check"
        /\ mutex[q] = None
        /\ WorkerGoto(w, IF pending[q] # <<>> THEN "drain" ELSE "idle")
        /\ UNCHANGED <<map, pending, running, mutex, client, wqueue, batch, done>>

\* The mutex is taken; with requests waiting it is released for another round.
check_pending(w) ==
    LET q == wqueue[w]
    IN  /\ wpc[w] = "check"
        /\ mutex[q] = None
        /\ \/ pending[q] # <<>> /\ WorkerGoto(w, "drain") /\ UNCHANGED mutex
           \/ /\ pending[q] = <<>> /\ WorkerGoto(w, "idle")
              /\ mutex' = [mutex EXCEPT ![q] = w]
        /\ UNCHANGED <<map, pending, running, client, wqueue, batch, done>>

store_not_running(w) ==
    /\ wpc[w] = "idle"
    /\ running' = [running EXCEPT ![wqueue[w]] = FALSE]
    /\ WorkerGoto(w, "remove")
    /\ UNCHANGED <<map, pending, mutex, client, wqueue, batch, done>>

\* Mutant: other holders of the queue are not looked for.
RemovableHeld(w) == map = wqueue[w]

\* Under the map's shard lock: only the map and this worker hold the queue.
Removable(w) ==
    /\ map = wqueue[w]
    /\ strong_count(map) = 2

\* Mutant: the worker stops without releasing the mutex.
remove_if_locked(w) ==
    /\ wpc[w] = "remove"
    /\ map' = IF Removable(w) THEN None ELSE map
    /\ wqueue' = [wqueue EXCEPT ![w] = None]
    /\ WorkerGoto(w, "none")
    /\ UNCHANGED <<pending, running, mutex, client, batch, done>>

remove_if(w) ==
    LET q == wqueue[w]
    IN  /\ wpc[w] = "remove"
        /\ map' = IF Removable(w) THEN None ELSE map
        /\ mutex' = [mutex EXCEPT ![q] = None]
        /\ wqueue' = [wqueue EXCEPT ![w] = None]
        /\ WorkerGoto(w, "none")
        /\ UNCHANGED <<pending, running, client, batch, done>>

-----------------------------------------------------------------------------
ClientStep(c) ==
    \/ Entry(c)
    \/ push_back(c)
    \/ try_spawn_worker(c)
    \/ drop_queue(c)
    \/ Replied(c)

WorkerStep(w) ==
    \/ drain(w)
    \/ apply_batch(w)
    \/ send_replies(w)
    \/ check_pending(w)
    \/ store_not_running(w)
    \/ remove_if(w)

Next ==
    \/ \E c \in Clients : ClientStep(c) \/ Disconnect(c)
    \/ \E w \in Workers : WorkerStep(w)

Spec == Init /\ [][Next]_vars

\* The runtime runs every task that can run: workers, and clients that entered.
FairSpec ==
    /\ Spec
    /\ \A c \in Clients : WF_vars(pc[c] # "idle" /\ ClientStep(c))
    /\ \A w \in Workers : WF_vars(WorkerStep(w))

-----------------------------------------------------------------------------
(* Properties. *)

Requests == [client : Clients, seq : 1 .. MaxRequests]

\* The numbers of the client's requests in the queues and in batches at these places.
Located(c, places) ==
    LET rs == UNION {Range(pending[q]) : q \in Queues}
              \cup UNION {Range(batch[w]) : w \in {v \in Workers : wpc[v] \in places}}
    IN  {r.seq : r \in {x \in rs : x.client = c}}

\* The variables have their types, an Arc in use is a queue, and only a worker
\* that is about to stop holds a mutex across steps.
TypeOK ==
    /\ map \in Queues \cup {None}
    /\ \A q \in Queues : Range(pending[q]) \subseteq Requests
    /\ running \in [Queues -> BOOLEAN]
    /\ \A q \in Queues : mutex[q] # None =>
          mutex[q] \in Workers /\ wqueue[mutex[q]] = q /\ wpc[mutex[q]] \in {"idle", "remove"}
    /\ \A c \in Clients : pc[c] \in {"push", "run", "drop"} <=> queue[c] \in Queues
    /\ \A w \in Workers : wpc[w] # "none" <=> wqueue[w] \in Queues
    /\ sent \in [Clients -> 0 .. Pipeline]

\* A waiting request always has somebody who will take it: a worker that drains its
\* queue again, or a producer that has yet to look at `running`.
NoStrandedRequest ==
    \A q \in Queues : pending[q] # <<>> =>
        \/ \E w \in Workers : wqueue[w] = q /\ wpc[w] \in {"drain", "apply", "reply", "check"}
        \/ \E c \in Clients : queue[c] = q /\ pc[c] = "run"

\* At most one worker serves the key at a time, even while a queue is being replaced.
OneWorker ==
    \A v, w \in Workers :
        wpc[v] \in {"drain", "apply", "reply"} /\ wpc[w] \in {"drain", "apply", "reply"} => v = w

\* The requests not yet applied are the client's latest ones: none is lost or applied
\* twice, and pipelined requests are applied in the order they were sent.
AppliedInOrder ==
    \A c \in Clients : Located(c, {"apply"}) = done[c] + 1 .. issued[c]

\* A reply that is awaited is on its way: the request is in a queue or with a worker.
AwaitedInFlight ==
    \A c \in Clients : waiting[c] \subseteq
        {[client |-> c, seq |-> n] : n \in Located(c, {"apply", "reply"})}

\* Every client that sent requests is answered (or leaves).
RequestsAnswered == \A c \in Clients : pc[c] # "idle" ~> pc[c] = "idle"
=============================================================================
