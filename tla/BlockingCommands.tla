-------------------------- MODULE BlockingCommands --------------------------
(***************************************************************************)
(* BLPOP, BRPOP, BLMPOP, BLMOVE, BZPOPMIN, ...: commands that wait for an  *)
(* element.                                                                *)
(*                                                                         *)
(* The handler's loop registers a waiter under each of the command's keys, *)
(* then tries the pop in a transaction of its own and, when every key is   *)
(* empty in the transaction's snapshot, waits for the waiter's signal, the *)
(* deadline, CLIENT UNBLOCK, CLIENT KILL or the end of the connection.  A  *)
(* write reaches the store first; then, if the tracker has observers at    *)
(* all, it signals every waiter of the keys it names.                      *)
(*                                                                         *)
(* Abstractions: a list or sorted set is the number of its elements and    *)
(* the number of the write that made its main record.  A Notify is the     *)
(* permit it stores: signalled before the handler waits, the wait returns  *)
(* at once.                                                                *)
(***************************************************************************)
EXTENDS Integers, FiniteSets, FiniteSetsExt

CONSTANTS
    Keys,
    Clients,    \* connections that issue blocking commands
    Writers,    \* connections that push and pop without blocking
    Commands,   \* records [keys, to, deadline]; to: the keys a move pushes to
    MaxWrites,  \* bound on the writes when a push or pop is issued
    MaxCalls    \* bound on the blocking commands issued

ASSUME ConstantsAssumption ==
    /\ IsFiniteSet(Keys) /\ IsFiniteSet(Clients)
    /\ Clients \cap Writers = {}
    /\ Commands \subseteq [keys : SUBSET Keys \ {{}}, to : SUBSET Keys, deadline : BOOLEAN]
    /\ \A cmd \in Commands : Cardinality(cmd.to) <= 1
    /\ MaxWrites \in Nat /\ MaxCalls \in Nat

VARIABLES
    len,         \* elements of each key
    stamp,       \* the write that made each key's main record
    writes,      \* writes that reached the store so far
    keyWaiters,  \* KeyMutationTracker::key_waiters: who is registered
    permit,      \* clients whose current signal was notified
    pc,          \* where each connection is
    cmd,         \* its blocking command
    todo,        \* keys it still has to register, or to publish
    snapshot,    \* its transaction's view: len and stamp
    blocked,     \* SessionControlState::blocked
    unblock,     \* SessionControlState::unblock_mode is set
    calls,       \* blocking commands issued so far
    pushed,      \* history: elements pushed
    taken        \* history: elements replied or about to be

store == <<len, stamp, writes>>
control == <<blocked, unblock>>
vars == <<store, keyWaiters, permit, pc, cmd, todo, snapshot, control, calls, pushed, taken>>

Procs == Clients \cup Writers
NoCommand == [keys |-> {}, to |-> {}, deadline |-> FALSE]
NoSnapshot == [len |-> [k \in Keys |-> 0], stamp |-> [k \in Keys |-> 0]]

\* A blocking command registers its sources and, for a move, its destination.
WaitKeys(c) == cmd[c].keys \cup cmd[c].to

Init ==
    /\ len = [k \in Keys |-> 0]
    /\ stamp = [k \in Keys |-> 0]
    /\ writes = 0
    /\ keyWaiters = [k \in Keys |-> {}]
    /\ permit = {}
    /\ pc = [p \in Procs |-> "idle"]
    /\ cmd = [c \in Clients |-> NoCommand]
    /\ todo = [p \in Procs |-> {}]
    /\ snapshot = [c \in Clients |-> NoSnapshot]
    /\ blocked = {}
    /\ unblock = {}
    /\ calls = 0
    /\ pushed = 0
    /\ taken = 0

Goto(p, place) == pc' = [pc EXCEPT ![p] = place]

-----------------------------------------------------------------------------
(* KeyMutationTracker *)

has_observers_watch_only == FALSE

\* Watched keys are observers too; they are not part of this model.
has_observers == \E k \in Keys : keyWaiters[k] # {}

notify_first_waiter(k) ==
    permit' = permit \cup (IF keyWaiters[k] = {} THEN {} ELSE {CHOOSE c \in keyWaiters[k] : TRUE})

notify_key_waiters(k) == permit' = permit \cup keyWaiters[k]

drop_waiter_keeping_entries(c) ==
    /\ UNCHANGED keyWaiters
    /\ permit' = permit \ {c}

\* Drop for KeyMutationWaiter.
drop_waiter(c) ==
    /\ keyWaiters' = [k \in Keys |-> keyWaiters[k] \ {c}]
    /\ permit' = permit \ {c}

\* A committed write of `keys`, with the elements it leaves.
Write(keys, after) ==
    /\ writes' = writes + 1
    /\ stamp' = [k \in Keys |-> IF k \in keys THEN writes + 1 ELSE stamp[k]]
    /\ len' = after

-----------------------------------------------------------------------------
(* Commands that do not block *)

Push(w) ==
    /\ pc[w] = "idle" /\ writes < MaxWrites
    /\ \E k \in Keys :
        /\ Write({k}, [len EXCEPT ![k] = @ + 1])
        /\ todo' = [todo EXCEPT ![w] = {k}]
    /\ pushed' = pushed + 1
    /\ Goto(w, "stored")
    /\ UNCHANGED <<keyWaiters, permit, cmd, snapshot, control, calls, taken>>

Pop(w) ==
    /\ pc[w] = "idle" /\ writes < MaxWrites
    /\ \E k \in Keys :
        /\ len[k] > 0
        /\ Write({k}, [len EXCEPT ![k] = @ - 1])
        /\ todo' = [todo EXCEPT ![w] = {k}]
    /\ taken' = taken + 1
    /\ Goto(w, "stored")
    /\ UNCHANGED <<keyWaiters, permit, cmd, snapshot, control, calls, pushed>>

\* With no observer the keys are not even collected.
record_or_publish_mutations(w) ==
    /\ pc[w] = "stored"
    /\ todo' = [todo EXCEPT ![w] = IF has_observers THEN @ ELSE {}]
    /\ Goto(w, "publish")
    /\ UNCHANGED <<store, keyWaiters, permit, cmd, snapshot, control, calls, pushed, taken>>

publish_mutations(p) ==
    /\ pc[p] = "publish"
    /\ \E k \in todo[p] :
        /\ notify_key_waiters(k)
        /\ todo' = [todo EXCEPT ![p] = @ \ {k}]
    /\ UNCHANGED <<store, keyWaiters, pc, cmd, snapshot, control, calls, pushed, taken>>

WriterReply(w) ==
    /\ pc[w] = "publish" /\ todo[w] = {}
    /\ Goto(w, "idle")
    /\ UNCHANGED <<store, keyWaiters, permit, cmd, todo, snapshot, control, calls, pushed, taken>>

-----------------------------------------------------------------------------
(* The blocking handler *)

apply_blocking_command(c) ==
    /\ pc[c] = "idle" /\ calls < MaxCalls
    /\ calls' = calls + 1
    /\ cmd' \in {[cmd EXCEPT ![c] = command] : command \in Commands}
    /\ todo' = [todo EXCEPT ![c] = WaitKeys(c)']
    /\ Goto(c, "register")
    /\ UNCHANGED <<store, keyWaiters, permit, snapshot, control, pushed, taken>>

register_waiter(c) ==
    /\ pc[c] = "register"
    /\ \E k \in todo[c] :
        /\ keyWaiters' = [keyWaiters EXCEPT ![k] = @ \cup {c}]
        /\ todo' = [todo EXCEPT ![c] = @ \ {k}]
    /\ UNCHANGED <<store, permit, pc, cmd, snapshot, control, calls, pushed, taken>>

transactional_view(c) ==
    /\ pc[c] = "register" /\ todo[c] = {}
    /\ snapshot' = [snapshot EXCEPT ![c] = [len |-> len, stamp |-> stamp]]
    /\ Goto(c, "try")
    /\ UNCHANGED <<store, keyWaiters, permit, cmd, todo, control, calls, pushed, taken>>

Available(c) == {k \in cmd[c].keys : snapshot[c].len[k] > 0}

\* The handler returns: the waiter and the blocking guard are dropped.
Return(c) ==
    /\ drop_waiter(c)
    /\ Goto(c, "idle")
    /\ cmd' = [cmd EXCEPT ![c] = NoCommand]
    /\ snapshot' = [snapshot EXCEPT ![c] = NoSnapshot]
    /\ blocked' = blocked \ {c}
    /\ unblock' = unblock \ {c}

TryEmptyForgettingUnblock(c) ==
    /\ pc[c] = "try" /\ Available(c) = {}
    /\ blocked' = blocked \cup {c}
    /\ unblock' = unblock \ {c}
    /\ snapshot' = [snapshot EXCEPT ![c] = NoSnapshot]
    /\ Goto(c, "wait")
    /\ UNCHANGED <<store, keyWaiters, permit, cmd, todo, calls, pushed, taken>>

\* Every key is empty: the transaction is discarded.  begin_blocking makes the
\* client visible to CLIENT UNBLOCK the first time.
TryEmpty(c) ==
    /\ pc[c] = "try" /\ Available(c) = {}
    /\ blocked' = blocked \cup {c}
    /\ snapshot' = [snapshot EXCEPT ![c] = NoSnapshot]
    /\ Goto(c, "wait")
    /\ UNCHANGED <<store, keyWaiters, permit, cmd, todo, unblock, calls, pushed, taken>>

\* The pop, and the push of a move, are computed on the snapshot and committed
\* together; the first of the keys with elements is taken.
PopAndCommit(c) ==
    /\ pc[c] = "try"
    /\ \E k \in Available(c) :
        LET written == {k} \cup cmd[c].to
            popped == [snapshot[c].len EXCEPT ![k] = @ - 1]
            after == [j \in Keys |-> IF j \in cmd[c].to THEN popped[j] + 1 ELSE popped[j]]
        IN  /\ \A j \in written : stamp[j] = snapshot[c].stamp[j]
            /\ Write(written, [j \in Keys |-> IF j \in written THEN after[j] ELSE len[j]])
            /\ todo' = [todo EXCEPT ![c] = written]
    /\ taken' = IF cmd[c].to = {} THEN taken + 1 ELSE taken
    /\ Goto(c, "publish")
    /\ UNCHANGED <<keyWaiters, permit, cmd, snapshot, control, calls, pushed>>

CommitConflictIgnored(c) ==
    /\ pc[c] = "try"
    /\ \E k \in Available(c) :
         \E j \in {k} \cup cmd[c].to : stamp[j] # snapshot[c].stamp[j]
    /\ taken' = taken + 1
    /\ Return(c)
    /\ UNCHANGED <<store, todo, calls, pushed>>

\* The engine refuses a commit on a record written since the snapshot; the
\* command answers that error.
CommitConflict(c) ==
    /\ pc[c] = "try"
    /\ \E k \in Available(c) :
         \E j \in {k} \cup cmd[c].to : stamp[j] # snapshot[c].stamp[j]
    /\ Return(c)
    /\ UNCHANGED <<store, todo, calls, pushed, taken>>

Reply(c) ==
    /\ pc[c] = "publish" /\ todo[c] = {}
    /\ Return(c)
    /\ UNCHANGED <<store, todo, calls, pushed, taken>>

\* The signal: the next round of the loop makes a new waiter.
notified(c) ==
    /\ pc[c] = "wait" /\ c \in permit
    /\ drop_waiter(c)
    /\ todo' = [todo EXCEPT ![c] = WaitKeys(c)]
    /\ Goto(c, "register")
    /\ UNCHANGED <<store, cmd, snapshot, control, calls, pushed, taken>>

timeout_at(c) ==
    /\ pc[c] = "wait" /\ cmd[c].deadline
    /\ Return(c)
    /\ UNCHANGED <<store, todo, calls, pushed, taken>>

\* CLIENT KILL, shutdown, or the peer closed the connection.
wait_killed(c) ==
    /\ pc[c] = "wait"
    /\ Return(c)
    /\ UNCHANGED <<store, todo, calls, pushed, taken>>

request_unblock_unchecked(c) ==
    /\ c \notin unblock
    /\ unblock' = unblock \cup {c}
    /\ UNCHANGED <<store, keyWaiters, permit, pc, cmd, todo, snapshot, blocked, calls,
                   pushed, taken>>

\* CLIENT UNBLOCK, answered 1.
request_unblock(c) ==
    /\ c \in blocked \ unblock
    /\ unblock' = unblock \cup {c}
    /\ UNCHANGED <<store, keyWaiters, permit, pc, cmd, todo, snapshot, blocked, calls,
                   pushed, taken>>

wait_unblocked(c) ==
    /\ pc[c] = "wait" /\ c \in unblock
    /\ Return(c)
    /\ UNCHANGED <<store, todo, calls, pushed, taken>>

\* What the handler does by itself.
ClientStep(c) ==
    \/ register_waiter(c)
    \/ transactional_view(c)
    \/ TryEmpty(c)
    \/ PopAndCommit(c)
    \/ CommitConflict(c)
    \/ publish_mutations(c)
    \/ Reply(c)
    \/ notified(c)
    \/ wait_unblocked(c)

WriterStep(w) ==
    \/ record_or_publish_mutations(w)
    \/ publish_mutations(w)
    \/ WriterReply(w)

Next ==
    \/ \E c \in Clients :
         \/ apply_blocking_command(c)
         \/ ClientStep(c)
         \/ timeout_at(c)
         \/ wait_killed(c)
         \/ request_unblock(c)
    \/ \E w \in Writers : Push(w) \/ Pop(w) \/ WriterStep(w)

Spec == Init /\ [][Next]_vars

\* Running handlers keep running; new commands, deadlines and kills need not come.
FairSpec ==
    /\ Spec
    /\ \A c \in Clients : WF_vars(ClientStep(c))
    /\ \A w \in Writers : WF_vars(WriterStep(w))

-----------------------------------------------------------------------------
(* Properties *)

\* The types of the variables.
TypeOK ==
    /\ len \in [Keys -> Nat]
    /\ writes \in 0 .. MaxWrites + MaxCalls
    /\ stamp \in [Keys -> 0 .. writes]
    /\ keyWaiters \in [Keys -> SUBSET Clients]
    /\ permit \subseteq Clients
    /\ pc \in [Procs -> {"idle", "stored", "publish", "register", "try", "wait"}]
    /\ cmd \in [Clients -> Commands \cup {NoCommand}]
    /\ todo \in [Procs -> SUBSET Keys]
    /\ snapshot \in [Clients -> [len : [Keys -> Nat], stamp : [Keys -> 0 .. writes]]]
    /\ unblock \subseteq blocked /\ blocked \subseteq Clients
    /\ calls \in 0 .. MaxCalls
    /\ pushed \in Nat /\ taken \in Nat

\* A client waits without a signal only while its keys are empty or a write of
\* the key is on its way to the waiters: registration comes before the
\* snapshot, and the store write before has_observers, so no push falls
\* between them.
NoLostWakeup ==
    \A c \in Clients : pc[c] = "wait" /\ c \notin permit =>
        \A k \in cmd[c].keys :
            len[k] > 0 => \E p \in Procs : pc[p] \in {"stored", "publish"} /\ k \in todo[p]

\* An element pushed is in a list or was taken by exactly one command, however
\* many clients woke for it, whatever their commits answered.
ElementsConserved == pushed = taken + MapThenSumSet(LAMBDA k : len[k], Keys)

\* The tracker holds exactly the waiters of the running commands: neither an
\* error nor a timeout, a kill or a new round of the loop leaves one behind,
\* which would keep has_observers true for ever.
WaitersExact ==
    \A k \in Keys :
        keyWaiters[k] = {c \in Clients :
                            /\ pc[c] \in {"register", "try", "wait", "publish"}
                            /\ k \in WaitKeys(c)
                            /\ pc[c] = "register" => k \notin todo[c]}

\* A client that waits on a key with elements does not wait for ever: it is
\* answered or the elements go to others.
AvailableIsTaken ==
    \A c \in Clients, k \in Keys :
        (pc[c] = "wait" /\ k \in cmd[c].keys /\ len[k] > 0) ~> (pc[c] = "idle" \/ len[k] = 0)

\* After CLIENT UNBLOCK has answered 1 the blocked command ends.
UnblockEnds == \A c \in Clients : (c \in unblock) ~> (pc[c] = "idle")
=============================================================================
