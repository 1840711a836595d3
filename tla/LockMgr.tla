------------------------------ MODULE LockMgr ------------------------------
(***************************************************************************)
(* The record locks of the storage commands: a fixed pool of mutexes, of   *)
(* which a key is protected by the one its hash selects.  Different keys   *)
(* may share a mutex, and a mutex is not reentrant.                        *)
(*                                                                         *)
(* A command locks one key (lock), several keys (multi_lock, which MSETNX  *)
(* uses), or two keys one after the other (SMOVE and RPOPLPUSH).  It works *)
(* while it has all its guards, and then drops them in reverse order.      *)
(***************************************************************************)
EXTENDS Integers, Sequences, FiniteSets

CONSTANTS
    Tasks,          \* the blocking threads that run commands
    Keys,           \* numbers, in the order of the keys
    PoolSize,       \* the length of mutex_pool
    index_for,      \* the shard of each key: its hash under the mask
    Moves           \* the pairs of keys that SMOVE and RPOPLPUSH are given

Nobody == "nobody"

\* The indexes of mutex_pool.
Shards == 0..(PoolSize - 1)

ASSUME LockMgrAssumption ==
    /\ Nobody \notin Tasks
    /\ Keys \subseteq Nat
    /\ PoolSize \in Nat \ {0}
    /\ index_for \in [Keys -> Shards]
    /\ Moves \subseteq Keys \X Keys

VARIABLES
    pool,   \* who holds each mutex of mutex_pool
    task    \* what each task does: keys, shards still to lock and guards held

vars == <<pool, task>>

Idle == [pc |-> "idle", keys |-> {}, todo |-> <<>>, guards |-> <<>>]

-----------------------------------------------------------------------------
(* Asking for locks. *)

\* A BTreeSet of indexes: each once, in increasing order.
Ascending(S) ==
    CHOOSE q \in [1..Cardinality(S) -> S] : \A i, j \in DOMAIN q : i < j => q[i] < q[j]
sorted_indexesByKey(keys) ==
    LET order == Ascending(keys) IN [i \in DOMAIN order |-> index_for[order[i]]]
sorted_indexes(keys) == Ascending({index_for[k] : k \in keys})

Ask(t, pc, keys, indexes) ==
    /\ task[t].pc = "idle"
    /\ task' = [task EXCEPT ![t] = [pc |-> pc, keys |-> keys, todo |-> indexes, guards |-> <<>>]]
    /\ UNCHANGED pool

lock(t, k) == Ask(t, "locking", {k}, <<index_for[k]>>)

try_lock(t, k) == Ask(t, "trying", {k}, <<index_for[k]>>)

multi_lock(t, keys) == Ask(t, "locking", keys, sorted_indexes(keys))

try_multi_lock(t, keys) == Ask(t, "trying", keys, sorted_indexes(keys))

\* One lock if both keys are the same, else two in the order of the keys.
lock_two(t, a, b) ==
    Ask(t, "locking", {a, b},
        IF a = b THEN <<index_for[a]>>
        ELSE IF a < b THEN <<index_for[a], index_for[b]>>
        ELSE <<index_for[b], index_for[a]>>)

-----------------------------------------------------------------------------
(* The mutexes. *)

Waits(t) == task[t].pc = "locking" /\ task[t].todo # <<>>

Acquire(t) ==
    /\ task[t].pc \in {"locking", "trying"}
    /\ task[t].todo # <<>>
    /\ LET i == Head(task[t].todo)
       IN  /\ pool[i] = Nobody
           /\ pool' = [pool EXCEPT ![i] = t]
           /\ task' = [task EXCEPT ![t].todo = Tail(@), ![t].guards = Append(@, i)]

\* All guards are there: the command runs.
Work(t) ==
    /\ task[t].pc \in {"locking", "trying"}
    /\ task[t].todo = <<>>
    /\ task' = [task EXCEPT ![t].pc = "working"]
    /\ UNCHANGED pool

\* A try does not wait: it drops the guards it has.
TryFailsLeaks(t) ==
    /\ task[t].pc = "trying"
    /\ task[t].todo # <<>>
    /\ pool[Head(task[t].todo)] # Nobody
    /\ task' = [task EXCEPT ![t] = Idle]
    /\ UNCHANGED pool
TryFailsLocks(t) ==
    /\ task[t].pc \in {"trying", "locking"}
    /\ task[t].todo # <<>>
    /\ pool[Head(task[t].todo)] # Nobody
    /\ task' = [task EXCEPT ![t].pc = "dropping", ![t].todo = <<>>]
    /\ UNCHANGED pool
TryFails(t) ==
    /\ task[t].pc = "trying"
    /\ task[t].todo # <<>>
    /\ pool[Head(task[t].todo)] # Nobody
    /\ task' = [task EXCEPT ![t].pc = "dropping", ![t].todo = <<>>]
    /\ UNCHANGED pool

\* The command ends, or panics: its guards go out of scope.
Finish(t) ==
    /\ task[t].pc = "working"
    /\ task' = [task EXCEPT ![t].pc = "dropping"]
    /\ UNCHANGED pool

\* The last guard first.
Drop(t) ==
    /\ task[t].pc = "dropping"
    /\ task[t].guards # <<>>
    /\ pool' = [pool EXCEPT ![task[t].guards[Len(task[t].guards)]] = Nobody]
    /\ task' = [task EXCEPT ![t].guards = SubSeq(@, 1, Len(@) - 1)]

Dropped(t) ==
    /\ task[t].pc = "dropping"
    /\ task[t].guards = <<>>
    /\ task' = [task EXCEPT ![t] = Idle]
    /\ UNCHANGED pool

-----------------------------------------------------------------------------

Init ==
    /\ pool = [i \in Shards |-> Nobody]
    /\ task = [t \in Tasks |-> Idle]

Command(t) ==
    \/ \E k \in Keys : lock(t, k) \/ try_lock(t, k)
    \/ \E keys \in SUBSET Keys : multi_lock(t, keys) \/ try_multi_lock(t, keys)
    \/ \E m \in Moves : lock_two(t, m[1], m[2])

Step(t) == Acquire(t) \/ Work(t) \/ TryFails(t) \/ Finish(t) \/ Drop(t) \/ Dropped(t)

Next == \E t \in Tasks : Command(t) \/ Step(t)

Spec == Init /\ [][Next]_vars

\* Commands end, and the mutexes are eventually fair: a thread that waits is not
\* passed over forever.
FairSpec ==
    /\ Spec
    /\ \A t \in Tasks :
        /\ WF_vars(Work(t)) /\ WF_vars(TryFails(t)) /\ WF_vars(Finish(t))
        /\ WF_vars(Drop(t)) /\ WF_vars(Dropped(t))
        /\ SF_vars(Acquire(t))

-----------------------------------------------------------------------------
(* Properties. *)

\* Two commands that work at the same time have no key in common, however many
\* keys each of them locked and whether it waited or tried.  A mutex is held by
\* exactly the command whose guards include it: a failed try_multi_lock and a
\* dropped ScopedMultiLock leave none behind.
CommandsAreExclusive ==
    /\ \A t, u \in Tasks :
        t # u /\ task[t].pc = "working" /\ task[u].pc = "working"
            => task[t].keys \cap task[u].keys = {}
    /\ \A i \in Shards, t \in Tasks :
        (pool[i] = t) <=> i \in {task[t].guards[j] : j \in DOMAIN task[t].guards}

\* No set of commands waits for mutexes that only they hold.  It may be a single
\* command that waits for its own.
NoDeadlock ==
    \A S \in (SUBSET Tasks) \ {{}} :
        \E t \in S : ~(Waits(t) /\ pool[Head(task[t].todo)] \in S)

\* A command that waits for its locks gets to work.
CommandsRun == \A t \in Tasks : Waits(t) ~> task[t].pc = "working"

=============================================================================
