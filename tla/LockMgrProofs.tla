--------------------------- MODULE LockMgrProofs ---------------------------
(***************************************************************************)
(* The record locks, for any number of threads, keys and mutexes: commands *)
(* exclude each other whatever they lock, and they never wait for each     *)
(* other in a circle as long as the two keys of SMOVE and RPOPLPUSH are in *)
(* the order of their mutexes.                                             *)
(***************************************************************************)
EXTENDS LockMgr, DataLemmas

Held(t) == {task[t].guards[j] : j \in DOMAIN task[t].guards}
Wanted(t) == {task[t].todo[j] : j \in DOMAIN task[t].todo}

Typed ==
    /\ pool \in [Shards -> Tasks \cup {Nobody}]
    /\ task \in [Tasks -> [pc : {"idle", "locking", "trying", "working", "dropping"},
                           keys : SUBSET Keys, todo : Seq(Shards), guards : Seq(Shards)]]

\* A mutex is held by the command that has its guard, which has it once.
GuardsHold ==
    /\ \A i \in Shards, t \in Tasks : pool[i] = t <=> i \in Held(t)
    /\ \A t \in Tasks : \A i, j \in DOMAIN task[t].guards :
        task[t].guards[i] = task[t].guards[j] => i = j

\* A command has, or still asks for, the mutex of each of its keys.
KeysCovered ==
    \A t \in Tasks :
        /\ task[t].pc \in {"locking", "trying", "working"} =>
            \A k \in task[t].keys : index_for[k] \in Held(t) \cup Wanted(t)
        /\ task[t].pc = "working" => task[t].todo = <<>>
        /\ task[t].pc = "idle" => task[t].guards = <<>>

IInv == Typed /\ GuardsHold /\ KeysCovered

\* A command that waits holds only mutexes below the ones it still asks for,
\* which it takes in increasing order.
Ordered ==
    \A t \in Tasks :
        /\ \A i, j \in DOMAIN task[t].todo : i < j => task[t].todo[i] < task[t].todo[j]
        /\ \A i \in DOMAIN task[t].guards, j \in DOMAIN task[t].todo :
            task[t].guards[i] < task[t].todo[j]

\* The keys of the two-key commands are in the order of their mutexes.
MovesInOrder ==
    \A m \in Moves :
        /\ m[1] < m[2] => index_for[m[1]] < index_for[m[2]]
        /\ m[2] < m[1] => index_for[m[2]] < index_for[m[1]]

-----------------------------------------------------------------------------

\* multi_lock takes each mutex of its keys once, in increasing order.
LEMMA SortedIndexes ==
    ASSUME NEW keys \in SUBSET Keys
    PROVE  /\ sorted_indexes(keys) \in Seq(Shards)
           /\ \A i, j \in DOMAIN sorted_indexes(keys) :
                i < j => sorted_indexes(keys)[i] < sorted_indexes(keys)[j]
           /\ \A k \in keys : \E i \in DOMAIN sorted_indexes(keys) :
                sorted_indexes(keys)[i] = index_for[k]
<1> DEFINE S == {index_for[k] : k \in keys}
           n == Cardinality(S)
           Up(f) == \A i, j \in DOMAIN f : i < j => f[i] < f[j]
           q == sorted_indexes(keys)
<1>1. S \in SUBSET Shards /\ S \in SUBSET Nat /\ IsFiniteSet(S)
    <2>1. S \in SUBSET Shards BY LockMgrAssumption, Zenon
    <2>2. IsFiniteSet(Shards) /\ Shards \in SUBSET Nat
        BY LockMgrAssumption, FS_Interval DEF Shards
    <2> QED BY <2>1, <2>2, FS_Subset, Zenon
<1>2. n \in Nat
    BY <1>1, FS_CardinalityType, Zenon
<1>3. \E f \in [1..n -> S] : Up(f)
    <2> HIDE DEF S
    <2>1. PICK f \in [1..n -> S] : \A i, j \in 1..n : i < j => f[i] < f[j]
        BY <1>1, IncreasingEnumeration, Zenon
    <2>2. Up(f) BY <2>1, Zenon
    <2> QED BY <2>2, Zenon
<1>4. q \in [1..n -> S] /\ Up(q)
    <2>1. q = CHOOSE f \in [1..n -> S] : Up(f) BY Zenon DEF sorted_indexes, Ascending
    <2> HIDE DEF S, Up, q
    <2> QED BY <1>3, <2>1, Zenon
<1> HIDE DEF q, S
<1>5. \A i, j \in 1..n : i # j => q[i] # q[j]
    <2> SUFFICES ASSUME NEW i \in 1..n, NEW j \in 1..n, i # j PROVE q[i] # q[j] BY Zenon
    <2>1. q[i] \in Nat /\ q[j] \in Nat BY <1>1, <1>4, Zenon
    <2>2. i < j \/ j < i BY <1>2
    <2>3. q[i] < q[j] \/ q[j] < q[i] BY <1>4, <2>2, Zenon
    <2> QED BY <2>1, <2>3
<1>6. \A x \in S : \E i \in 1..n : q[i] = x
    BY <1>1, <1>4, <1>5, EnumerationCovers, Zenon
<1>7. q \in Seq(Shards)
    <2>1. q \in [1..n -> Shards] BY <1>1, <1>4, Zenon
    <2> HIDE DEF n
    <2> QED BY <1>2, <2>1
<1>8. \A k \in keys : index_for[k] \in S
    BY Zenon DEF S
<1>9. DOMAIN q = 1..n
    BY <1>4, Zenon
<1> QED BY <1>4, <1>6, <1>7, <1>8, <1>9, Zenon DEF q

-----------------------------------------------------------------------------
(* Asking for locks. *)

\* What a command asks for covers its keys.
Covers(keys, indexes) ==
    /\ indexes \in Seq(Shards)
    /\ \A k \in keys : \E i \in DOMAIN indexes : indexes[i] = index_for[k]

Rises(q) == \A i, j \in DOMAIN q : i < j => q[i] < q[j]

LEMMA AskSafe ==
    ASSUME IInv, NEW t \in Tasks, NEW pc \in {"locking", "trying"},
           NEW keys \in SUBSET Keys, NEW indexes, Covers(keys, indexes),
           Ask(t, pc, keys, indexes)
    PROVE  /\ IInv'
           /\ Ordered /\ Rises(indexes) => Ordered'
<1> DEFINE r == [pc |-> pc, keys |-> keys, todo |-> indexes, guards |-> <<>>]
<1>1. task' = [task EXCEPT ![t] = r] /\ pool' = pool /\ task[t].pc = "idle"
    BY Zenon DEF Ask
<1>2. task'[t] = r /\ \A u \in Tasks \ {t} : task'[u] = task[u]
    BY <1>1, Zenon DEF IInv, Typed
<1>3. task[t].guards = <<>>
    BY <1>1, Zenon DEF IInv, KeysCovered
<1>4. \A u \in Tasks : task'[u].guards = task[u].guards
    BY <1>2, <1>3
<1>5. Typed'
    BY <1>1 DEF IInv, Typed, Covers
<1>6. GuardsHold'
    BY <1>1, <1>4 DEF IInv, GuardsHold, Held
<1>7. KeysCovered'
    BY <1>2 DEF IInv, KeysCovered, Covers, Held, Wanted
<1>8. ASSUME Ordered, Rises(indexes) PROVE Ordered'
    BY <1>2, <1>8 DEF Ordered, Rises
<1> QED BY <1>5, <1>6, <1>7, <1>8, Zenon DEF IInv

LEMMA CommandSafe ==
    ASSUME IInv, NEW t \in Tasks, Command(t)
    PROVE  /\ IInv'
           /\ MovesInOrder /\ Ordered => Ordered'
<1>1. \A k \in Keys : Covers({k}, <<index_for[k]>>) /\ Rises(<<index_for[k]>>)
    BY LockMgrAssumption DEF Covers, Rises
<1>2. \A keys \in SUBSET Keys : Covers(keys, sorted_indexes(keys)) /\ Rises(sorted_indexes(keys))
    BY SortedIndexes, Zenon DEF Covers, Rises
<1>3. ASSUME NEW k \in Keys, lock(t, k) \/ try_lock(t, k)
      PROVE  IInv' /\ (MovesInOrder /\ Ordered => Ordered')
    BY <1>1, <1>3, AskSafe, Zenon DEF lock, try_lock
<1>4. ASSUME NEW keys \in SUBSET Keys, multi_lock(t, keys) \/ try_multi_lock(t, keys)
      PROVE  IInv' /\ (MovesInOrder /\ Ordered => Ordered')
    BY <1>2, <1>4, AskSafe, Zenon DEF multi_lock, try_multi_lock
<1>5. ASSUME NEW m \in Moves, lock_two(t, m[1], m[2])
      PROVE  IInv' /\ (MovesInOrder /\ Ordered => Ordered')
    <2> DEFINE a == m[1]
               b == m[2]
    <2>1. a \in Keys /\ b \in Keys /\ a \in Nat /\ b \in Nat
          /\ index_for[a] \in Shards /\ index_for[b] \in Shards
        BY LockMgrAssumption, Zenon
    <2>2. MovesInOrder => /\ a < b => index_for[a] < index_for[b]
                          /\ b < a => index_for[b] < index_for[a]
        BY Zenon DEF MovesInOrder
    <2> HIDE DEF a, b
    <2>3. CASE a = b
        <3>1. Ask(t, "locking", {a, b}, <<index_for[a]>>) BY <1>5, <2>3, Zenon DEF lock_two, a, b
        <3>2. Covers({a, b}, <<index_for[a]>>) /\ Rises(<<index_for[a]>>)
            BY <2>1, <2>3 DEF Covers, Rises
        <3> QED BY <2>1, <3>1, <3>2, AskSafe, Zenon
    <2>4. CASE a < b
        <3>1. Ask(t, "locking", {a, b}, <<index_for[a], index_for[b]>>)
            BY <1>5, <2>1, <2>4 DEF lock_two, a, b
        <3>2. Covers({a, b}, <<index_for[a], index_for[b]>>)
            BY <2>1 DEF Covers
        <3>3. MovesInOrder => Rises(<<index_for[a], index_for[b]>>)
            BY <2>2, <2>4 DEF Rises
        <3> QED BY <2>1, <3>1, <3>2, <3>3, AskSafe, Zenon
    <2>5. CASE b < a
        <3>1. Ask(t, "locking", {a, b}, <<index_for[b], index_for[a]>>)
            BY <1>5, <2>1, <2>5 DEF lock_two, a, b
        <3>2. Covers({a, b}, <<index_for[b], index_for[a]>>)
            BY <2>1 DEF Covers
        <3>3. MovesInOrder => Rises(<<index_for[b], index_for[a]>>)
            BY <2>2, <2>5 DEF Rises
        <3> QED BY <2>1, <3>1, <3>2, <3>3, AskSafe, Zenon
    <2> QED BY <2>1, <2>3, <2>4, <2>5
<1> QED BY <1>3, <1>4, <1>5, Zenon DEF Command

-----------------------------------------------------------------------------
(* The mutexes. *)

\* Taking a mutex that is free: nobody had its guard.
LEMMA AcquireSafe ==
    ASSUME IInv, NEW t \in Tasks, Acquire(t)
    PROVE  IInv' /\ (Ordered => Ordered')
<1> DEFINE i == Head(task[t].todo)
           todo == task[t].todo
           guards == task[t].guards
<1>1. /\ task[t].pc \in {"locking", "trying"}
      /\ todo \in Seq(Shards) /\ guards \in Seq(Shards) /\ todo # <<>>
      /\ i = Head(todo) /\ i \in Shards
      /\ pool[i] = Nobody /\ pool' = [pool EXCEPT ![i] = t]
      /\ task' = [task EXCEPT ![t].todo = Tail(@), ![t].guards = Append(@, i)]
    BY DEF Acquire, IInv, Typed
<1>2. /\ task'[t].todo = Tail(todo) /\ task'[t].guards = Append(guards, i)
      /\ task'[t].pc = task[t].pc /\ task'[t].keys = task[t].keys
      /\ \A u \in Tasks \ {t} : task'[u] = task[u]
    BY <1>1, Zenon DEF IInv, Typed
<1>3. Typed'
    BY <1>1 DEF IInv, Typed
<1> HIDE DEF i, todo, guards
<1>4. /\ DOMAIN guards = 1..Len(guards) /\ Len(guards) \in Nat
      /\ DOMAIN task'[t].guards = 1..(Len(guards) + 1)
      /\ \A a \in 1..Len(guards) : task'[t].guards[a] = guards[a]
      /\ task'[t].guards[Len(guards) + 1] = i
    <2>1. guards \in Seq(Shards) /\ i \in Shards /\ task'[t].guards = Append(guards, i) BY <1>1, <1>2, Zenon
    <2> QED BY <2>1, AppendFacts
<1>5. /\ DOMAIN todo = 1..Len(todo) /\ Len(todo) \in Nat \ {0} /\ i = todo[1]
      /\ DOMAIN task'[t].todo = 1..(Len(todo) - 1)
      /\ \A a \in 1..(Len(todo) - 1) : task'[t].todo[a] = todo[a + 1]
    <2>1. todo \in Seq(Shards) /\ todo # <<>> /\ i = Head(todo) /\ task'[t].todo = Tail(todo) BY <1>1, <1>2, Zenon
    <2> QED BY <2>1, TailFacts, Zenon
<1>6. \A u \in Tasks : i \notin Held(u)
    BY <1>1, LockMgrAssumption DEF IInv, GuardsHold
<1>7. Held(t)' = Held(t) \cup {i} /\ \A u \in Tasks \ {t} : Held(u)' = Held(u)
    <2>1. Held(t) = {guards[a] : a \in 1..Len(guards)} BY <1>4, Zenon DEF Held, guards
    <2>2. Held(t)' = {task'[t].guards[a] : a \in 1..(Len(guards) + 1)} BY <1>4, Zenon DEF Held
    <2>3. 1..(Len(guards) + 1) = 1..Len(guards) \cup {Len(guards) + 1} BY <1>4
    <2>4. Held(t)' = {task'[t].guards[a] : a \in 1..Len(guards)} \cup {task'[t].guards[Len(guards) + 1]}
        BY <2>2, <2>3, Zenon
    <2>5. {task'[t].guards[a] : a \in 1..Len(guards)} = {guards[a] : a \in 1..Len(guards)}
        BY <1>4, Zenon
    <2>6. Held(t)' = Held(t) \cup {i} BY <1>4, <2>1, <2>4, <2>5, Zenon
    <2>7. ASSUME NEW u \in Tasks \ {t} PROVE Held(u)' = Held(u)
        <3>1. task'[u] = task[u] BY <1>2, Zenon
        <3> QED BY <3>1, Zenon DEF Held
    <2> QED BY <2>6, <2>7, Zenon
<1>8. Wanted(t) \subseteq Wanted(t)' \cup {i} /\ \A u \in Tasks \ {t} : Wanted(u)' = Wanted(u)
    <2>1. ASSUME NEW x \in Wanted(t), x # i PROVE x \in Wanted(t)'
        <3>1. PICK a \in 1..Len(todo) : x = todo[a] BY <1>5, Zenon DEF Wanted, todo
        <3>2. a - 1 \in 1..(Len(todo) - 1) /\ (a - 1) + 1 = a BY <1>5, <2>1, <3>1
        <3>3. task'[t].todo[a - 1] = x BY <1>5, <3>1, <3>2, Zenon
        <3> QED BY <1>5, <3>2, <3>3, Zenon DEF Wanted
    <2> QED BY <1>2, <2>1, Zenon DEF Wanted
<1>9. GuardsHold'
    <2>1. \A j \in Shards, u \in Tasks : pool'[j] = u <=> j \in Held(u)'
        <3> TAKE j \in Shards, u \in Tasks
        <3>1. pool[j] = u <=> j \in Held(u) BY Zenon DEF IInv, GuardsHold
        <3>2. CASE j = i
            <4>1. pool'[j] = t BY <1>1, <3>2, Zenon DEF IInv, Typed
            <4> QED BY <1>6, <1>7, <3>2, <4>1, Zenon
        <3>3. CASE j # i
            <4>1. pool'[j] = pool[j] BY <1>1, <3>3, Zenon DEF IInv, Typed
            <4> QED BY <1>7, <3>1, <3>3, <4>1, Zenon
        <3> QED BY <3>2, <3>3, Zenon
    <2>2. \A u \in Tasks : \A a, b \in DOMAIN task'[u].guards :
            task'[u].guards[a] = task'[u].guards[b] => a = b
        <3>1. \A a \in 1..Len(guards) : guards[a] # i BY <1>4, <1>6, Zenon DEF Held, guards
        <3>2. \A a, b \in 1..Len(guards) : guards[a] = guards[b] => a = b
            BY <1>4, Zenon DEF IInv, GuardsHold, guards
        <3>3. \A a \in 1..(Len(guards) + 1) : a \in 1..Len(guards) \/ a = Len(guards) + 1
            BY <1>4
        <3>4. \A a, b \in 1..(Len(guards) + 1) : task'[t].guards[a] = task'[t].guards[b] => a = b
            BY <1>4, <3>1, <3>2, <3>3
        <3> QED BY <1>2, <1>4, <3>4 DEF IInv, GuardsHold
    <2> QED BY <2>1, <2>2, Zenon DEF GuardsHold
<1>10. KeysCovered'
    <2>1. \A u \in Tasks : Held(u) \cup Wanted(u) \subseteq Held(u)' \cup Wanted(u)'
        BY <1>7, <1>8, Zenon
    <2> QED BY <1>1, <1>2, <2>1, ZenonT(60) DEF IInv, KeysCovered
<1>11. ASSUME Ordered PROVE Ordered'
    <2>1. \A a, b \in 1..Len(todo) : a < b => todo[a] < todo[b]
        BY <1>5, <1>11, Zenon DEF Ordered, todo
    <2>2. \A a \in 1..Len(guards), b \in 1..Len(todo) : guards[a] < todo[b]
        BY <1>4, <1>5, <1>11, Zenon DEF Ordered, todo, guards
    <2>3. \A b \in 1..(Len(todo) - 1) : b \in Nat /\ b + 1 \in 1..Len(todo) /\ 1 < b + 1 /\ 1 \in 1..Len(todo)
        BY <1>5
    <2>4. \A a, b \in 1..(Len(todo) - 1) : a < b => todo[a + 1] < todo[b + 1]
        BY <2>1, <2>3
    <2>5. \A a \in 1..(Len(guards) + 1), b \in 1..(Len(todo) - 1) : task'[t].guards[a] < task'[t].todo[b]
        <3> TAKE a \in 1..(Len(guards) + 1), b \in 1..(Len(todo) - 1)
        <3>1. task'[t].todo[b] = todo[b + 1] /\ i < todo[b + 1] BY <1>5, <2>1, <2>3, Zenon
        <3>2. CASE a \in 1..Len(guards) BY <1>4, <2>2, <2>3, <3>1, <3>2, Zenon
        <3>3. CASE a = Len(guards) + 1 BY <1>4, <3>1, <3>3, Zenon
        <3> QED BY <1>4, <3>2, <3>3
    <2>6. \A a, b \in DOMAIN task'[t].todo : a < b => task'[t].todo[a] < task'[t].todo[b]
        BY <1>5, <2>4, Zenon
    <2>7. \A a \in DOMAIN task'[t].guards, b \in DOMAIN task'[t].todo :
            task'[t].guards[a] < task'[t].todo[b]
        BY <1>4, <1>5, <2>5
    <2> QED BY <1>2, <1>11, <2>6, <2>7, ZenonT(30) DEF Ordered
<1> QED BY <1>3, <1>9, <1>10, <1>11, Zenon DEF IInv

\* Starting to work, giving up and ending: no guard changes hands.
LEMMA ControlSafe ==
    ASSUME IInv, NEW t \in Tasks, Work(t) \/ TryFails(t) \/ Finish(t) \/ Dropped(t)
    PROVE  IInv' /\ (Ordered => Ordered')
<1> DEFINE Types == [pc : {"idle", "locking", "trying", "working", "dropping"},
                     keys : SUBSET Keys, todo : Seq(Shards), guards : Seq(Shards)]
           Steps(r) == /\ r \in Types /\ r.guards = task[t].guards /\ r.todo \in {task[t].todo, <<>>}
                       /\ r.pc \in {"working", "dropping", "idle"}
                       /\ r.pc = "idle" => r.guards = <<>>
                       /\ r.pc = "working" => /\ r.keys = task[t].keys /\ r.todo = task[t].todo
                                              /\ task[t].todo = <<>> /\ task[t].pc \in {"locking", "trying"}
<1>1. pool' = pool /\ \E r : Steps(r) /\ task' = [task EXCEPT ![t] = r]
    <2>1. task[t] \in Types BY Zenon DEF IInv, Typed
    <2>2. CASE Work(t)
        <3> DEFINE r == [task[t] EXCEPT !.pc = "working"]
        <3>1. Steps(r) BY <2>1, <2>2, Zenon DEF Work
        <3>2. task' = [task EXCEPT ![t] = r] BY <2>2, Zenon DEF Work
        <3> QED BY <2>2, <3>1, <3>2, Zenon DEF Work
    <2>3. CASE TryFails(t)
        <3> DEFINE r == [task[t] EXCEPT !.pc = "dropping", !.todo = <<>>]
        <3>1. Steps(r) BY <2>1, <2>3, EmptySeq, Zenon DEF TryFails
        <3>2. task' = [task EXCEPT ![t] = r] BY <2>1, <2>3, Zenon DEF TryFails
        <3> QED BY <2>3, <3>1, <3>2, Zenon DEF TryFails
    <2>4. CASE Finish(t)
        <3> DEFINE r == [task[t] EXCEPT !.pc = "dropping"]
        <3>1. Steps(r) BY <2>1, <2>4, Zenon DEF Finish
        <3>2. task' = [task EXCEPT ![t] = r] BY <2>4, Zenon DEF Finish
        <3> QED BY <2>4, <3>1, <3>2, Zenon DEF Finish
    <2>5. CASE Dropped(t)
        <3>1. Steps(Idle) BY <2>1, <2>5, Zenon DEF Dropped, Idle
        <3> QED BY <2>5, <3>1, Zenon DEF Dropped
    <2> QED BY <2>2, <2>3, <2>4, <2>5, Zenon
<1>2. PICK r : Steps(r) /\ task' = [task EXCEPT ![t] = r]
    BY <1>1, Zenon
<1>3. task'[t] = r /\ \A u \in Tasks \ {t} : task'[u] = task[u]
    BY <1>2, Zenon DEF IInv, Typed
<1>4. Typed'
    BY <1>1, <1>2, Zenon DEF IInv, Typed
<1>5. GuardsHold'
    BY <1>1, <1>2, <1>3 DEF IInv, GuardsHold, Held
<1>6. KeysCovered'
    BY <1>2, <1>3 DEF IInv, KeysCovered, Held, Wanted
<1>7. Ordered => Ordered'
    BY <1>2, <1>3 DEF Ordered
<1> QED BY <1>1, <1>4, <1>5, <1>6, <1>7 DEF IInv

\* Dropping the last guard.
LEMMA DropSafe ==
    ASSUME IInv, NEW t \in Tasks, Drop(t)
    PROVE  IInv' /\ (Ordered => Ordered')
<1> DEFINE guards == task[t].guards
           i == guards[Len(guards)]
<1>1. /\ guards \in Seq(Shards) /\ guards # <<>> /\ i \in Shards /\ task[t].pc = "dropping"
      /\ pool' = [pool EXCEPT ![i] = Nobody]
      /\ task' = [task EXCEPT ![t].guards = SubSeq(@, 1, Len(@) - 1)]
    BY DEF Drop, IInv, Typed
<1>2. /\ task'[t].guards = SubSeq(guards, 1, Len(guards) - 1)
      /\ task'[t].pc = "dropping" /\ task'[t].todo = task[t].todo
      /\ \A u \in Tasks \ {t} : task'[u] = task[u]
    BY <1>1, Zenon DEF IInv, Typed
<1>3. /\ DOMAIN guards = 1..Len(guards) /\ Len(guards) \in Nat \ {0}
      /\ DOMAIN task'[t].guards = 1..(Len(guards) - 1)
      /\ \A a \in 1..(Len(guards) - 1) : task'[t].guards[a] = guards[a]
      /\ task'[t].guards \in Seq(Shards)
    BY <1>1, <1>2, FrontFacts
<1>4. Typed'
    <2>1. task' = [task EXCEPT ![t].guards = task'[t].guards] BY <1>1, <1>2, Zenon
    <2>2. task'[t].guards \in Seq(Shards) BY <1>3, Zenon
    <2> HIDE DEF i, guards
    <2>3. pool' \in [Shards -> Tasks \cup {Nobody}] BY <1>1, Zenon DEF IInv, Typed
    <2> QED BY <2>1, <2>2, <2>3, ZenonT(60) DEF IInv, Typed
<1> HIDE DEF i, guards
<1>5. \A a, b \in 1..Len(guards) : guards[a] = guards[b] => a = b
    BY <1>3, Zenon DEF IInv, GuardsHold, guards
<1>6. Held(t)' = Held(t) \ {i} /\ i \in Held(t) /\ \A u \in Tasks \ {t} : Held(u)' = Held(u)
    <2>1. Held(t) = {guards[a] : a \in 1..Len(guards)} BY <1>3, Zenon DEF Held, guards
    <2>2. Held(t)' = {guards[a] : a \in 1..(Len(guards) - 1)} BY <1>3, Zenon DEF Held
    <2>3. /\ Len(guards) \in 1..Len(guards)
          /\ \A a \in 1..Len(guards) : a \in 1..(Len(guards) - 1) \/ a = Len(guards)
          /\ \A a \in 1..(Len(guards) - 1) : a \in 1..Len(guards) /\ a # Len(guards)
        <3> DEFINE n == Len(guards)
        <3>1. n \in Nat \ {0} BY <1>3, Zenon
        <3> HIDE DEF n
        <3>2. /\ n \in 1..n
              /\ \A a \in 1..n : a \in 1..(n - 1) \/ a = n
              /\ \A a \in 1..(n - 1) : a \in 1..n /\ a # n
            BY <3>1
        <3> QED BY <3>2, Zenon DEF n
    <2>4. i = guards[Len(guards)] BY Zenon DEF i
    <2>5. \A a \in 1..(Len(guards) - 1) : guards[a] # i
        BY <1>5, <2>3, <2>4, Zenon
    <2>6. Held(t)' = Held(t) \ {i} /\ i \in Held(t)
        BY <2>1, <2>2, <2>3, <2>4, <2>5, Zenon
    <2>7. \A u \in Tasks \ {t} : Held(u)' = Held(u)
        BY <1>2, Zenon DEF Held
    <2> QED BY <2>6, <2>7, Zenon
<1>7. GuardsHold'
    <2>1. \A j \in Shards, u \in Tasks : pool'[j] = u <=> j \in Held(u)'
        <3> TAKE j \in Shards, u \in Tasks
        <3>1. pool[j] = u <=> j \in Held(u) BY Zenon DEF IInv, GuardsHold
        <3>2. pool[j] = t <=> j \in Held(t) BY Zenon DEF IInv, GuardsHold
        <3>3. CASE j = i
            <4>1. pool'[j] = Nobody BY <1>1, <3>3, Zenon DEF IInv, Typed
            <4>2. j \notin Held(u)' BY <1>6, <3>1, <3>2, <3>3, Zenon
            <4> QED BY <4>1, <4>2, LockMgrAssumption, Zenon
        <3>4. CASE j # i
            <4>1. pool'[j] = pool[j] BY <1>1, <3>4, Zenon DEF IInv, Typed
            <4> QED BY <1>6, <3>1, <3>4, <4>1, Zenon
        <3> QED BY <3>3, <3>4, Zenon
    <2>2. \A u \in Tasks : \A a, b \in DOMAIN task'[u].guards :
            task'[u].guards[a] = task'[u].guards[b] => a = b
        BY <1>2, <1>3, <1>5 DEF IInv, GuardsHold
    <2> QED BY <2>1, <2>2, Zenon DEF GuardsHold
<1>8. KeysCovered'
    <2>1. \A u \in Tasks \ {t} : Held(u)' = Held(u) /\ Wanted(u)' = Wanted(u)
        BY <1>2, <1>6, Zenon DEF Wanted
    <2> QED BY <1>2, <2>1, Zenon DEF IInv, KeysCovered
<1>9. Ordered => Ordered'
    <2>1. \A a \in DOMAIN task'[t].guards : a \in DOMAIN guards /\ task'[t].guards[a] = guards[a]
        BY <1>3
    <2>2. task'[t].todo = task[t].todo BY <1>2, Zenon
    <2>3. Ordered => \A a \in DOMAIN guards, b \in DOMAIN task[t].todo : guards[a] < task[t].todo[b]
        BY Zenon DEF Ordered, guards
    <2> QED BY <1>2, <2>1, <2>2, <2>3 DEF Ordered
<1> QED BY <1>4, <1>7, <1>8, <1>9, Zenon DEF IInv

-----------------------------------------------------------------------------
(* The theorems. *)

\* No command runs and all mutexes are free.
LEMMA InitSafe == Init => IInv /\ Ordered
<1> SUFFICES ASSUME Init PROVE IInv /\ Ordered BY Zenon
<1>1. \A t \in Tasks : task[t] = [pc |-> "idle", keys |-> {}, todo |-> <<>>, guards |-> <<>>]
    BY Zenon DEF Init, Idle
<1>2. \A t \in Tasks : Held(t) = {}
    BY <1>1 DEF Held
<1>3. Typed
    <2>1. Idle \in [pc : {"idle", "locking", "trying", "working", "dropping"},
                    keys : SUBSET Keys, todo : Seq(Shards), guards : Seq(Shards)]
        BY DEF Idle
    <2> QED BY <2>1, Zenon DEF Init, Typed
<1>4. GuardsHold
    <2>1. \A i \in Shards, t \in Tasks : pool[i] # t BY LockMgrAssumption, Zenon DEF Init
    <2> QED BY <1>1, <1>2, <2>1 DEF GuardsHold
<1>5. KeysCovered /\ Ordered
    BY <1>1 DEF KeysCovered, Ordered
<1> QED BY <1>3, <1>4, <1>5, Zenon DEF IInv

LEMMA NextSafe ==
    IInv /\ [Next]_vars => IInv' /\ (MovesInOrder /\ Ordered => Ordered')
<1> SUFFICES ASSUME IInv, [Next]_vars
             PROVE  IInv' /\ (MovesInOrder /\ Ordered => Ordered')
    BY Zenon
<1>1. CASE UNCHANGED vars
    BY <1>1 DEF vars, IInv, Typed, GuardsHold, KeysCovered, Ordered, Held, Wanted
<1>2. ASSUME NEW t \in Tasks, Command(t) \/ Step(t)
      PROVE  IInv' /\ (MovesInOrder /\ Ordered => Ordered')
    BY <1>2, CommandSafe, AcquireSafe, ControlSafe, DropSafe, Zenon DEF Step
<1> QED BY <1>1, <1>2, Zenon DEF Next

\* Two commands that work have the mutex of each of their keys, and a mutex has
\* one holder.
LEMMA GuardsExclude == IInv => CommandsAreExclusive
<1> SUFFICES ASSUME IInv PROVE CommandsAreExclusive BY Zenon
<1>1. ASSUME NEW t \in Tasks, task[t].pc = "working", NEW k \in task[t].keys
      PROVE  index_for[k] \in Shards /\ pool[index_for[k]] = t
    <2>1. k \in Keys /\ index_for[k] \in Shards
        BY LockMgrAssumption, Zenon DEF IInv, Typed
    <2>2. index_for[k] \in Held(t)
        BY <1>1 DEF IInv, KeysCovered, Wanted
    <2> QED BY <2>1, <2>2, Zenon DEF IInv, GuardsHold
<1>2. \A t, u \in Tasks :
        t # u /\ task[t].pc = "working" /\ task[u].pc = "working"
            => task[t].keys \cap task[u].keys = {}
    BY <1>1, Zenon
<1> QED BY <1>2, Zenon DEF IInv, GuardsHold, Held, CommandsAreExclusive

\* Commands that work at the same time have no key in common, and a mutex is
\* held by exactly the command whose guards include it: for any number of
\* threads, keys and mutexes, whatever commands lock and however they end.
THEOREM Exclusion == Spec => []CommandsAreExclusive
<1>1. Init => IInv BY InitSafe, Zenon
<1>2. IInv /\ [Next]_vars => IInv' BY NextSafe, Zenon
<1>3. IInv => CommandsAreExclusive BY GuardsExclude, Zenon
<1> QED BY <1>1, <1>2, <1>3, PTL DEF Spec

\* Of commands that wait for each other, the holder of the greatest mutex that is
\* waited for would itself wait for a greater one.
LEMMA NobodyWaitsInACircle == IInv /\ Ordered => NoDeadlock
<1> SUFFICES ASSUME IInv, Ordered, NEW S \in SUBSET Tasks, S # {},
                    \A t \in S : Waits(t) /\ pool[Head(task[t].todo)] \in S
             PROVE  FALSE
    BY Zenon DEF NoDeadlock
<1> DEFINE want(t) == Head(task[t].todo)
           T == {want(t) : t \in S}
<1>1. \A t \in S : /\ want(t) \in Shards /\ task[t].todo # <<>>
                   /\ DOMAIN task[t].todo # {} /\ 1 \in DOMAIN task[t].todo /\ want(t) = task[t].todo[1]
    BY DEF IInv, Typed, Waits
<1>2. \A t \in S : \E u \in S : pool[want(t)] = u /\ want(t) < want(u)
    <2> TAKE t \in S
    <2>1. PICK u \in S : pool[want(t)] = u BY Zenon
    <2>2. want(t) \in Held(u) BY <1>1, <2>1 DEF IInv, GuardsHold
    <2>3. want(t) < want(u) BY <1>1, <2>2, Zenon DEF Ordered, Held
    <2> QED BY <2>1, <2>3, Zenon
<1> HIDE DEF want
<1>3. T \in SUBSET (0..PoolSize) /\ T # {} /\ PoolSize \in Nat
    BY <1>1, LockMgrAssumption DEF Shards
<1>4. PICK x \in T : \A y \in T : y <= x
    BY <1>3, GreatestNat, Zenon
<1>5. PICK t \in S : x = want(t)
    BY Zenon
<1>6. PICK u \in S : x < want(u)
    BY <1>2, <1>5, Zenon
<1>7. want(u) <= x /\ want(u) \in Nat /\ x \in Nat
    BY <1>3, <1>4
<1> QED BY <1>6, <1>7

\* No set of commands waits for mutexes that only they hold, for any number of
\* threads, keys and mutexes, if the keys of SMOVE and RPOPLPUSH are in the
\* order of their mutexes.  Commands of one key and of multi_lock need no such
\* condition.
THEOREM DeadlockFreedom == MovesInOrder => (Spec => []NoDeadlock)
<1> SUFFICES ASSUME MovesInOrder PROVE Spec => []NoDeadlock BY Zenon
<1>1. Init => IInv /\ Ordered BY InitSafe, Zenon
<1>2. IInv /\ Ordered /\ [Next]_vars => (IInv /\ Ordered)' BY NextSafe, Zenon
<1>3. IInv /\ Ordered => NoDeadlock BY NobodyWaitsInACircle, Zenon
<1> QED BY <1>1, <1>2, <1>3, PTL DEF Spec
=============================================================================
