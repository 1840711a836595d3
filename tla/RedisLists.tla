----------------------------- MODULE RedisLists -----------------------------
(***************************************************************************)
(* The list commands of one storage instance.                               *)
(*                                                                          *)
(* A list is a meta value (count, version, left and right index) and one    *)
(* data entry per element, stored under the version and an index.  The      *)
(* element at position i (from 1) is at index left + i; right is the index  *)
(* of the last element.  Commands hold the record locks of their keys and   *)
(* commit one batch, except RPOPLPUSH, which commits two, and LRANGE, which *)
(* takes no lock and reads the meta value and then element after element.   *)
(***************************************************************************)
EXTENDS Integers, Sequences, FiniteSets

CONSTANTS
    Keys,             \* user keys of one slot
    Values,           \* list elements
    PushArgs,         \* argument lists of LPUSH and RPUSH
    Ranges,           \* <<start, stop>> of LTRIM
    Readers,          \* clients inside LRANGE 0 -1
    MaxLength,        \* bound on the length of a list
    MaxVersion        \* bound on the number of committed batches

\* "none" stands for no key in the records below.
ASSUME KeysAssumption == "none" \notin Keys

ASSUME ArgsAssumption ==
    /\ PushArgs \subseteq Seq(Values) \ {<<>>}
    /\ Ranges \subseteq Int \X Int
    /\ {MaxLength, MaxVersion} \subseteq Nat

VARIABLES
    clock,    \* microseconds: one more for every batch
    meta,     \* the default column family
    data,     \* the lists data column family, a function on positions
    moving,   \* the RPOPLPUSH between its two batches
    reader,   \* the LRANGE commands in progress
    expect,   \* history: the list a client may expect under every key
    reply,    \* history: was the last popped answer the expected one?
    seen      \* history: the lists under the key of each LRANGE

vars == <<clock, meta, data, moving, reader, expect, reply, seen>>

\* INITIAL_LEFT_INDEX is 2^63 - 1: far from both ends.
InitialLeft == 50

NoMeta == [type |-> "none", count |-> 0, version |-> 0, left |-> 0, right |-> 0,
           expired |-> FALSE]

NoMove == [source |-> "none", destination |-> "none", value |-> "none"]

NoRead == [pc |-> "idle", key |-> "none", meta |-> NoMeta, i |-> 0, result |-> <<>>]

At(k, v, i) == [key |-> k, version |-> v, index |-> i]

-----------------------------------------------------------------------------
(* Sequences.  These five are as in the community module SequencesExt, which is *)
(* not extended: all it defines would be in the context of every proof step.    *)

ToSet(s) == {s[i] : i \in DOMAIN s}

Reverse(s) == [i \in 1..Len(s) |-> s[(Len(s) - i) + 1]]

Front(s) == SubSeq(s, 1, Len(s) - 1)

Last(s) == s[Len(s)]

InsertAt(s, i, e) == SubSeq(s, 1, i - 1) \o <<e>> \o SubSeq(s, i, Len(s))

-----------------------------------------------------------------------------
(* Reading the store. *)

check_type_state(k) ==
    IF meta[k] = NoMeta THEN "Missing"
    ELSE IF meta[k].expired \/ (meta[k].type = "list" /\ meta[k].count = 0) THEN "Stale"
    ELSE IF meta[k].type = "list" THEN "Match" ELSE "WrongType"

Fresh(k) == check_type_state(k) \in {"Missing", "Stale"}
Matches(k) == check_type_state(k) = "Match"
WrongType(k) == check_type_state(k) = "WrongType"

update_version(v) == IF v >= clock THEN v + 1 ELSE clock

new_list_meta ==
    [type |-> "list", count |-> 0, version |-> update_version(0),
     left |-> InitialLeft, right |-> InitialLeft + 1, expired |-> FALSE]

\* The numbers in a set, in order: each at the place its rank gives it.
Ascending(S) ==
    [i \in 1..Cardinality(S) |-> CHOOSE x \in S : Cardinality({y \in S : y <= x}) = i]

\* The elements at these indexes; a missing one is skipped.
Fetch(k, v, indexes) ==
    LET there == Ascending({n \in DOMAIN indexes : At(k, v, indexes[n]) \in DOMAIN data})
    IN  [n \in DOMAIN there |-> data[At(k, v, indexes[there[n]])]]

Indexes(m) == [i \in 1..m.count |-> m.left + i]

Elements(k) == Fetch(k, meta[k].version, Indexes(meta[k]))

Contents(k) == IF Matches(k) THEN Elements(k) ELSE <<>>

-----------------------------------------------------------------------------
(* Batches. *)

Unlocked(k) == k \notin {moving.source, moving.destination}

Positions(k, v, indexes) == {At(k, v, i) : i \in indexes}

\* values, at the indexes from first on.
Placed(k, v, first, values) ==
    [p \in Positions(k, v, first..(first + Len(values) - 1)) |-> values[p.index - first + 1]]

Batch(k, newMeta, deletes, puts) ==
    /\ clock < MaxVersion
    /\ clock' = clock + 1
    /\ meta' = [meta EXCEPT ![k] = newMeta]
    /\ data' = [p \in DOMAIN puts \cup (DOMAIN data \ deletes) |->
                   IF p \in DOMAIN puts THEN puts[p] ELSE data[p]]

Observe ==
    seen' = [r \in Readers |->
        IF reader'[r].pc = "idle" THEN {}
        ELSE seen[r] \cup {Contents(reader[r].key)'}]

Expect(k, list) == expect' = [expect EXCEPT ![k] = list]

-----------------------------------------------------------------------------
(* LPUSH, RPUSH, LPUSHX and RPUSHX. *)

\* A push to the head of a list that has elements writes the whole list again
\* under a new version.
PushLeft(k, m, values) ==
    LET n == Len(values)
        existing == IF m.count = 0 THEN <<>> ELSE Fetch(k, m.version, Indexes(m))
        version == IF m.count = 0 THEN m.version ELSE update_version(m.version)
    IN  Batch(k,
              [m EXCEPT !.version = version, !.left = m.left - n, !.count = m.count + n,
                        !.right = m.left + m.count],
              Positions(k, m.version, ToSet(Indexes(m))),
              Placed(k, version, m.left - n + 1, Reverse(values) \o existing))

PushRightGap(k, m, values) ==
    Batch(k,
          [m EXCEPT !.count = m.count + Len(values), !.right = m.left + m.count + Len(values)],
          {},
          Placed(k, m.version, m.right + 1, values))
PushRight(k, m, values) ==
    Batch(k,
          [m EXCEPT !.count = m.count + Len(values), !.right = m.left + m.count + Len(values)],
          {},
          Placed(k, m.version, m.left + m.count + 1, values))

push_core(k, values, position) ==
    LET m == IF Fresh(k) THEN new_list_meta ELSE meta[k]
    IN  /\ ~WrongType(k)
        /\ m.count + Len(values) <= MaxLength
        /\ IF position = "left" THEN PushLeft(k, m, values) ELSE PushRight(k, m, values)

push(k, values, position) ==
    /\ Unlocked(k)
    /\ push_core(k, values, position)
    /\ Expect(k, IF position = "left" THEN Reverse(values) \o expect[k]
                 ELSE expect[k] \o values)
    /\ UNCHANGED <<moving, reader, reply>>
    /\ Observe

-----------------------------------------------------------------------------
(* LPOP and RPOP of up to n elements. *)

Min2(a, b) == IF a < b THEN a ELSE b
Max2(a, b) == IF a > b THEN a ELSE b

OrGone(m) == IF m.count = 0 THEN NoMeta ELSE m

PopReply(got, want) == reply' = IF got = want THEN "expected" ELSE "wrong"

lpop(k, n) ==
    LET m == meta[k]
        c == Min2(n, m.count)
        popped == [i \in 1..c |-> m.left + i]
        wanted == Min2(n, Len(expect[k]))
    IN  /\ Unlocked(k)
        /\ Matches(k)
        /\ Batch(k, OrGone([m EXCEPT !.left = m.left + c, !.count = m.count - c]),
                 Positions(k, m.version, ToSet(popped)), <<>>)
        /\ PopReply(Fetch(k, m.version, popped), SubSeq(expect[k], 1, wanted))
        /\ Expect(k, SubSeq(expect[k], wanted + 1, Len(expect[k])))
        /\ UNCHANGED <<moving, reader>>
        /\ Observe

RightIndexes(m, c) == [i \in 1..c |-> m.right - i + 1]

rpop_internal(k, c) ==
    LET m == meta[k]
    IN  Batch(k, OrGone([m EXCEPT !.right = m.right - c, !.count = m.count - c]),
              Positions(k, m.version, ToSet(RightIndexes(m, c))), <<>>)

rpop(k, n) ==
    LET m == meta[k]
        c == Min2(n, m.count)
        rest == Max2(Len(expect[k]) - n, 0)
    IN  /\ Unlocked(k)
        /\ Matches(k)
        /\ rpop_internal(k, c)
        /\ PopReply(Fetch(k, m.version, RightIndexes(m, c)),
                    Reverse(SubSeq(expect[k], rest + 1, Len(expect[k]))))
        /\ Expect(k, SubSeq(expect[k], 1, rest))
        /\ UNCHANGED <<moving, reader>>
        /\ Observe

-----------------------------------------------------------------------------
(* LSET, LTRIM, LREM and LINSERT. *)

\* A negative position counts from the end.
real_index(index, count) == IF index < 0 THEN count + index ELSE index

lset(k, index, value) ==
    LET m == meta[k]
        i == real_index(index, m.count)
    IN  /\ Unlocked(k)
        /\ Matches(k)
        /\ i \in 0..(m.count - 1)
        /\ Batch(k, m, {}, Placed(k, m.version, m.left + i + 1, <<value>>))
        /\ Expect(k, [expect[k] EXCEPT ![real_index(index, Len(expect[k])) + 1] = value])
        /\ UNCHANGED <<moving, reader, reply>>
        /\ Observe

real_start(start, len) == IF start < 0 THEN Max2(len + start, 0) ELSE Min2(start, len - 1)

real_stop(stop, len) == IF stop < 0 THEN Max2(len + stop, -1) ELSE Min2(stop, len - 1)

\* The part of a list that LTRIM keeps.  A start past the end is the last element
\* (Redis keeps nothing then).
Trimmed(list, start, stop) ==
    LET first == IF start < 0 THEN Max2(Len(list) + start, 0) ELSE Min2(start, Len(list) - 1)
        last == Min2(real_index(stop, Len(list)), Len(list) - 1)
    IN  SubSeq(list, first + 1, last + 1)

ltrimKeepsRight(k, start, stop) ==
    LET m == meta[k]
        first == real_start(start, m.count)
        last == real_stop(stop, m.count)
        all == ToSet(Indexes(m))
        kept == (m.left + first + 1)..(m.left + last + 1)
    IN  /\ Unlocked(k)
        /\ Matches(k)
        /\ IF first > last \/ first >= m.count
           THEN Batch(k, NoMeta, Positions(k, m.version, all), <<>>)
           ELSE Batch(k, [m EXCEPT !.count = last - first + 1, !.left = m.left + first],
                      Positions(k, m.version, all \ kept), <<>>)
        /\ Expect(k, Trimmed(expect[k], start, stop))
        /\ UNCHANGED <<moving, reader, reply>>
        /\ Observe
ltrim(k, start, stop) ==
    LET m == meta[k]
        first == real_start(start, m.count)
        last == real_stop(stop, m.count)
        all == ToSet(Indexes(m))
        kept == (m.left + first + 1)..(m.left + last + 1)
    IN  /\ Unlocked(k)
        /\ Matches(k)
        /\ IF first > last \/ first >= m.count
           THEN Batch(k, NoMeta, Positions(k, m.version, all), <<>>)
           ELSE Batch(k, [m EXCEPT !.count = last - first + 1, !.left = m.left + first,
                                   !.right = m.left + last + 1],
                      Positions(k, m.version, all \ kept), <<>>)
        /\ Expect(k, Trimmed(expect[k], start, stop))
        /\ UNCHANGED <<moving, reader, reply>>
        /\ Observe

\* The list without the first n occurrences of a value (all of them if n is 0).
WithoutFirst(list, n, value) ==
    LET rank(i) == Cardinality({j \in 1..i : list[j] = value})
        kept == Ascending({i \in DOMAIN list : list[i] # value \/ (n # 0 /\ rank(i) > n)})
    IN  [i \in DOMAIN kept |-> list[kept[i]]]

Without(list, n, value) ==
    IF n >= 0 THEN WithoutFirst(list, n, value)
    ELSE Reverse(WithoutFirst(Reverse(list), -n, value))

\* LREM writes what remains from the left end on, under the same version.
lrem(k, n, value) ==
    LET m == meta[k]
        remaining == Without(Elements(k), n, value)
    IN  /\ Unlocked(k)
        /\ Matches(k)
        /\ Len(remaining) < Len(Elements(k))
        /\ Batch(k, OrGone([m EXCEPT !.count = Len(remaining),
                                     !.right = m.left + Len(remaining)]),
                 Positions(k, m.version, ToSet(Indexes(m))),
                 Placed(k, m.version, m.left + 1, remaining))
        /\ Expect(k, Without(expect[k], n, value))
        /\ UNCHANGED <<moving, reader, reply>>
        /\ Observe

\* The position LINSERT writes to: at or after the last occurrence of pivot.
PivotInsert(list, where, pivot, value) ==
    LET at == CHOOSE i \in DOMAIN list :
                  list[i] = pivot /\ \A j \in (i + 1)..Len(list) : list[j] # pivot
    IN  InsertAt(list, IF where = "before" THEN at ELSE at + 1, value)

linsert(k, where, pivot, value) ==
    LET m == meta[k]
        all == PivotInsert(Elements(k), where, pivot, value)
        version == update_version(m.version)
    IN  /\ Unlocked(k)
        /\ Matches(k)
        /\ pivot \in ToSet(Elements(k))
        /\ m.count < MaxLength
        /\ Batch(k, [m EXCEPT !.version = version, !.count = Len(all),
                              !.right = m.left + Len(all)],
                 Positions(k, m.version, ToSet(Indexes(m))),
                 Placed(k, version, m.left + 1, all))
        /\ Expect(k, IF pivot \in ToSet(expect[k])
                     THEN PivotInsert(expect[k], where, pivot, value) ELSE expect[k])
        /\ UNCHANGED <<moving, reader, reply>>
        /\ Observe

-----------------------------------------------------------------------------
(* RPOPLPUSH: two batches under the locks of both keys. *)

rpoplpush_pop(s, d) ==
    LET m == meta[s]
        popped == Fetch(s, m.version, RightIndexes(m, 1))
    IN  /\ moving = NoMove
        /\ Matches(s)
        /\ popped # <<>>
        /\ s # d => meta[d].count < MaxLength
        /\ clock + 1 < MaxVersion
        /\ rpop_internal(s, 1)
        /\ moving' = [source |-> s, destination |-> d, value |-> popped[1]]
        /\ UNCHANGED <<reader, expect, reply>>
        /\ Observe

\* The last element of one list becomes the first of another, or of the same.
Moved(list) ==
    LET popped == [list EXCEPT ![moving.source] = Front(list[moving.source])]
    IN  [popped EXCEPT ![moving.destination] =
            <<Last(list[moving.source])>> \o popped[moving.destination]]

rpoplpush_push ==
    LET d == moving.destination
        m == IF Fresh(d) THEN new_list_meta ELSE meta[d]
    IN  /\ moving # NoMove
        /\ ~WrongType(d)
        /\ PushLeft(d, m, <<moving.value>>)
        /\ expect' = Moved(expect)
        /\ moving' = NoMove
        /\ UNCHANGED <<reader, reply>>
        /\ Observe

\* A move that ends between its batches has lost the element it popped.
LostInMove ==
    expect' = IF moving = NoMove THEN expect
              ELSE [expect EXCEPT ![moving.source] = Front(expect[moving.source])]

\* The destination turns out to hold another type: an error after the pop.
rpoplpush_fails ==
    /\ moving # NoMove
    /\ WrongType(moving.destination)
    /\ moving' = NoMove
    /\ LostInMove
    /\ UNCHANGED <<clock, meta, data, reader, reply>>
    /\ Observe

\* The process stops, maybe between the two batches, and starts again.
Crash ==
    /\ moving' = NoMove
    /\ LostInMove
    /\ reader' = [r \in Readers |-> NoRead]
    /\ UNCHANGED <<clock, meta, data, reply>>
    /\ Observe

-----------------------------------------------------------------------------
(* DEL, SET and the passing of a key's expiry time, set by an EXPIRE that the *)
(* list commands carry over from meta value to meta value.                    *)

del_key(k) ==
    /\ Unlocked(k)
    /\ ~Fresh(k)
    /\ Batch(k, IF meta[k].type = "string" THEN NoMeta
                ELSE [meta[k] EXCEPT !.count = 0, !.version = update_version(meta[k].version)],
             {}, <<>>)
    /\ Expect(k, <<>>)
    /\ UNCHANGED <<moving, reader, reply>>
    /\ Observe

set(k) ==
    /\ Unlocked(k)
    /\ Batch(k, [NoMeta EXCEPT !.type = "string"], {}, <<>>)
    /\ Expect(k, <<>>)
    /\ UNCHANGED <<moving, reader, reply>>
    /\ Observe

Lapse(k) ==
    /\ Unlocked(k)
    /\ ~Fresh(k)
    /\ meta' = [meta EXCEPT ![k].expired = TRUE]
    /\ Expect(k, <<>>)
    /\ UNCHANGED <<clock, data, moving, reader, reply>>
    /\ Observe

-----------------------------------------------------------------------------
(* LRANGE 0 -1: the meta value, then one element after the other. *)

lrange_metaStale(r, k) ==
    /\ reader[r].pc = "idle"
    /\ meta[k].type = "list"
    /\ reader' = [reader EXCEPT ![r] =
          [pc |-> "read", key |-> k, meta |-> meta[k], i |-> 1, result |-> <<>>]]
    /\ UNCHANGED <<clock, meta, data, moving, expect, reply>>
    /\ Observe
lrange_meta(r, k) ==
    /\ reader[r].pc = "idle"
    /\ Matches(k)
    /\ reader' = [reader EXCEPT ![r] =
          [pc |-> "read", key |-> k, meta |-> meta[k], i |-> 1, result |-> <<>>]]
    /\ UNCHANGED <<clock, meta, data, moving, expect, reply>>
    /\ Observe

lrange_get(r) ==
    LET q == reader[r]
    IN  /\ q.pc = "read"
        /\ q.i <= q.meta.count
        /\ reader' = [reader EXCEPT ![r] = [q EXCEPT !.i = q.i + 1,
              !.result = q.result \o Fetch(q.key, q.meta.version, <<q.meta.left + q.i>>)]]
        /\ UNCHANGED <<clock, meta, data, moving, expect, reply>>
        /\ Observe

lrange_done(r) ==
    /\ reader[r].pc = "read"
    /\ reader[r].i > reader[r].meta.count
    /\ reader' = [reader EXCEPT ![r] = NoRead]
    /\ UNCHANGED <<clock, meta, data, moving, expect, reply>>
    /\ Observe

-----------------------------------------------------------------------------

\* A store without lists; some keys may hold a string.
Init ==
    /\ clock = 1
    /\ meta \in [Keys -> {NoMeta, [NoMeta EXCEPT !.type = "string"]}]
    /\ data = <<>>
    /\ moving = NoMove
    /\ reader = [r \in Readers |-> NoRead]
    /\ expect = [k \in Keys |-> <<>>]
    /\ reply = "expected"
    /\ seen = [r \in Readers |-> {}]

Command(k) ==
    \/ \E values \in PushArgs, position \in {"left", "right"} : push(k, values, position)
    \/ \E n \in 1..2 : lpop(k, n) \/ rpop(k, n)
    \/ \E index \in -1..1, value \in Values : lset(k, index, value)
    \/ \E range \in Ranges : ltrim(k, range[1], range[2])
    \/ \E n \in -1..1, value \in Values : lrem(k, n, value)
    \/ \E where \in {"before", "after"}, pivot, value \in Values :
          linsert(k, where, pivot, value)
    \/ \E d \in Keys : rpoplpush_pop(k, d)
    \/ del_key(k)
    \/ set(k)
    \/ Lapse(k)

Read(r) ==
    \/ \E k \in Keys : lrange_meta(r, k)
    \/ lrange_get(r)
    \/ lrange_done(r)

Next ==
    \/ \E k \in Keys : Command(k)
    \/ rpoplpush_push
    \/ rpoplpush_fails
    \/ Crash
    \/ \E r \in Readers : Read(r)

Spec == Init /\ [][Next]_vars

-----------------------------------------------------------------------------
(* Properties. *)

\* Every key holds the list its commands should have left there, in order:
\* pushes and pops at both ends, LSET, LTRIM, LREM, LINSERT and RPOPLPUSH
\* (push_core, lpop, rpop, lset, ltrim, lrem, linsert, rpoplpush).  A crash
\* loses nothing but the element an RPOPLPUSH holds between its two batches.
\* LPOP and RPOP return the elements they remove.
ListsAsExpected ==
    /\ \A k \in Keys : Unlocked(k) => Contents(k) = expect[k]
    /\ reply = "expected"

\* The indexes of a live list agree: its count elements are exactly those from
\* left + 1 to right, which LPOP (from the left) and RPOP (from the right) rely
\* on, and LLEN, which answers from the count, is the number of elements.
IndexesAgree ==
    \A k \in Keys : Matches(k) =>
        /\ meta[k].right = meta[k].left + meta[k].count
        /\ {p \in DOMAIN data : p.key = k /\ p.version = meta[k].version}
             = Positions(k, meta[k].version, (meta[k].left + 1)..meta[k].right)

\* LRANGE returns no element that was not in the list while it ran (lrange
\* reads the version it found first, never entries of an earlier list).
ElementsWereThere ==
    \A r \in Readers :
        ToSet(reader[r].result) \subseteq UNION {ToSet(list) : list \in seen[r]}

=============================================================================
