------------------------------ MODULE SetStore ------------------------------
(***************************************************************************)
(* The set commands of one storage instance, as operators on a store.  What  *)
(* they do beside each other is the subject of RedisSets; here every command *)
(* is one step, and members are text, so that the conversions to String and  *)
(* back leave them alone.  A command that draws members returns the set of   *)
(* its possible results.                                                     *)
(***************************************************************************)
EXTENDS Cmd, FiniteSetsExt

MembersOf(s, k) == {e[3] : e \in {e \in s.sets : e[1] = k /\ e[2] = s.meta[k].version}}
SetEntries(k, v, ms) == {k} \X {v} \X ms

\* What a read finds under a key.
Collected(s, k) == IF check_type_state(s, k, "set") = "Match" THEN MembersOf(s, k) ELSE {}
NotASet(s, ks) == \E k \in ks : check_type_state(s, k, "set") = "WrongType"

\* At count 0 the meta value goes; the subtraction on u64 wraps around.
WithoutMembers(s, k, ms, n) ==
    LET count == (s.meta[k].count - n) % (MaxCount + 1)
    IN  [s EXCEPT !.meta[k] = IF count = 0 THEN NoMeta ELSE [@ EXCEPT !.count = count],
                  !.sets = @ \ SetEntries(k, s.meta[k].version, ms)]

create_set(s, k, ms) ==
    [Versioned(s) EXCEPT
        !.meta[k] = CollectionMeta("set", Cardinality(ms), update_version(s)),
        !.sets = @ \cup SetEntries(k, update_version(s), ms)]

Sadd(s, k, args) ==
    LET new == ToSet(args) \ MembersOf(s, k)
    IN  Checked(s, k, "set", Result(s, WRONGTYPE),
          Result(create_set(s, k, ToSet(args)), Integer(Cardinality(ToSet(args)))),
          IF s.meta[k].count + Cardinality(new) > MaxCount
          THEN Result(s, Err("set size overflow"))
          ELSE Result([s EXCEPT !.meta[k].count = @ + Cardinality(new),
                                !.sets = @ \cup SetEntries(k, s.meta[k].version, new)],
                      Integer(Cardinality(new))))

\* SREM: an argument is counted as often as it is given.
Srem(s, k, args) ==
    LET found == SelectSeq(args, LAMBDA m : m \in MembersOf(s, k))
    IN  Checked(s, k, "set", Result(s, WRONGTYPE), Result(s, Integer(0)),
          IF found = <<>> THEN Result(s, Integer(0))
          ELSE Result(WithoutMembers(s, k, ToSet(found), Len(found)), Integer(Len(found))))

\* SCARD answers an error for a key that is not there.
Scard(s, k) ==
    Checked(s, k, "set", WRONGTYPE, Err("key not found"), Integer(s.meta[k].count))

Smembers(s, k) == Checked(s, k, "set", WRONGTYPE, Array(<<>>), Array(InKeyOrder(MembersOf(s, k))))

Sismember(s, k, m) == Checked(s, k, "set", WRONGTYPE, Bool(FALSE), Bool(m \in MembersOf(s, k)))

Smismember(s, k, ms) ==
    Checked(s, k, "set", WRONGTYPE, Array([i \in DOMAIN ms |-> Bool(FALSE)]),
        Array([i \in DOMAIN ms |-> Bool(ms[i] \in MembersOf(s, k))]))

\* count is {} when the command has none.  A negative count draws with
\* repetition.
Srandmember(s, k, count) ==
    LET all == MembersOf(s, k)
        n == Max(count)
        orders(ms) == {Array(q) : q \in SetToSeqs(ms)}
    IN  Checked(s, k, "set", {WRONGTYPE}, {Array(<<>>)},
          IF all = {} \/ count = {0} THEN {Array(<<>>)}
          ELSE IF count = {} THEN {Array(<<m>>) : m \in all}
          ELSE IF n < 0 THEN {Array(q) : q \in [1..-n -> all]}
          ELSE UNION {orders(ms) : ms \in kSubset(Min({n, Cardinality(all)}), all)})

Spop(s, k, count) ==
    LET all == MembersOf(s, k)
        n == IF count = {} THEN 1 ELSE Max(count)
    IN  Checked(s, k, "set", {Result(s, WRONGTYPE)}, {Result(s, Array(<<>>))},
          IF all = {} \/ n <= 0 THEN {Result(s, Array(<<>>))}
          ELSE {Result(WithoutMembers(s, k, ToSet(q), Len(q)), Array(q)) :
                  q \in UNION {SetToSeqs(ms) : ms \in kSubset(Min({n, Cardinality(all)}), all)}})

\* SMOVE: the batch takes the member out of the source and, if the destination
\* did not have it, puts it there.
Smove(s, source, destination, m) ==
    LET without == WithoutMembers(s, source, {m}, 1)
        fresh == ~Live(s, destination)
        there == ~fresh /\ m \in MembersOf(s, destination)
        v == s.meta[destination].version
    IN  IF check_type_state(s, source, "set") = "WrongType" THEN Result(s, WRONGTYPE)
        ELSE IF m \notin Collected(s, source) THEN Result(s, Bool(FALSE))
        ELSE IF check_type_state(s, destination, "set") = "WrongType" THEN Result(s, WRONGTYPE)
        ELSE IF there THEN Result(without, Bool(TRUE))
        ELSE IF fresh THEN Result(create_set(without, destination, {m}), Bool(TRUE))
        ELSE Result([without EXCEPT !.meta[destination] = [s.meta[destination] EXCEPT !.count = @ + 1],
                                    !.sets = @ \cup SetEntries(destination, v, {m})], Bool(TRUE))

\* SDIFF asks the other keys, in their order, for every member of the first,
\* until one has it: a key of another type is found only then.
Sdiff(s, ks) ==
    LET has(i, m) == m \in Collected(s, ks[i])
        meets(m) == \E i \in 2..Len(ks) : NotASet(s, {ks[i]}) /\ \A j \in 2..(i - 1) : ~has(j, m)
    IN  Checked(s, ks[1], "set", WRONGTYPE, Array(<<>>),
          IF \E m \in MembersOf(s, ks[1]) : meets(m) THEN WRONGTYPE
          ELSE Array(InKeyOrder({m \in MembersOf(s, ks[1]) : \A i \in 2..Len(ks) : ~has(i, m)})))

\* SINTER stops at the first key that is not there.
Sinter(s, ks) ==
    LET stops == {i \in DOMAIN ks : check_type_state(s, ks[i], "set") # "Match"}
    IN  IF stops = {}
        THEN Array(InKeyOrder({m \in MembersOf(s, ks[1]) :
                                 \A k \in ToSet(ks) : m \in MembersOf(s, k)}))
        ELSE IF NotASet(s, {ks[Min(stops)]}) THEN WRONGTYPE ELSE Array(<<>>)

\* A reply whose order is the order of a HashSet.
Unordered(ms) == <<"unordered", ms>>

Sunion(s, ks) ==
    IF NotASet(s, ToSet(ks)) THEN WRONGTYPE
    ELSE Unordered(UNION {Collected(s, k) : k \in ToSet(ks)})

\* One batch replaces the destination, whatever its type is.
clear_and_store_set(s, destination, ms) ==
    LET old == SetEntries(destination, s.meta[destination].version, Collected(s, destination))
        cleared == [s EXCEPT !.sets = @ \ old, !.meta[destination] = NoMeta]
    IN  IF ms = {} THEN Result(cleared, Integer(0))
        ELSE Result(create_set(cleared, destination, ms), Integer(Cardinality(ms)))

Sdiffstore(s, destination, ks) ==
    LET found == Sdiff(s, ks)
    IN  IF IsErr(found) THEN Result(s, found)
        ELSE clear_and_store_set(s, destination, ToSet(found[2]))

Sinterstore(s, destination, ks) ==
    LET found == Sinter(s, ks)
    IN  IF IsErr(found) THEN Result(s, found)
        ELSE clear_and_store_set(s, destination, ToSet(found[2]))

Sunionstore(s, destination, ks) ==
    LET found == Sunion(s, ks)
    IN  IF IsErr(found) THEN Result(s, found) ELSE clear_and_store_set(s, destination, found[2])

\* SSCAN: the cursor is a position among the sorted members.
Sscan(s, k, cursor, p, count) ==
    LET all == InKeyOrder(MembersOf(s, k))
        end == Min({cursor + count, Len(all)})
    IN  Checked(s, k, "set", WRONGTYPE, <<"scan", 0, <<>>>>,
          <<"scan", IF end < Len(all) THEN end ELSE 0,
            SelectSeq(SubSeq(all, cursor + 1, end), LAMBDA m : glob_match(p, m))>>)

-----------------------------------------------------------------------------
(***************************************************************************)
(* The set commands as the dispatcher runs them.  A command that draws       *)
(* members has several results; every command returns the set of them.       *)
(***************************************************************************)

SaddCmd(s, argv) == {execute(s, argv, -3, Sadd(s, argv[2], From(argv, 3)))}
SremCmd(s, argv) == {execute(s, argv, -3, Srem(s, argv[2], From(argv, 3)))}
SmembersCmd(s, argv) == {query(s, argv, 2, Smembers(s, argv[2]))}
SismemberCmd(s, argv) == {query(s, argv, 3, Sismember(s, argv[2], argv[3]))}
SmismemberCmd(s, argv) == {query(s, argv, -3, Smismember(s, argv[2], From(argv, 3)))}
SmoveCmd(s, argv) == {execute(s, argv, 4, Smove(s, argv[2], argv[3], argv[4]))}
SdiffCmd(s, argv) == {query(s, argv, -2, Sdiff(s, From(argv, 2)))}
SinterCmd(s, argv) == {query(s, argv, -2, Sinter(s, From(argv, 2)))}
SunionCmd(s, argv) == {query(s, argv, -2, Sunion(s, From(argv, 2)))}
SdiffstoreCmd(s, argv) == {execute(s, argv, -3, Sdiffstore(s, argv[2], From(argv, 3)))}
SinterstoreCmd(s, argv) == {execute(s, argv, -3, Sinterstore(s, argv[2], From(argv, 3)))}
SunionstoreCmd(s, argv) == {execute(s, argv, -3, Sunionstore(s, argv[2], From(argv, 3)))}

\* The error for a key that is not there becomes 0.
ScardCmd(s, argv) ==
    LET found == Scard(s, argv[2])
    IN  {query(s, argv, 2, IF found = Err("key not found") THEN Integer(0) ELSE found)}

\* Without a count: one member or nil; with one: an array.
OneOrAll(argv, r) ==
    IF IsErr(r) \/ Len(argv) = 3 THEN r ELSE IF r[2] = <<>> THEN Nil ELSE Bulk(r[2][1])

CountOf(argv) == IF Len(argv) = 3 THEN {IntOf(argv[3])} ELSE {}

SpopCmd(s, argv) ==
    IF Len(argv) \notin 2..3 THEN {Result(s, WrongArity)}
    ELSE IF Len(argv) = 3 /\ ~ParsesInt(argv[3]) THEN {Result(s, NotInteger)}
    ELSE IF \E n \in CountOf(argv) : n < 0
    THEN {Result(s, Err("value is out of range, must be positive"))}
    ELSE {Result(r.store, OneOrAll(argv, r.reply)) : r \in Spop(s, argv[2], CountOf(argv))}

SrandmemberCmd(s, argv) ==
    IF Len(argv) \notin 2..3 THEN {Result(s, WrongArity)}
    ELSE IF Len(argv) = 3 /\ ~ParsesInt(argv[3]) THEN {Result(s, NotInteger)}
    ELSE {Result(s, OneOrAll(argv, r)) : r \in Srandmember(s, argv[2], CountOf(argv))}

SscanCmd(s, argv) ==
    LET o == parse_scan_options(argv[3], From(argv, 4))
    IN  {query(s, argv, -3, IF IsErr(o) THEN o ELSE Sscan(s, argv[2], o[2], o[3], o[4]))}
=============================================================================
