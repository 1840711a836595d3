---------------------------- MODULE RedisHashes ----------------------------
(***************************************************************************)
(* The hash commands of one storage instance, as operators on a store.       *)
(* Fields are integers in the order of their bytes.                          *)
(***************************************************************************)
EXTENDS Cmd, FiniteSetsExt

VersionOf(s, k) == s.meta[k].version
HasField(s, k, f) == <<k, VersionOf(s, k), f>> \in DOMAIN s.hashes
Field(s, k, f) == s.hashes[<<k, VersionOf(s, k), f>>]
FieldsInOrder(s, k) == InKeyOrder(ElementsOf(s.hashes, k, VersionOf(s, k)))

\* create_new_hash: a new version with the given fields.
create_new_hash(s, k, contents) ==
    [Versioned(s) EXCEPT
        !.meta[k] = CollectionMeta("hash", Cardinality(DOMAIN contents), update_version(s)),
        !.hashes = put(@, Encoded(k, update_version(s), contents))]

\* The batch of a command that sets fields of a live hash, some of them new.
WithFields(s, k, contents) ==
    LET new == {f \in DOMAIN contents : ~HasField(s, k, f)}
    IN  [s EXCEPT !.meta[k].count = @ + Cardinality(new),
                  !.hashes = put(@, Encoded(k, VersionOf(s, k), contents))]

check_modify_count(s, k, delta) == s.meta[k].count + delta <= MaxCount

\* HDEL: repeated fields count once; the meta value stays even at count 0.
hdel(s, k, fields) ==
    LET found == {f \in ToSet(fields) : HasField(s, k, f)}
        gone == {<<k, VersionOf(s, k), f>> : f \in found}
    IN  Checked(s, k, "hash", Result(s, WRONGTYPE), Result(s, Integer(0)),
          IF found = {} THEN Result(s, Integer(0))
          ELSE IF Cardinality(found) > s.meta[k].count
               THEN Result(s, Err("hash size underflow"))
          ELSE Result([s EXCEPT !.meta[k].count = @ - Cardinality(found),
                                !.hashes = delete(@, gone)],
                      Integer(Cardinality(found))))

hget(s, k, f) ==
    Checked(s, k, "hash", WRONGTYPE, Nil,
        IF HasField(s, k, f) THEN Bulk(from_utf8_lossy(Field(s, k, f))) ELSE Nil)

hexists(s, k, f) ==
    LET got == hget(s, k, f)
    IN  IF IsErr(got) THEN got ELSE Bool(got # Nil)

hkeys(s, k) == Checked(s, k, "hash", WRONGTYPE, Array(<<>>), Array(FieldsInOrder(s, k)))

hlen(s, k) == Checked(s, k, "hash", WRONGTYPE, Integer(0), Integer(s.meta[k].count))

\* HSET of one field.
hset_with_outcome(s, k, f, v) ==
    LET fv == f :> v
    IN  Checked(s, k, "hash", Result(s, WRONGTYPE),
          Result(create_new_hash(s, k, fv), Integer(1)),
          IF HasField(s, k, f) /\ Field(s, k, f) = v THEN Result(s, Integer(0))
          ELSE IF HasField(s, k, f) THEN Result(WithFields(s, k, fv), Integer(0))
          ELSE IF check_modify_count(s, k, 1) THEN Result(WithFields(s, k, fv), Integer(1))
          ELSE Result(s, Err("hash size overflow")))

hset(s, k, f, v) == hset_with_outcome(s, k, f, v)

hgetall(s, k) ==
    LET fs == FieldsInOrder(s, k)
    IN  Checked(s, k, "hash", WRONGTYPE, Array(<<>>),
          Array([i \in DOMAIN fs |-> <<fs[i], from_utf8_lossy(Field(s, k, fs[i]))>>]))

hvals(s, k) ==
    LET fs == FieldsInOrder(s, k)
    IN  Checked(s, k, "hash", WRONGTYPE, Array(<<>>),
          Array([i \in DOMAIN fs |-> from_utf8_lossy(Field(s, k, fs[i]))]))

hmget(s, k, fields) ==
    Checked(s, k, "hash", WRONGTYPE, Array([i \in DOMAIN fields |-> Nil]),
        Array([i \in DOMAIN fields |->
                 IF HasField(s, k, fields[i])
                 THEN Bulk(from_utf8_lossy(Field(s, k, fields[i]))) ELSE Nil]))

\* The last value of every field of an argument list of pairs.
LastValues(pairs) ==
    [f \in {p[1] : p \in ToSet(pairs)} |->
        pairs[CHOOSE i \in DOMAIN pairs :
                /\ pairs[i][1] = f
                /\ \A j \in DOMAIN pairs : pairs[j][1] = f => j <= i][2]]

\* HMSET: one batch; a repeated field takes its last value and counts once.
hmset(s, k, pairs) ==
    LET contents == LastValues(pairs)
        new == {f \in DOMAIN contents : ~HasField(s, k, f)}
    IN  Checked(s, k, "hash", Result(s, WRONGTYPE),
          Result(create_new_hash(s, k, contents), Simple("OK")),
          IF check_modify_count(s, k, Cardinality(new))
          THEN Result(WithFields(s, k, contents), Simple("OK"))
          ELSE Result(s, Err("hash size overflow")))

hsetnx(s, k, f, v) ==
    Checked(s, k, "hash", Result(s, WRONGTYPE),
        Result(create_new_hash(s, k, f :> v), Integer(1)),
        IF HasField(s, k, f) THEN Result(s, Integer(0))
        ELSE IF check_modify_count(s, k, 1) THEN Result(WithFields(s, k, f :> v), Integer(1))
        ELSE Result(s, Err("hash size overflow")))

\* HINCRBY and HINCRBYFLOAT on a field that is not there: the increment.
FirstIncrement(s, k, f, v, r) ==
    IF check_modify_count(s, k, 1) THEN Result(WithFields(s, k, f :> v), r)
    ELSE Result(s, Err("hash size overflow"))

hincrby(s, k, f, increment) ==
    LET v == FormatInt(increment)
        sum == IntOf(Field(s, k, f)) + increment
    IN  Checked(s, k, "hash", Result(s, WRONGTYPE),
          Result(create_new_hash(s, k, f :> v), Integer(increment)),
          IF ~HasField(s, k, f) THEN FirstIncrement(s, k, f, v, Integer(increment))
          ELSE IF ~ParsesInt(Field(s, k, f))
               THEN Result(s, Err("hash value is not an integer"))
          ELSE IF sum \notin I64Min..I64Max THEN Result(s, Err("integer overflow"))
          ELSE Result(WithFields(s, k, f :> FormatInt(sum)), Integer(sum)))

\* Halves are added as such; whether the sum is finite is checked only when
\* there is something to add to.
hincrbyfloat(s, k, f, increment) ==
    LET v == Num(increment)
        sum == FloatOf(Field(s, k, f)) + increment
    IN  Checked(s, k, "hash", Result(s, WRONGTYPE),
          Result(create_new_hash(s, k, f :> v), Bulk(v)),
          IF ~HasField(s, k, f) THEN FirstIncrement(s, k, f, v, Bulk(v))
          ELSE IF ~ParsesFloat(Field(s, k, f))
               THEN Result(s, Err("hash value is not a valid float"))
          ELSE IF sum \notin -FloatMax..FloatMax
               THEN Result(s, Err("increment would produce NaN or Infinity"))
          ELSE Result(WithFields(s, k, f :> Num(sum)), Bulk(Num(sum))))

hstrlen(s, k, f) ==
    LET got == hget(s, k, f)
    IN  IF IsErr(got) THEN got ELSE IF got = Nil THEN Integer(0) ELSE Integer(Len(Bytes(got[2])))

-----------------------------------------------------------------------------
(* HSCAN: a pattern with one star at its end is searched in the range of its  *)
(* prefix, any other pattern filters all the fields.                         *)

\* tail_wildcard_prefix: the fields the iteration runs over.
tail_wildcard_prefix(p, f) == p[1] = "tail" => f \in p[2]

get_scan_start_point(s, k, p, cursor) ==
    {s.points[e] : e \in {<<"hash", k, p, cursor>>} \cap DOMAIN s.points}

store_scan_next_point(s, k, p, cursor, f) ==
    [s EXCEPT !.points = put(@, <<"hash", k, p, cursor>> :> f)]

hscanStepsOverNext(s, k, cursor, p, count) ==
    LET start == get_scan_start_point(s, k, p, cursor)
        range == SelectSeq(FieldsInOrder(s, k), LAMBDA f :
                    tail_wildcard_prefix(p, f) /\ \A x \in start : f > x)
        page == SelectSeq(SubSeq(range, 1, Min({count, Len(range)})),
                          LAMBDA f : glob_match(p, f))
        found == [i \in DOMAIN page |-> <<page[i], Field(s, k, page[i])>>]
    IN  Checked(s, k, "hash", Result(s, WRONGTYPE), Result(s, <<"scan", 0, <<>>>>),
          IF Len(range) <= count THEN Result(s, <<"scan", 0, found>>)
          ELSE Result(store_scan_next_point(s, k, p, cursor + count, range[count + 1]),
                      <<"scan", cursor + count, found>>))
\* One page of HSCAN: count fields from where the cursor points, or from the
\* beginning when the cursor is 0 or its point is no longer stored.  The point
\* for the next cursor is the first field after the page.
hscan(s, k, cursor, p, count) ==
    LET start == IF cursor > 0 THEN get_scan_start_point(s, k, p, cursor) ELSE {}
        range == SelectSeq(FieldsInOrder(s, k), LAMBDA f :
                    tail_wildcard_prefix(p, f) /\ \A x \in start : f >= x)
        page == SelectSeq(SubSeq(range, 1, Min({count, Len(range)})),
                          LAMBDA f : glob_match(p, f))
        found == [i \in DOMAIN page |-> <<page[i], Field(s, k, page[i])>>]
    IN  Checked(s, k, "hash", Result(s, WRONGTYPE), Result(s, <<"scan", 0, <<>>>>),
          IF Len(range) <= count THEN Result(s, <<"scan", 0, found>>)
          ELSE Result(store_scan_next_point(s, k, p, cursor + count, range[count + 1]),
                      <<"scan", cursor + count, found>>))

-----------------------------------------------------------------------------
(***************************************************************************)
(* The hash commands as the dispatcher runs them.                            *)
(***************************************************************************)

HGetCmd(s, argv) == query(s, argv, 3, hget(s, argv[2], argv[3]))
HExistsCmd(s, argv) == query(s, argv, 3, hexists(s, argv[2], argv[3]))
HStrlenCmd(s, argv) == query(s, argv, 3, hstrlen(s, argv[2], argv[3]))
HLenCmd(s, argv) == query(s, argv, 2, hlen(s, argv[2]))
HKeysCmd(s, argv) == query(s, argv, 2, hkeys(s, argv[2]))
HValsCmd(s, argv) == query(s, argv, 2, hvals(s, argv[2]))
HMGetCmd(s, argv) == query(s, argv, -3, hmget(s, argv[2], From(argv, 3)))

\* Fields and values alternate in the reply.
HGetAllCmd(s, argv) == query(s, argv, 2, hgetall(s, argv[2]))

HDelCmd(s, argv) == execute(s, argv, -3, hdel(s, argv[2], From(argv, 3)))
HSetNXCmd(s, argv) == execute(s, argv, 4, hsetnx(s, argv[2], argv[3], argv[4]))

WholePairs(s, argv, done) ==
    execute(s, argv, -4, IF Len(argv) % 2 = 0 THEN done ELSE Result(s, WrongArity))

HMSetCmd(s, argv) == WholePairs(s, argv, hmset(s, argv[2], Pairs(From(argv, 3))))

\* HSET sets one field at a time and stops at the first error.
HSetField(k, acc, pair) ==
    IF IsErr(acc.reply) THEN acc
    ELSE LET one == hset(acc.store, k, pair[1], pair[2])
         IN  Result(one.store,
                    IF IsErr(one.reply) THEN one.reply ELSE Integer(acc.reply[2] + one.reply[2]))

HSetCmd(s, argv) ==
    WholePairs(s, argv, FoldLeft(LAMBDA acc, pair : HSetField(argv[2], acc, pair),
                                 Result(s, Integer(0)), Pairs(From(argv, 3))))

HIncrByCmd(s, argv) ==
    execute(s, argv, 4, IF ParsesInt(argv[4]) THEN hincrby(s, argv[2], argv[3], IntOf(argv[4]))
                        ELSE Result(s, NotInteger))

HIncrByFloatCmd(s, argv) ==
    execute(s, argv, 4, IF ParsesFloat(argv[4]) THEN hincrbyfloat(s, argv[2], argv[3], FloatOf(argv[4]))
                        ELSE Result(s, NotFloat))

HScanCmd(s, argv) ==
    LET options == parse_scan_options(argv[3], From(argv, 4))
    IN  execute(s, argv, -3, IF IsErr(options) THEN Result(s, options)
                             ELSE hscan(s, argv[2], options[2], options[3], options[4]))
=============================================================================
