----------------------------- MODULE RedisZSets -----------------------------
(***************************************************************************)
(* The sorted set commands of one storage instance, as operators on a store. *)
(*                                                                          *)
(* A sorted set is stored twice: members maps an encoded member to its       *)
(* score, scores holds the pairs of score and member in the order the range  *)
(* commands read.  Members are integers in the order of their bytes; scores  *)
(* are counted in halves, so that two of them differ by less than EPSILON    *)
(* only when they are equal.                                                 *)
(***************************************************************************)
EXTENDS Cmd, FiniteSetsExt

-----------------------------------------------------------------------------
(* Reading the two column families. *)

ZVersion(s, k) == s.meta[k].version
HasMember(s, k, m) == <<k, ZVersion(s, k), m>> \in DOMAIN s.members
ScoreOf(s, k, m) == s.members[<<k, ZVersion(s, k), m>>]

\* The score column family of one version, in its comparator's order.
Before(x, y) == x[3] < y[3] \/ (x[3] = y[3] /\ x[4] < y[4])
InScoreOrder(s, k, v) ==
    SetToSortSeq({e \in s.scores : e[1] = k /\ e[2] = v}, Before)

Ascending(s, k) == InScoreOrder(s, k, ZVersion(s, k))
Descending(s, k) == Reverse(Ascending(s, k))

MemberAt(e) == e[4]
ScoreAt(e) == e[3]
MembersIn(q) == [i \in DOMAIN q |-> MemberAt(q[i])]
WithScores(q) == [i \in DOMAIN q |-> <<MemberAt(q[i]), ScoreAt(q[i])>>]

-----------------------------------------------------------------------------
(* Batches. *)

MemberEntries(k, v, contents) == Encoded(k, v, contents)
ScoreEntries(k, v, contents) == {<<k, v, contents[m], m>> : m \in DOMAIN contents}

\* A new version with the given members and scores.
create_zset(s, k, contents) ==
    [Versioned(s) EXCEPT
        !.meta[k] = CollectionMeta("zset", Cardinality(DOMAIN contents), update_version(s)),
        !.members = put(@, MemberEntries(k, update_version(s), contents)),
        !.scores = @ \cup ScoreEntries(k, update_version(s), contents)]

\* The old score keys of the members whose score changes go, the new ones come.
Rescored(s, k, contents) ==
    LET v == ZVersion(s, k)
        old == {<<k, v, ScoreOf(s, k, m), m>> : m \in {m \in DOMAIN contents : HasMember(s, k, m)}}
    IN  [s EXCEPT !.members = put(@, MemberEntries(k, v, contents)),
                  !.scores = (@ \ old) \cup ScoreEntries(k, v, contents)]

\* The batch of a command that removes entries and leaves count members: at
\* count 0 the meta value goes.
Removed(s, k, entries, count) ==
    [s EXCEPT !.meta[k] = IF count = 0 THEN NoMeta ELSE [@ EXCEPT !.count = count],
              !.members = delete(@, {<<k, e[2], MemberAt(e)>> : e \in entries}),
              !.scores = @ \ entries]

\* The subtractions on u64: one wraps around, one stops at 0.
wrapping_sub(s, k, n) == (s.meta[k].count - n) % (MaxCount + 1)
saturating_sub(s, k, n) == Max({s.meta[k].count - n, 0})

-----------------------------------------------------------------------------
(* Commands that write. *)

\* The first score of every member of an argument list of pairs.
FirstScores(pairs) ==
    [m \in {p[2] : p \in ToSet(pairs)} |->
        pairs[CHOOSE i \in DOMAIN pairs :
                /\ pairs[i][2] = m
                /\ \A j \in DOMAIN pairs : pairs[j][2] = m => i <= j][1]]

zaddKeepsOldScore(s, k, pairs) ==
    LET contents == FirstScores(pairs)
        new == {m \in DOMAIN contents : ~HasMember(s, k, m)}
        v == ZVersion(s, k)
    IN  IF pairs = <<>> THEN Result(s, Integer(0))
        ELSE Checked(s, k, "zset", Result(s, WRONGTYPE),
          Result(create_zset(s, k, contents), Integer(Cardinality(DOMAIN contents))),
          Result([s EXCEPT !.meta[k].count = @ + Cardinality(new),
                           !.members = put(@, MemberEntries(k, v, contents)),
                           !.scores = @ \cup ScoreEntries(k, v, contents)],
                 Integer(Cardinality(new))))
\* ZADD: of a repeated member the first score counts; members with the score
\* they have already are skipped.
zadd(s, k, pairs) ==
    LET contents == FirstScores(pairs)
        new == {m \in DOMAIN contents : ~HasMember(s, k, m)}
        changed == {m \in DOMAIN contents : m \in new \/ ScoreOf(s, k, m) # contents[m]}
        writes == [m \in changed |-> contents[m]]
    IN  IF pairs = <<>> THEN Result(s, Integer(0))
        ELSE Checked(s, k, "zset", Result(s, WRONGTYPE),
          Result(create_zset(s, k, contents), Integer(Cardinality(DOMAIN contents))),
          IF s.meta[k].count + Cardinality(new) > MaxCount
          THEN Result(s, Err("zset size overflow"))
          ELSE Result([Rescored(s, k, writes) EXCEPT !.meta[k].count = @ + Cardinality(new)],
                      Integer(Cardinality(new))))

\* ZINCRBY while it holds its lock.  For a member that is not there it lets the
\* lock go and calls zadd with the increment: that is another step.
zincrby_locked(s, k, increment, m) ==
    LET sum == ScoreOf(s, k, m) + increment
    IN  IF sum \notin -FloatMax..FloatMax
        THEN Result(s, Err("increment would produce NaN or Infinity"))
        ELSE Result(Rescored(s, k, m :> sum), Bulk(Num(sum)))

zincrby_adds(s, k, m) == Checked(s, k, "zset", FALSE, TRUE, ~HasMember(s, k, m))

zincrby_add(s, k, increment, m) ==
    LET added == zadd(s, k, <<<<increment, m>>>>)
    IN  Result(added.store,
               IF IsErr(added.reply) THEN added.reply ELSE Bulk(Num(increment)))

zincrby(s, k, increment, m) ==
    IF check_type_state(s, k, "zset") = "WrongType" THEN Result(s, WRONGTYPE)
    ELSE IF zincrby_adds(s, k, m) THEN zincrby_add(s, k, increment, m)
    ELSE zincrby_locked(s, k, increment, m)

\* ZREM: an argument is counted as often as it is given.
zrem(s, k, members) ==
    LET found == SelectSeq(members, LAMBDA m : HasMember(s, k, m))
        gone == {<<k, ZVersion(s, k), ScoreOf(s, k, m), m>> : m \in ToSet(found)}
    IN  Checked(s, k, "zset", Result(s, WRONGTYPE), Result(s, Integer(0)),
          IF found = <<>> THEN Result(s, Integer(0))
          ELSE Result(Removed(s, k, gone, wrapping_sub(s, k, Len(found))), Integer(Len(found))))

-----------------------------------------------------------------------------
(* Ranges. *)

\* The entries with indices start..stop: negative ones count from the end and
\* stop at the first entry.
ByRank(q, start, stop, count) ==
    LET from == IF start < 0 THEN Max({count + start, 0}) ELSE start
        upTo == IF stop < 0 THEN Max({count + stop, 0}) ELSE stop
    IN  IF from > upTo \/ from >= count THEN <<>>
        ELSE SubSeq(q, from + 1, Min({upTo + 1, count, Len(q)}))

\* The entries of an iteration that stops at the first score past the bound.
ByScore(q, min, max) ==
    SelectSeq(q, LAMBDA e : ScoreAt(e) >= min /\ ScoreAt(e) <= max)

\* Bounds of the lexicographical commands: <<"-">>, <<"+">>, <<"[", m>> or
\* <<"(", m>>.  parse_lex_range makes no bound of the first two.
parses_lex(b) == b[1] \in {"-", "+", "[", "("}
parse_lex_range(b) == IF Len(b) = 1 THEN {} ELSE {b[2]}
exclusive(b) == b[1] = "("

is_in_lex_range(m, min, max) ==
    /\ \A x \in parse_lex_range(min) : m > x \/ (m = x /\ ~exclusive(min))
    /\ \A x \in parse_lex_range(max) : m < x \/ (m = x /\ ~exclusive(max))

\* The iteration stops at the first member past the upper bound.
ByLex(q, min, max) ==
    LET past == {i \in DOMAIN q : \E x \in parse_lex_range(max) : MemberAt(q[i]) > x}
        read == SubSeq(q, 1, IF past = {} THEN Len(q) ELSE Min(past) - 1)
    IN  SelectSeq(read, LAMBDA e : is_in_lex_range(MemberAt(e), min, max))

\* LIMIT offset count; <<>> is no LIMIT.  A negative count takes nothing.
Limited(q, limit) ==
    IF limit = <<>> THEN q
    ELSE LET offset == Max({limit[1], 0})
         IN  SubSeq(q, offset + 1, Min({Len(q), offset + Max({limit[2], 0})}))

BadLexRange == Err("min or max not valid string range item")

-----------------------------------------------------------------------------
(* Commands that read. *)

zcard(s, k) == Checked(s, k, "zset", WRONGTYPE, Integer(0), Integer(s.meta[k].count))

zcount(s, k, min, max) ==
    Checked(s, k, "zset", WRONGTYPE, Integer(0), Integer(Len(ByScore(Ascending(s, k), min, max))))

zscore(s, k, m) ==
    Checked(s, k, "zset", WRONGTYPE, Nil,
        IF HasMember(s, k, m) THEN Bulk(Num(ScoreOf(s, k, m))) ELSE Nil)

zmscore(s, k, members) ==
    Checked(s, k, "zset", WRONGTYPE, Array([i \in DOMAIN members |-> Nil]),
        Array([i \in DOMAIN members |->
                 IF HasMember(s, k, members[i])
                 THEN Bulk(Num(ScoreOf(s, k, members[i]))) ELSE Nil]))

\* The place of a member in an iteration, by its score in the other family.
Place(s, k, m, q) ==
    LET places == {i \in DOMAIN q : q[i] = <<k, ZVersion(s, k), ScoreOf(s, k, m), m>>}
    IN  Checked(s, k, "zset", WRONGTYPE, Nil,
          IF ~HasMember(s, k, m) \/ places = {} THEN Nil ELSE Integer(Min(places) - 1))

zrank(s, k, m) == Place(s, k, m, Ascending(s, k))

zrevrank(s, k, m) == Place(s, k, m, Descending(s, k))

zlexcount(s, k, min, max) ==
    Checked(s, k, "zset", WRONGTYPE, Integer(0),
        IF parses_lex(min) /\ parses_lex(max) THEN Integer(Len(ByLex(Ascending(s, k), min, max)))
        ELSE BadLexRange)

Shown(q, with_scores) == Array(IF with_scores THEN WithScores(q) ELSE MembersIn(q))

zrange(s, k, start, stop, with_scores) ==
    Checked(s, k, "zset", WRONGTYPE, Array(<<>>),
        Shown(ByRank(Ascending(s, k), start, stop, s.meta[k].count), with_scores))

zrevrange(s, k, start, stop, with_scores) ==
    Checked(s, k, "zset", WRONGTYPE, Array(<<>>),
        Shown(ByRank(Descending(s, k), start, stop, s.meta[k].count), with_scores))

zrangebylex(s, k, min, max, limit) ==
    Checked(s, k, "zset", WRONGTYPE, Array(<<>>),
        IF parses_lex(min) /\ parses_lex(max)
        THEN Array(MembersIn(Limited(ByLex(Ascending(s, k), min, max), limit)))
        ELSE BadLexRange)

zrangebyscore(s, k, min, max, with_scores, limit) ==
    Checked(s, k, "zset", WRONGTYPE, Array(<<>>),
        Shown(Limited(ByScore(Ascending(s, k), min, max), limit), with_scores))

zrevrangebyscore(s, k, max, min, with_scores, limit) ==
    Checked(s, k, "zset", WRONGTYPE, Array(<<>>),
        Shown(Limited(ByScore(Descending(s, k), min, max), limit), with_scores))

\* ZSCAN: the cursor is a position in the iteration.
zscan(s, k, cursor, p, count) ==
    LET q == Ascending(s, k)
        hits == {i \in DOMAIN q : i > cursor /\ glob_match(p, MemberAt(q[i]))}
        page == {i \in hits : Cardinality({j \in hits : j <= i}) <= count}
        found == SelectSeq(q, LAMBDA e : \E i \in page : q[i] = e)
    IN  Checked(s, k, "zset", WRONGTYPE, <<"scan", 0, <<>>>>,
          <<"scan", IF Cardinality(page) < count THEN 0 ELSE Max(page), WithScores(found)>>)

-----------------------------------------------------------------------------
(* Commands that remove a range. *)

RemoveRange(s, k, q) ==
    IF q = <<>> THEN Result(s, Integer(0))
    ELSE Result(Removed(s, k, ToSet(q), saturating_sub(s, k, Len(q))), Integer(Len(q)))

zremrangebylex(s, k, min, max) ==
    Checked(s, k, "zset", Result(s, WRONGTYPE), Result(s, Integer(0)),
        IF parses_lex(min) /\ parses_lex(max)
        THEN RemoveRange(s, k, ByLex(Ascending(s, k), min, max))
        ELSE Result(s, BadLexRange))

zremrangebyrank(s, k, start, stop) ==
    Checked(s, k, "zset", Result(s, WRONGTYPE), Result(s, Integer(0)),
        RemoveRange(s, k, ByRank(Ascending(s, k), start, stop, s.meta[k].count)))

zremrangebyscore(s, k, min, max) ==
    Checked(s, k, "zset", Result(s, WRONGTYPE), Result(s, Integer(0)),
        RemoveRange(s, k, ByScore(Ascending(s, k), min, max)))

-----------------------------------------------------------------------------
(* ZINTERSTORE and ZUNIONSTORE. *)

aggregate_scores(scores, aggregate) ==
    CASE aggregate = "SUM" -> MapThenSumSet(LAMBDA x : x[2], scores)
      [] aggregate = "MIN" -> Min({x[2] : x \in scores})
      [] aggregate = "MAX" -> Max({x[2] : x \in scores})

\* What the sources hold of member m: the index and weighted score of each.
WeightedScores(s, keys, weights, m) ==
    {<<i, weights[i] * ScoreAt(e)>> :
        <<i, e>> \in {<<i, e>> \in (DOMAIN keys) \X s.scores :
                        /\ check_type_state(s, keys[i], "zset") = "Match"
                        /\ e[1] = keys[i] /\ e[2] = ZVersion(s, keys[i])
                        /\ MemberAt(e) = m}}

\* The sources are read without a lock.  An intersection with a source that is
\* not there returns at once; otherwise one batch replaces the destination,
\* whatever its type is.
zset_store_operation(s, dest, keys, weights, aggregate, is_inter) ==
    LET state(i) == check_type_state(s, keys[i], "zset")
        stops == {i \in DOMAIN keys : state(i) = "WrongType"
                                      \/ (is_inter /\ state(i) # "Match")}
        w == IF weights = <<>> THEN [i \in DOMAIN keys |-> 1] ELSE weights
        scores(m) == WeightedScores(s, keys, w, m)
        kept == {m \in {MemberAt(e) : e \in s.scores} :
                    IF is_inter THEN Cardinality(scores(m)) = Len(keys) ELSE scores(m) # {}}
        old == IF Live(s, dest)
               THEN {e \in s.scores : e[1] = dest /\ e[2] = ZVersion(s, dest)} ELSE {}
        cleared == Removed(s, dest, old, 0)
    IN  IF keys = <<>> THEN Result(s, Integer(0))
        ELSE IF Len(w) # Len(keys) THEN Result(s, Err("syntax error"))
        ELSE IF stops # {}
        THEN Result(s, IF state(Min(stops)) = "WrongType" THEN WRONGTYPE ELSE Integer(0))
        ELSE IF kept = {} THEN Result(cleared, Integer(0))
        ELSE Result(create_zset(cleared, dest, [m \in kept |-> aggregate_scores(scores(m), aggregate)]),
                    Integer(Cardinality(kept)))

zinterstore(s, dest, keys, weights, aggregate) ==
    zset_store_operation(s, dest, keys, weights, aggregate, TRUE)

zunionstore(s, dest, keys, weights, aggregate) ==
    zset_store_operation(s, dest, keys, weights, aggregate, FALSE)

-----------------------------------------------------------------------------
(***************************************************************************)
(* The sorted set commands as the dispatcher runs them.                      *)
(***************************************************************************)

ZcardCmd(s, argv) == query(s, argv, 2, zcard(s, argv[2]))
ZscoreCmd(s, argv) == query(s, argv, 3, zscore(s, argv[2], argv[3]))
ZmscoreCmd(s, argv) == query(s, argv, -3, zmscore(s, argv[2], From(argv, 3)))
ZrankCmd(s, argv) == query(s, argv, 3, zrank(s, argv[2], argv[3]))
ZrevrankCmd(s, argv) == query(s, argv, 3, zrevrank(s, argv[2], argv[3]))
ZlexcountCmd(s, argv) == query(s, argv, 4, zlexcount(s, argv[2], argv[3], argv[4]))
ZremCmd(s, argv) == execute(s, argv, -3, zrem(s, argv[2], From(argv, 3)))
ZremrangebylexCmd(s, argv) == execute(s, argv, 4, zremrangebylex(s, argv[2], argv[3], argv[4]))

\* A number that parses as f64 may be infinite.
Finite(tok) == ParsesFloat(tok) /\ FloatOf(tok) \in -FloatMax..FloatMax

ZaddCmd(s, argv) ==
    LET pairs == Pairs(From(argv, 3))
    IN  IF Len(argv) < 4 \/ Len(argv) % 2 = 1 THEN Result(s, WrongArity)
        ELSE IF \E p \in ToSet(pairs) : ~Finite(p[1]) THEN Result(s, NotFloat)
        ELSE zadd(s, argv[2], [i \in DOMAIN pairs |-> <<FloatOf(pairs[i][1]), pairs[i][2]>>])

ZincrbyCmd(s, argv) ==
    execute(s, argv, 4, IF Finite(argv[3]) THEN zincrby(s, argv[2], FloatOf(argv[3]), argv[4])
                        ELSE Result(s, NotFloat))

ZcountCmd(s, argv) ==
    query(s, argv, 4, IF AllParseFloat(From(argv, 3))
                      THEN zcount(s, argv[2], FloatOf(argv[3]), FloatOf(argv[4])) ELSE NotFloat)

ZremrangebyrankCmd(s, argv) ==
    execute(s, argv, 4, IF AllParseInt(From(argv, 3))
                        THEN zremrangebyrank(s, argv[2], IntOf(argv[3]), IntOf(argv[4]))
                        ELSE Result(s, NotInteger))

ZremrangebyscoreCmd(s, argv) ==
    execute(s, argv, 4, IF AllParseFloat(From(argv, 3))
                        THEN zremrangebyscore(s, argv[2], FloatOf(argv[3]), FloatOf(argv[4]))
                        ELSE Result(s, NotFloat))

\* key start stop [WITHSCORES]; what follows WITHSCORES is not looked at.
RangeArguments(argv, reply) ==
    IF ~AllParseInt(SubSeq(argv, 3, 4)) THEN NotInteger
    ELSE IF Len(argv) > 4 /\ argv[5] # Word("WITHSCORES") THEN SyntaxError
    ELSE reply

ZrangeCmd(s, argv) ==
    query(s, argv, -4, RangeArguments(argv,
        zrange(s, argv[2], IntOf(argv[3]), IntOf(argv[4]), Len(argv) > 4)))

ZrevrangeCmd(s, argv) ==
    query(s, argv, -4, RangeArguments(argv,
        zrevrange(s, argv[2], IntOf(argv[3]), IntOf(argv[4]), Len(argv) > 4)))

\* [WITHSCORES] [LIMIT offset count], in any order; the last LIMIT counts.
\* <<"options", with_scores, limit>> or an error.
RECURSIVE range_options(_, _, _)
range_options(args, allowed, found) ==
    IF args = <<>> THEN found
    ELSE IF args[1] \notin allowed THEN SyntaxError
    ELSE IF args[1] = Word("WITHSCORES")
    THEN range_options(From(args, 2), allowed, [found EXCEPT ![2] = TRUE])
    ELSE IF Len(args) < 3 THEN SyntaxError
    ELSE IF ~AllParseInt(SubSeq(args, 2, 3)) THEN NotInteger
    ELSE range_options(From(args, 4), allowed,
                       [found EXCEPT ![3] = <<IntOf(args[2]), IntOf(args[3])>>])

NoOptions == <<"options", FALSE, <<>>>>
ScoreOptions(argv) == range_options(From(argv, 5), {Word("WITHSCORES"), Word("LIMIT")}, NoOptions)

ZrangebyscoreCmd(s, argv) ==
    LET o == ScoreOptions(argv)
    IN  query(s, argv, -4,
          IF ~AllParseFloat(SubSeq(argv, 3, 4)) THEN NotFloat
          ELSE IF IsErr(o) THEN o
          ELSE zrangebyscore(s, argv[2], FloatOf(argv[3]), FloatOf(argv[4]), o[2], o[3]))

ZrevrangebyscoreCmd(s, argv) ==
    LET o == ScoreOptions(argv)
    IN  query(s, argv, -4,
          IF ~AllParseFloat(SubSeq(argv, 3, 4)) THEN NotFloat
          ELSE IF IsErr(o) THEN o
          ELSE zrevrangebyscore(s, argv[2], FloatOf(argv[3]), FloatOf(argv[4]), o[2], o[3]))

ZrangebylexCmd(s, argv) ==
    LET o == range_options(From(argv, 5), {Word("LIMIT")}, NoOptions)
    IN  query(s, argv, -4, IF IsErr(o) THEN o ELSE zrangebylex(s, argv[2], argv[3], argv[4], o[3]))

\* ZSCAN looks at the pattern as a whole, whatever its form.
ZscanCmd(s, argv) ==
    LET o == parse_scan_options(argv[3], From(argv, 4))
    IN  query(s, argv, -3, IF IsErr(o) THEN o ELSE zscan(s, argv[2], o[2], o[3], o[4]))

-----------------------------------------------------------------------------
(* destination numkeys key [key ...] [WEIGHTS ...] [AGGREGATE ...] *)

\* <<"options", weights, aggregate>> or an error.  Weights given twice add up.
RECURSIVE store_options(_, _, _)
store_options(args, numkeys, found) ==
    IF args = <<>> THEN found
    ELSE IF args[1] = Word("WEIGHTS")
    THEN LET w == SubSeq(args, 2, numkeys + 1)
         IN  IF Len(args) < numkeys + 1 THEN SyntaxError
             ELSE IF ~AllParseFloat(w) THEN Err("weight value is not a float")
             ELSE store_options(From(args, numkeys + 2), numkeys,
                    [found EXCEPT ![2] = @ \o [i \in DOMAIN w |-> IntOf(w[i])]])
    ELSE IF args[1] = Word("AGGREGATE") /\ Len(args) > 1
            /\ args[2] \in {Word("SUM"), Word("MIN"), Word("MAX")}
    THEN store_options(From(args, 3), numkeys, [found EXCEPT ![3] = args[2][2]])
    ELSE SyntaxError

StoreCmd(s, argv, is_inter) ==
    LET numkeys == IntOf(argv[3])
        o == store_options(From(argv, 4 + numkeys), numkeys, <<"options", <<>>, "SUM">>)
    IN  execute(s, argv, -4,
          IF ~ParsesInt(argv[3]) \/ numkeys <= 0
          THEN Result(s, Err("numkeys should be greater than 0"))
          ELSE IF Len(argv) < 3 + numkeys THEN Result(s, SyntaxError)
          ELSE IF IsErr(o) THEN Result(s, o)
          ELSE zset_store_operation(s, argv[2], SubSeq(argv, 4, 3 + numkeys), o[2], o[3], is_inter))

ZinterstoreCmd(s, argv) == StoreCmd(s, argv, TRUE)
ZunionstoreCmd(s, argv) == StoreCmd(s, argv, FALSE)
=============================================================================
