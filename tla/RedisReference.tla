--------------------------- MODULE RedisReference ---------------------------
(***************************************************************************)
(* What the commands promise, without any of the storage: a database is a    *)
(* function from the keys that exist to their values and expiration times.   *)
(*                                                                          *)
(* A string is a sequence of bytes, a hash and a sorted set are functions, a *)
(* set is a set, a list is a sequence and a vector set maps its elements to  *)
(* their vectors.  Ranges are sets of positions, and bits are sets of        *)
(* positions too: nothing here is computed the way the                       *)
(* storage computes it.  Every command returns the set of the outcomes it    *)
(* may have.                                                                 *)
(***************************************************************************)
EXTENDS Cmd, FiniteSetsExt

CONSTANTS
    Millisecond, Second,     \* in units of the clock
    VectorConfig             \* the limits of searches in vector sets

-----------------------------------------------------------------------------
(* Outcomes. *)

Out(a, r) == {[keys |-> a, reply |-> r]}
Fails(a) == Out(a, Err("refused"))

\* A reply in any order.
AnyOrder(m) == <<"any order", m>>

Exists(a, k) == k \in DOMAIN a
Other(a, k, type) == Exists(a, k) /\ a[k].val[1] # type
Val(a, k, none) == IF Exists(a, k) THEN a[k].val[2] ELSE none
ETimeOf(a, k) == IF Exists(a, k) THEN a[k].etime ELSE 0

Gone(a, ks) == [j \in DOMAIN a \ ks |-> a[j]]
Replaced(a, k, type, v, etime) == (k :> [val |-> <<type, v>>, etime |-> etime]) @@ a

\* A modified value keeps its expiration time; an empty collection is gone.
Put(a, k, type, v) ==
    IF type # "string" /\ (IF type = "set" THEN v = {} ELSE DOMAIN v = {})
    THEN Gone(a, {k}) ELSE Replaced(a, k, type, v, ETimeOf(a, k))

\* The position an index means in a sequence of n elements, from 0.
Position(i, n) == IF i < 0 THEN n + i ELSE i

\* The elements of q between two indexes.
Between(q, start, stop) ==
    LET n == Len(q)
        at == SelectSeq([i \in 1..n |-> i], LAMBDA i :
                i - 1 >= Position(start, n) /\ i - 1 <= Position(stop, n))
    IN  [i \in DOMAIN at |-> q[at[i]]]

-----------------------------------------------------------------------------
(* Strings and bits. *)

\* An end before the beginning of the string stands for the first character,
\* unless the range runs backwards as it is given.
Substring(b, start, stop) ==
    IF start < 0 /\ stop < 0 /\ start > stop THEN <<>>
    ELSE Between(b, start, IF Position(stop, Len(b)) < 0 THEN 0 ELSE stop)

\* The positions of the one bits of a byte string, and back.
Ones(b) == {i \in 0..(8 * Len(b) - 1) : (b[(i \div 8) + 1] \div (2 ^ (7 - (i % 8)))) % 2 = 1}
FromOnes(S, n) ==
    [j \in 1..n |-> MapThenSumSet(LAMBDA i : 2 ^ (7 - (i % 8)), {i \in S : i \div 8 = j - 1})]

\* The bits of the bytes, or of the bits, between two indexes.
BitsBetween(n, start, stop, unit) ==
    {i \in 0..(8 * n - 1) : /\ i \div unit >= Position(start, (8 * n) \div unit)
                            /\ i \div unit <= Position(stop, (8 * n) \div unit)}

RefSetTo(a, k, v, etime) == Out(Replaced(a, k, "string", Bytes(v), etime), Simple("OK"))

RefWriteString(a, k, b, reply) == Out(Put(a, k, "string", b), reply)

RefIncr(a, k, b, incr) ==
    LET sum == (IF Exists(a, k) THEN IntOf(Raw(b)) ELSE 0) + incr
    IN  IF (Exists(a, k) /\ ~ParsesInt(Raw(b))) \/ sum \notin I64Min..I64Max THEN Fails(a)
        ELSE RefWriteString(a, k, Bytes(FormatInt(sum)), Integer(sum))

RefIncrFloat(a, k, b, incr) ==
    LET sum == (IF Exists(a, k) THEN FloatOf(Raw(b)) ELSE 0) + incr
    IN  IF (Exists(a, k) /\ ~ParsesFloat(Raw(b))) \/ Magnitude(sum) > FloatMax THEN Fails(a)
        ELSE RefWriteString(a, k, Bytes(Num(sum)), Bulk(Num(sum)))

RefSetRange(a, k, b, offset, v) ==
    LET n == Max({Len(b), offset + Len(v)})
        byte(i) == IF i \in (offset + 1)..(offset + Len(v)) THEN v[i - offset]
                   ELSE IF i <= Len(b) THEN b[i] ELSE 0
    IN  IF v = <<>> THEN Out(a, Integer(Len(b)))
        ELSE RefWriteString(a, k, [i \in 1..n |-> byte(i)], Integer(n))

RefSetBit(a, k, b, offset, bit) ==
    LET n == Max({Len(b), (offset \div 8) + 1})
        ones == IF bit = 1 THEN Ones(b) \cup {offset} ELSE Ones(b) \ {offset}
    IN  RefWriteString(a, k, FromOnes(ones, n), Bool(offset \in Ones(b)))

RefBitPos(a, b, bit, range, unit) ==
    LET all == IF range = <<>> THEN BitsBetween(Len(b), 0, -1, unit)
               ELSE BitsBetween(Len(b), range[1], IF Len(range) = 2 THEN range[2] ELSE -1, unit)
        hits == IF bit = 1 THEN all \cap Ones(b) ELSE all \ Ones(b)
    IN  Out(a, Integer(IF hits # {} THEN Min(hits) ELSE IF bit = 1 THEN -1 ELSE 0))

RefBitOp(a, operation, dest, srcs) ==
    LET string(k) == Val(a, k, <<>>)
        n == Max({Len(string(k)) : k \in ToSet(srcs)})
        ones == [i \in DOMAIN srcs |-> Ones(string(srcs[i]))]
        odd == {i \in 0..(8 * n - 1) : Cardinality({j \in DOMAIN ones : i \in ones[j]}) % 2 = 1}
        result == CASE operation = "AND" -> {i \in ones[1] : \A j \in DOMAIN ones : i \in ones[j]}
                    [] operation = "OR" -> UNION {ones[j] : j \in DOMAIN ones}
                    [] operation = "XOR" -> odd
                    [] operation = "NOT" -> (0..(8 * n - 1)) \ ones[1]
    IN  IF \E k \in ToSet(srcs) : Other(a, k, "string") THEN Fails(a)
        ELSE Out(Replaced(a, dest, "string", FromOnes(result, n), 0), Integer(n))

\* Commands of one string; b is its value, n(i) the i-th argument as a number.
RefString(a, now, argv) ==
    LET k == argv[2]
        b == Val(a, k, <<>>)
        n(i) == IntOf(argv[i])
        ends == [i \in 1..(Len(argv) - 3) |-> argv[i + 3]]
        unit == Len(argv) = 6 /\ argv[6] = Word("BIT")
    IN  CASE argv[1] = "get" -> Out(a, IF Exists(a, k) THEN Bulk(Raw(b)) ELSE Nil)
          [] argv[1] = "getset" -> {[o EXCEPT !.reply = IF Exists(a, k) THEN Bulk(Raw(b)) ELSE Nil] :
                                      o \in RefSetTo(a, k, argv[3], 0)}
          [] argv[1] = "strlen" -> Out(a, Integer(Len(b)))
          [] argv[1] = "append" ->
               RefWriteString(a, k, b \o Bytes(argv[3]), Integer(Len(b) + Len(Bytes(argv[3]))))
          [] argv[1] \in {"getrange", "substr"} -> Out(a, Bulk(Raw(Substring(b, n(3), n(4)))))
          [] argv[1] = "setrange" -> RefSetRange(a, k, b, n(3), Bytes(argv[4]))
          [] argv[1] = "incr" -> RefIncr(a, k, b, 1)
          [] argv[1] = "decr" -> RefIncr(a, k, b, -1)
          [] argv[1] = "incrby" -> RefIncr(a, k, b, n(3))
          [] argv[1] = "decrby" -> RefIncr(a, k, b, -n(3))
          [] argv[1] = "incrbyfloat" -> RefIncrFloat(a, k, b, FloatOf(argv[3]))
          [] argv[1] = "setbit" -> RefSetBit(a, k, b, n(3), n(4))
          [] argv[1] = "getbit" -> Out(a, Bool(n(3) \in Ones(b)))
          [] argv[1] = "bitcount" ->
               Out(a, Integer(Cardinality(Ones(b) \cap
                   IF Len(argv) = 2 THEN BitsBetween(Len(b), 0, -1, 8)
                   ELSE BitsBetween(Len(b), n(3), n(4), 8))))
          [] argv[1] = "bitpos" ->
               RefBitPos(a, b, n(3), [i \in 1..Min({Len(ends), 2}) |-> IntOf(ends[i])],
                         IF unit THEN 1 ELSE 8)

\* Commands that do not look at the type of the key, or take several keys.
RefKeys(a, now, argv) ==
    LET k == argv[2]
        ks == From(argv, 2)
        pairs == Pairs(ks)
        all == FoldLeft(LAMBDA acc, p : Replaced(acc, p[1], "string", Bytes(p[2]), 0), a, pairs)
        expires(t) == IF ~Exists(a, k) THEN Out(a, Integer(0))
                      ELSE IF t < now THEN Out(Gone(a, {k}), Integer(1))
                      ELSE Out([a EXCEPT ![k].etime = t], Integer(1))
        left(unit) == Out(a, IF ~Exists(a, k) THEN Integer(-2)
                             ELSE IF a[k].etime = 0 THEN Integer(-1)
                             ELSE Integer((a[k].etime - now) \div unit))
        n == IntOf(argv[3])
    IN  CASE argv[1] = "set" -> RefSetTo(a, k, argv[3], 0)
          [] argv[1] = "setex" -> RefSetTo(a, k, argv[4], now + n * Second)
          [] argv[1] = "psetex" -> RefSetTo(a, k, argv[4], now + n * Millisecond)
          [] argv[1] = "setnx" ->
               IF Exists(a, k) THEN Out(a, Integer(0))
               ELSE Out(Replaced(a, k, "string", Bytes(argv[3]), 0), Integer(1))
          [] argv[1] = "mget" ->
               Out(a, Array([i \in DOMAIN ks |->
                   IF Exists(a, ks[i]) /\ ~Other(a, ks[i], "string") THEN Bulk(Raw(a[ks[i]].val[2]))
                   ELSE Nil]))
          [] argv[1] = "mset" -> Out(all, Simple("OK"))
          [] argv[1] = "msetnx" ->
               IF \E p \in ToSet(pairs) : Exists(a, p[1]) THEN Out(a, Integer(0))
               ELSE Out(all, Integer(1))
          [] argv[1] = "bitop" -> RefBitOp(a, argv[2][2], argv[3], From(argv, 4))
          [] argv[1] = "del" ->
               Out(Gone(a, ToSet(ks)), Integer(Cardinality(ToSet(ks) \cap DOMAIN a)))
          [] argv[1] = "exists" -> Out(a, Integer(Cardinality({i \in DOMAIN ks : Exists(a, ks[i])})))
          [] argv[1] = "type" -> Out(a, Simple(IF Exists(a, k) THEN a[k].val[1] ELSE "none"))
          [] argv[1] = "keys" -> Out(a, AnyOrder({j \in DOMAIN a : glob_match(argv[2], j)}))
          [] argv[1] = "randomkey" ->
               IF DOMAIN a = {} THEN Out(a, Nil) ELSE UNION {Out(a, Bulk(j)) : j \in DOMAIN a}
          [] argv[1] \in {"flushdb", "flushall"} -> Out(<<>>, Simple("OK"))
          [] argv[1] = "expire" -> expires(now + n * Second)
          [] argv[1] = "pexpire" -> expires(now + n * Millisecond)
          [] argv[1] = "expireat" -> expires(n * Second)
          [] argv[1] = "pexpireat" -> expires(n * Millisecond)
          [] argv[1] = "ttl" -> left(Second)
          [] argv[1] = "pttl" -> left(Millisecond)
          [] argv[1] = "persist" ->
               IF ETimeOf(a, k) = 0 THEN Out(a, Integer(0))
               ELSE Out([a EXCEPT ![k].etime = 0], Integer(1))

-----------------------------------------------------------------------------
(* Hashes. *)

Set2(h, pairs) == FoldLeft(LAMBDA acc, p : (p[1] :> p[2]) @@ acc, h, pairs)

RefHash(a, argv) ==
    LET k == argv[2]
        h == Val(a, k, <<>>)
        f == argv[3]
        fs == From(argv, 3)
        n == IntOf(argv[4])
        value(x) == IF x \in DOMAIN h THEN Bulk(h[x]) ELSE Nil
        stores(new, reply) == Out(Put(a, k, "hash", new), reply)
        sum == (IF f \in DOMAIN h THEN IntOf(h[f]) ELSE 0) + n
        halves == (IF f \in DOMAIN h THEN FloatOf(h[f]) ELSE 0) + FloatOf(argv[4])
    IN  CASE argv[1] = "hget" -> Out(a, value(f))
          [] argv[1] = "hexists" -> Out(a, Bool(f \in DOMAIN h))
          [] argv[1] = "hstrlen" ->
               Out(a, Integer(IF f \in DOMAIN h THEN Len(Bytes(h[f])) ELSE 0))
          [] argv[1] = "hlen" -> Out(a, Integer(Cardinality(DOMAIN h)))
          [] argv[1] = "hkeys" -> Out(a, AnyOrder(DOMAIN h))
          [] argv[1] = "hgetall" -> Out(a, AnyOrder({<<x, h[x]>> : x \in DOMAIN h}))
          [] argv[1] = "hvals" ->
               {[keys |-> a, reply |-> Array([i \in DOMAIN q |-> h[q[i]]])] : q \in SetToSeqs(DOMAIN h)}
          [] argv[1] = "hmget" -> Out(a, Array([i \in DOMAIN fs |-> value(fs[i])]))
          [] argv[1] = "hdel" ->
               stores([x \in DOMAIN h \ ToSet(fs) |-> h[x]],
                      Integer(Cardinality(DOMAIN h \cap ToSet(fs))))
          [] argv[1] = "hset" ->
               stores(Set2(h, Pairs(fs)),
                      Integer(Cardinality({p[1] : p \in ToSet(Pairs(fs))} \ DOMAIN h)))
          [] argv[1] = "hmset" -> stores(Set2(h, Pairs(fs)), Simple("OK"))
          [] argv[1] = "hsetnx" ->
               IF f \in DOMAIN h THEN Out(a, Integer(0))
               ELSE stores((f :> argv[4]) @@ h, Integer(1))
          [] argv[1] = "hincrby" ->
               IF (f \in DOMAIN h /\ ~ParsesInt(h[f])) \/ sum \notin I64Min..I64Max THEN Fails(a)
               ELSE stores((f :> FormatInt(sum)) @@ h, Integer(sum))
          [] argv[1] = "hincrbyfloat" ->
               IF (f \in DOMAIN h /\ ~ParsesFloat(h[f])) \/ Magnitude(halves) > FloatMax
               THEN Fails(a)
               ELSE stores((f :> Num(halves)) @@ h, Bulk(Num(halves)))

-----------------------------------------------------------------------------
(* Lists. *)

\* The list without the elements at some positions.
Dropped(q, at) ==
    LET kept == SelectSeq([i \in DOMAIN q |-> i], LAMBDA i : i \notin at)
    IN  [i \in DOMAIN kept |-> q[kept[i]]]

RefList(a, argv) ==
    LET k == argv[2]
        q == Val(a, k, <<>>)
        args == From(argv, 3)
        n(i) == IntOf(argv[i])
        stores(new, reply) == Out(Put(a, k, "list", new), reply)
        popped(m, fromLeft) ==
            IF fromLeft THEN SubSeq(q, 1, m) ELSE Reverse(SubSeq(q, Len(q) - m + 1, Len(q)))
        rest(m, fromLeft) == IF fromLeft THEN SubSeq(q, m + 1, Len(q)) ELSE SubSeq(q, 1, Len(q) - m)
        pop(fromLeft) ==
            LET m == Min({Len(q), IF Len(argv) > 2 THEN n(3) ELSE 1})
                out == popped(m, fromLeft)
            IN  IF q = <<>> THEN Out(a, Nil)
                ELSE stores(rest(m, fromLeft), IF Len(argv) > 2 THEN Array(out) ELSE Bulk(out[1]))
        equal == {i \in DOMAIN q : q[i] = argv[4]}
        first == {i \in equal : Cardinality({j \in equal : j <= i}) <= n(3)}
        last == {i \in equal : Cardinality({j \in equal : j >= i}) <= -n(3)}
        gone == IF n(3) = 0 THEN equal ELSE IF n(3) > 0 THEN first ELSE last
        at == Position(n(3), Len(q)) + 1
        pivot == Min({i \in DOMAIN q : q[i] = argv[4]})
    IN  CASE argv[1] = "lpush" -> stores(Reverse(args) \o q, Integer(Len(q) + Len(args)))
          [] argv[1] = "rpush" -> stores(q \o args, Integer(Len(q) + Len(args)))
          [] argv[1] = "lpushx" ->
               IF q = <<>> THEN Out(a, Integer(0))
               ELSE stores(Reverse(args) \o q, Integer(Len(q) + Len(args)))
          [] argv[1] = "rpushx" ->
               IF q = <<>> THEN Out(a, Integer(0)) ELSE stores(q \o args, Integer(Len(q) + Len(args)))
          [] argv[1] = "lpop" -> pop(TRUE)
          [] argv[1] = "rpop" -> pop(FALSE)
          [] argv[1] = "llen" -> Out(a, Integer(Len(q)))
          [] argv[1] = "lindex" -> Out(a, IF at \in DOMAIN q THEN Bulk(q[at]) ELSE Nil)
          [] argv[1] = "lrange" -> Out(a, Array(Between(q, n(3), n(4))))
          [] argv[1] = "ltrim" -> stores(Between(q, n(3), n(4)), Simple("OK"))
          [] argv[1] = "lset" ->
               IF at \in DOMAIN q THEN stores([q EXCEPT ![at] = argv[4]], Simple("OK")) ELSE Fails(a)
          [] argv[1] = "lrem" -> stores(Dropped(q, gone), Integer(Cardinality(gone)))
          [] argv[1] = "linsert" ->
               IF argv[4] \notin ToSet(q) THEN Out(a, Integer(-1))
               ELSE stores(IF argv[3] = Word("BEFORE")
                           THEN SubSeq(q, 1, pivot - 1) \o <<argv[5]>> \o SubSeq(q, pivot, Len(q))
                           ELSE SubSeq(q, 1, pivot) \o <<argv[5]>> \o SubSeq(q, pivot + 1, Len(q)),
                           Integer(Len(q) + 1))
          [] argv[1] = "rpoplpush" ->
               IF q = <<>> THEN Out(a, Nil)
               ELSE LET without == Put(a, k, "list", Front(q))
                        pushed == Put(without, argv[3], "list", <<Last(q)>> \o Val(without, argv[3], <<>>))
                    IN  Out(pushed, Bulk(Last(q)))

-----------------------------------------------------------------------------
(* Sets. *)

RefSet(a, argv) ==
    LET k == argv[2]
        args == ToSet(From(argv, 3))
        s == Val(a, k, {})
        of(j) == Val(a, j, {})
        keys == From(argv, IF argv[1] \in {"sdiff", "sinter", "sunion"} THEN 2 ELSE 3)
        diff == {m \in of(keys[1]) : \A i \in 2..Len(keys) : m \notin of(keys[i])}
        inter == {m \in of(keys[1]) : \A i \in DOMAIN keys : m \in of(keys[i])}
        union == UNION {of(j) : j \in ToSet(keys)}
        stores(new, reply) == Out(Put(a, k, "set", new), reply)
        replaces(new) == Out(Put(Gone(a, {k}), k, "set", new), Integer(Cardinality(new)))
        n == IntOf(argv[3])
        draws(m) == UNION {SetToSeqs(d) : d \in kSubset(Min({m, Cardinality(s)}), s)}
        moved == Put(Put(a, k, "set", s \ {argv[4]}), argv[3], "set", of(argv[3]) \cup {argv[4]})
    IN  CASE argv[1] = "sadd" -> stores(s \cup args, Integer(Cardinality(args \ s)))
          [] argv[1] = "srem" -> stores(s \ args, Integer(Cardinality(args \cap s)))
          [] argv[1] = "scard" -> Out(a, Integer(Cardinality(s)))
          [] argv[1] = "smembers" -> Out(a, AnyOrder(s))
          [] argv[1] = "sismember" -> Out(a, Bool(argv[3] \in s))
          [] argv[1] = "smismember" ->
               Out(a, Array([i \in 1..(Len(argv) - 2) |-> Bool(argv[i + 2] \in s)]))
          [] argv[1] = "spop" /\ Len(argv) = 2 ->
               IF s = {} THEN Out(a, Nil) ELSE UNION {stores(s \ {m}, Bulk(m)) : m \in s}
          [] argv[1] = "spop" /\ Len(argv) = 3 ->
               UNION {stores(s \ ToSet(q), Array(q)) : q \in draws(n)}
          [] argv[1] = "srandmember" /\ Len(argv) = 2 ->
               IF s = {} THEN Out(a, Nil) ELSE UNION {Out(a, Bulk(m)) : m \in s}
          [] argv[1] = "srandmember" /\ Len(argv) = 3 ->
               IF n >= 0 \/ s = {} THEN UNION {Out(a, Array(q)) : q \in draws(Magnitude(n))}
               ELSE UNION {Out(a, Array(q)) : q \in [1..-n -> s]}
          [] argv[1] = "smove" ->
               IF argv[4] \in s THEN Out(moved, Integer(1)) ELSE Out(a, Integer(0))
          [] argv[1] = "sdiff" -> Out(a, AnyOrder(diff))
          [] argv[1] = "sinter" -> Out(a, AnyOrder(inter))
          [] argv[1] = "sunion" -> Out(a, AnyOrder(union))
          [] argv[1] = "sdiffstore" -> replaces(diff)
          [] argv[1] = "sinterstore" -> replaces(inter)
          [] argv[1] = "sunionstore" -> replaces(union)

-----------------------------------------------------------------------------
(* Sorted sets.  A member's rank is the number of members before it. *)

Precede(z, m) == {x \in DOMAIN z : z[x] < z[m] \/ (z[x] = z[m] /\ x < m)}
Ranked(z) ==
    [i \in 1..Cardinality(DOMAIN z) |-> CHOOSE m \in DOMAIN z : Cardinality(Precede(z, m)) = i - 1]

\* LIMIT offset count.
LimitOf(q, limit) ==
    IF limit = <<>> THEN q
    ELSE SelectSeq(q, LAMBDA m : \E i \in DOMAIN q :
                     q[i] = m /\ i - 1 >= limit[1] /\ i - 1 < limit[1] + limit[2])

\* What follows the two ends of a range: <<with scores, limit>>.
Options(argv) ==
    LET limits == {i \in 5..Len(argv) : argv[i] = Word("LIMIT")}
    IN  <<Word("WITHSCORES") \in ToSet(From(argv, 5)),
          IF limits = {} THEN <<>> ELSE <<IntOf(argv[Min(limits) + 1]), IntOf(argv[Min(limits) + 2])>>>>

Listed(z, q, with_scores) == Array([i \in DOMAIN q |-> IF with_scores THEN <<q[i], z[q[i]]>> ELSE q[i]])

LexIn(m, min, max) ==
    /\ CASE min[1] = "-" -> TRUE [] min[1] = "+" -> FALSE [] min[1] = "[" -> m >= min[2]
         [] min[1] = "(" -> m > min[2]
    /\ CASE max[1] = "+" -> TRUE [] max[1] = "-" -> FALSE [] max[1] = "[" -> m <= max[2]
         [] max[1] = "(" -> m < max[2]

\* The sources of a store command, its weights and its way to aggregate.
Combined(a, argv, is_inter) ==
    LET n == IntOf(argv[3])
        z(i) == Val(a, argv[3 + i], <<>>)
        weighted == Word("WEIGHTS") \in ToSet(From(argv, 4 + n))
        w(i) == IF ~weighted THEN 1 ELSE IntOf(argv[4 + n + i])
        has(m) == {i \in 1..n : m \in DOMAIN z(i)}
        ms == {m \in UNION {DOMAIN z(i) : i \in 1..n} : ~is_inter \/ has(m) = 1..n}
        values(m) == {w(i) * z(i)[m] : i \in has(m)}
        kind == IF Word("AGGREGATE") \in ToSet(From(argv, 4 + n)) THEN argv[Len(argv)] ELSE Word("SUM")
    IN  [m \in ms |-> CASE kind = Word("SUM") -> MapThenSumSet(LAMBDA i : w(i) * z(i)[m], has(m))
                        [] kind = Word("MIN") -> Min(values(m))
                        [] kind = Word("MAX") -> Max(values(m))]

RefZSet(a, argv) ==
    LET k == argv[2]
        z == Val(a, k, <<>>)
        ranked == Ranked(z)
        ms == From(argv, 3)
        stores(new, reply) == Out(Put(a, k, "zset", new), reply)
        score(m) == IF m \in DOMAIN z THEN Bulk(Num(z[m])) ELSE Nil
        rank(m, n) == IF m \in DOMAIN z THEN Integer(n) ELSE Nil
        scored == SelectSeq(ranked, LAMBDA m : z[m] >= FloatOf(argv[3]) /\ z[m] <= FloatOf(argv[4]))
        backward == SelectSeq(Reverse(ranked), LAMBDA m :
                                z[m] <= FloatOf(argv[3]) /\ z[m] >= FloatOf(argv[4]))
        lexed == SelectSeq(ranked, LAMBDA m : LexIn(m, argv[3], argv[4]))
        removes(q) == stores([m \in DOMAIN z \ ToSet(q) |-> z[m]], Integer(Len(q)))
        sum == (IF argv[4] \in DOMAIN z THEN z[argv[4]] ELSE 0) + FloatOf(argv[3])
        combines(new) ==
            Out(Put(Gone(a, {k}), k, "zset", new), Integer(Cardinality(DOMAIN new)))
    IN  CASE argv[1] = "zadd" ->
               stores(FoldLeft(LAMBDA acc, p : (p[2] :> FloatOf(p[1])) @@ acc, z, Pairs(ms)),
                      Integer(Cardinality({p[2] : p \in ToSet(Pairs(ms))} \ DOMAIN z)))
          [] argv[1] = "zincrby" ->
               IF Magnitude(sum) > FloatMax THEN Fails(a)
               ELSE stores((argv[4] :> sum) @@ z, Bulk(Num(sum)))
          [] argv[1] = "zrem" -> removes(SelectSeq(ms, LAMBDA m : m \in DOMAIN z))
          [] argv[1] = "zcard" -> Out(a, Integer(Cardinality(DOMAIN z)))
          [] argv[1] = "zscore" -> Out(a, score(argv[3]))
          [] argv[1] = "zmscore" -> Out(a, Array([i \in DOMAIN ms |-> score(ms[i])]))
          [] argv[1] = "zrank" -> Out(a, rank(argv[3], Cardinality(Precede(z, argv[3]))))
          [] argv[1] = "zrevrank" ->
               Out(a, rank(argv[3], Cardinality(DOMAIN z) - 1 - Cardinality(Precede(z, argv[3]))))
          [] argv[1] = "zcount" -> Out(a, Integer(Len(scored)))
          [] argv[1] = "zlexcount" -> Out(a, Integer(Len(lexed)))
          [] argv[1] = "zrange" ->
               Out(a, Listed(z, Between(ranked, IntOf(argv[3]), IntOf(argv[4])), Options(argv)[1]))
          [] argv[1] = "zrevrange" ->
               Out(a, Listed(z, Between(Reverse(ranked), IntOf(argv[3]), IntOf(argv[4])), Options(argv)[1]))
          [] argv[1] = "zrangebyscore" ->
               Out(a, Listed(z, LimitOf(scored, Options(argv)[2]), Options(argv)[1]))
          [] argv[1] = "zrevrangebyscore" ->
               Out(a, Listed(z, LimitOf(backward, Options(argv)[2]), Options(argv)[1]))
          [] argv[1] = "zrangebylex" -> Out(a, Listed(z, LimitOf(lexed, Options(argv)[2]), FALSE))
          [] argv[1] = "zremrangebyrank" -> removes(Between(ranked, IntOf(argv[3]), IntOf(argv[4])))
          [] argv[1] = "zremrangebyscore" -> removes(scored)
          [] argv[1] = "zremrangebylex" -> removes(lexed)
          [] argv[1] = "zinterstore" -> combines(Combined(a, argv, TRUE))
          [] argv[1] = "zunionstore" -> combines(Combined(a, argv, FALSE))

-----------------------------------------------------------------------------
(* Vector sets. *)

\* The vector a command line gives, and what comes after it.
Given(argv) ==
    IF argv[3] = Word("FP32") THEN <<argv[4][2], From(argv, 5)>>
    ELSE LET n == IntOf(argv[4])
         IN  <<[i \in 1..n |-> FloatOf(argv[4 + i])], From(argv, 5 + n)>>

DotProduct(v, w) == MapThenSumSet(LAMBDA i : v[i] * w[i], DOMAIN v)
Norm(v) == CHOOSE n \in 0..DotProduct(v, v) : n * n = DotProduct(v, v)
Similarity(v, w) ==
    IF Norm(v) = 0 \/ Norm(w) = 0 THEN 25 ELSE 25 + (25 * DotProduct(v, w)) \div (Norm(v) * Norm(w))

\* The members from the most similar to the least, the best count of them.
RefSearch(a, set, v, options) ==
    LET score(e) == Similarity(v, set[e])
        all == SetToSortSeq(DOMAIN set, LAMBDA x, y :
                 score(x) > score(y) \/ (score(x) = score(y) /\ x < y))
        counts == {IntOf(options[i + 1]) : i \in {i \in DOMAIN options : options[i] = Word("COUNT")}}
        count == IF counts = {} THEN DefaultCount ELSE Min(counts)
        best == SubSeq(all, 1, Min({count, Len(all)}))
    IN  IF Len(v) # Len(set[all[1]]) \/ count > VectorConfig.max_k
           \/ Len(all) > VectorConfig.flat_scan_max_entries THEN Fails(a)
        ELSE Out(a, IF Word("WITHSCORES") \in ToSet(options)
                    THEN <<"map", [i \in DOMAIN best |-> <<best[i], score(best[i])>>]>>
                    ELSE Array(best))

RefVector(a, argv) ==
    LET k == argv[2]
        set == Val(a, k, <<>>)
        e == argv[3]
        dim == Len(set[CHOOSE x \in DOMAIN set : TRUE])
        given == Given(argv)
        stores(new, reply) == Out(Put(a, k, "vectorset", new), reply)
    IN  CASE argv[1] = "vadd" ->
               IF DOMAIN set # {} /\ Len(given[1]) # dim THEN Fails(a)
               ELSE stores((given[2][1] :> given[1]) @@ set, <<"boolean", given[2][1] \notin DOMAIN set>>)
          [] argv[1] = "vrem" ->
               stores([x \in DOMAIN set \ {e} |-> set[x]], <<"boolean", e \in DOMAIN set>>)
          [] argv[1] = "vcard" -> Out(a, Integer(Cardinality(DOMAIN set)))
          [] argv[1] = "vdim" -> IF DOMAIN set = {} THEN Fails(a) ELSE Out(a, Integer(dim))
          [] argv[1] = "vinfo" ->
               Out(a, IF DOMAIN set = {} THEN Nil ELSE <<"vinfo", dim, Cardinality(DOMAIN set)>>)
          [] argv[1] = "vismember" -> Out(a, <<"boolean", e \in DOMAIN set>>)
          [] argv[1] = "vemb" -> Out(a, IF e \in DOMAIN set THEN Array(set[e]) ELSE Nil)
          [] argv[1] = "vsim" ->
               IF DOMAIN set = {} THEN Out(a, Array(<<>>))
               ELSE IF e # Word("ELE") THEN RefSearch(a, set, given[1], given[2])
               ELSE IF argv[4] \notin DOMAIN set THEN Fails(a)
               ELSE RefSearch(a, set, set[argv[4]], From(argv, 5))

=============================================================================
