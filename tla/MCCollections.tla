--------------------------- MODULE MCCollections ---------------------------
(***************************************************************************)
(* Database on one instance, for the collection types.                       *)
(***************************************************************************)
EXTENDS Database

MCFocuses == {"hashes", "zsets", "sets", "lists", "vectors", "hscan", "sscan", "zscan"}
MCSlots == [k \in Keys |-> 0]
MCMaxVersion == [f \in MCFocuses |-> IF f \in {"zsets", "sets", "lists"} THEN 3 ELSE 2]
MCI64Min == -6

\* Elements of at most 3 bytes, and searches in at most 2 members.
MCVectorConfig == [max_dimension |-> 2, max_element_bytes |-> 3, max_vector_bytes |-> 8,
                   max_k |-> 10, flat_scan_max_entries |-> 2]

N(i) == FormatInt(i)
One == N(1)
X == Raw(<<120>>)

\* Everything that makes a key come and go, whatever it holds.
Lifecycle == {<<"del", 1>>, <<"pexpire", 1, One>>, <<"set", 1, X>>}

MCSetup ==
    [f \in MCFocuses |->
        CASE f = "zsets" -> <<<<"zadd", 2, N(1), 1, N(1), 3>>>>
          [] f = "sets" -> <<<<"sadd", 2, 1, 3>>, <<"set", 3, X>>>>
          [] f = "lists" -> <<<<"rpush", 2, 1>>>>
          [] f = "hscan" -> <<<<"hmset", 1, 1, X, 2, X, 3, X, 4, X>>>>
          [] f = "sscan" -> <<<<"sadd", 1, 1, 2, 3, 4>>>>
          [] f = "zscan" -> <<<<"zadd", 1, N(1), 1, N(1), 2, N(2), 3, N(0), 4>>>>
          [] OTHER -> <<>>]

Blob(v) == <<"blob", v, 0, TRUE>>
VAdd(e, v) == <<"vadd", 1, Word("FP32"), Blob(v), e, Word("NOQUANT")>>
Values(v) == <<Word("VALUES"), N(Len(v))>> \o [i \in DOMAIN v |-> Num(v[i])]

MCWriteLines ==
    [f \in MCFocuses |->
        CASE f = "hashes" ->
               Lifecycle \cup
               {<<"hset", 1, 1, X>>, <<"hmset", 1, 1, X, 2, X, 2, One>>, <<"hdel", 1, 1, 2>>,
                <<"hincrby", 1, 2, N(4)>>}
          [] f = "zsets" ->
               {<<"del", 1>>, <<"pexpire", 1, One>>,
                <<"zadd", 1, N(0), 1, N(1), 2>>, <<"zincrby", 1, One, 1>>,
                <<"zrem", 1, 1>>, <<"zunionstore", 1, N(2), 1, 2>>}
          [] f = "sets" ->
               {<<"del", 1>>, <<"pexpire", 1, One>>,
                <<"sadd", 1, 1, 2>>, <<"spop", 1>>, <<"smove", 1, 2, 2>>,
                <<"sinterstore", 3, 1, 2>>}
          [] f = "lists" ->
               {<<"del", 1>>, <<"set", 1, X>>,
                <<"lpush", 1, 1>>, <<"rpush", 1, 2>>, <<"lpop", 1>>, <<"rpop", 1>>,
                <<"rpoplpush", 1, 2>>, <<"linsert", 1, Word("AFTER"), 1, 2>>}
          [] f = "vectors" ->
               {<<"del", 1>>, <<"pexpire", 1, One>>, <<"vrem", 1, 1>>, VAdd(1, <<6, 8>>), VAdd(1, <<-2, 0>>),
                VAdd(2, <<6, 8>>), VAdd(2, <<2>>), VAdd(3, <<0, 0>>)}
          [] f = "hscan" ->
               {<<"hdel", 1, 1>>, <<"hdel", 1, 3>>, <<"hset", 1, 1, X>>, <<"hset", 1, 5, X>>,
                <<"del", 1>>}
          [] f = "sscan" -> {<<"srem", 1, 1>>, <<"sadd", 1, 5>>, <<"sadd", 1, 4>>}
          [] f = "zscan" -> {<<"zrem", 1, 1>>, <<"zadd", 1, N(3), 5>>, <<"zadd", 1, N(1), 1>>}]

-----------------------------------------------------------------------------

HashLines ==
    {<<c, 1>> : c \in {"hlen", "hkeys", "hvals", "hgetall"}}
    \cup {<<c, 1, f>> : c \in {"hget", "hexists", "hstrlen"}, f \in 1..3}
    \cup {<<"hmget", 1, 1, 3, 1>>, <<"hdel", 1, 1>>, <<"hdel", 1, 3>>, <<"hdel", 1, 1, 2, 1>>}
    \cup {<<c, 1, f, v>> : c \in {"hset", "hsetnx", "hmset"}, f \in 1..2, v \in {One, X}}
    \cup {<<c, 1, 1, X, 2, X>> : c \in {"hset", "hmset"}}
    \cup {<<c, 1, 2, X, 2, One>> : c \in {"hset", "hmset"}}
    \cup {<<"hincrby", 1, 2, N(i)>> : i \in {-2, 1, 3}}
    \cup {<<"hincrbyfloat", 1, 2, Num(h)>> : h \in {-1, 1, 6}}
    \cup {<<c, 1, X, 2, One, 1, One>> : c \in {"mset", "msetnx"}}

ZSetLines ==
    {<<"zcard", 1>>, <<"zmscore", 1, 2, 3, 1>>}
    \cup {<<c, 1, m>> : c \in {"zscore", "zrank", "zrevrank", "zrem"}, m \in 1..3}
    \cup {<<"zrem", 1, 1, 2>>, <<"zadd", 1, N(2), 1>>, <<"zadd", 1, N(1), 2, N(0), 1>>,
          <<"zadd", 1, Num(1), 3>>, <<"zincrby", 1, Num(-1), 1>>, <<"zincrby", 1, N(2), 2>>}
    \cup {<<c, 1, N(i), N(j)>> : c \in {"zrange", "zrevrange", "zremrangebyrank"},
                                 i \in {-2, 0, 1}, j \in {-2, -1, 0, 1}}
    \cup {<<c, 1, N(0), N(-1), Word("WITHSCORES")>> : c \in {"zrange", "zrevrange"}}
    \cup {<<c, 1, Num(i), N(j)>> : c \in {"zcount", "zrangebyscore", "zremrangebyscore"},
                                   i \in {0, 1, 2}, j \in 0..2}
    \cup {<<"zrangebyscore", 1, N(0), N(2), Word("LIMIT"), N(1), N(1), Word("WITHSCORES")>>}
    \cup {<<"zrevrangebyscore", 1, N(j), N(0)>> : j \in 0..1}
    \cup {<<"zrevrangebyscore", 1, N(2), N(0), Word("WITHSCORES"), Word("LIMIT"), N(0), N(1)>>}
    \cup {<<c, 1, lo, hi>> : c \in {"zlexcount", "zrangebylex", "zremrangebylex"},
                             lo \in {<<"-">>, <<"(", 1>>}, hi \in {<<"+">>, <<"[", 1>>, <<"(", 2>>}}
    \cup {<<c, 3, N(2), 1, 2>> : c \in {"zinterstore", "zunionstore"}}
    \cup {<<c, 2, N(2), 1, 2, Word("WEIGHTS"), N(1), N(2), Word("AGGREGATE"), Word("MAX")>> :
            c \in {"zinterstore", "zunionstore"}}

SetLines ==
    {<<c, 1>> : c \in {"scard", "smembers", "spop", "srandmember"}}
    \cup {<<c, 1, N(i)>> : c \in {"spop", "srandmember"}, i \in 0..2}
    \cup {<<"srandmember", 1, N(-2)>>, <<"smismember", 1, 2, 1, 2>>}
    \cup {<<c, 1, m>> : c \in {"sismember", "sadd", "srem"}, m \in 1..3}
    \cup {<<"sadd", 1, 3, 1, 3>>, <<"srem", 1, 2, 1>>}
    \cup {<<"smove", i, j, m>> : i, j \in 1..3, m \in 1..2}
    \cup {<<c, i, j>> : c \in {"sdiff", "sinter", "sunion"}, i, j \in 1..3}
    \cup {<<c, i, 1, 2>> : c \in {"sdiffstore", "sinterstore", "sunionstore"}, i \in 1..3}

ListLines ==
    {<<c, 1>> : c \in {"llen", "lpop", "rpop"}}
    \cup {<<c, 1, N(i)>> : c \in {"lpop", "rpop"}, i \in 1..3}
    \cup {<<"lindex", 1, N(i)>> : i \in -3..2}
    \cup {<<c, 1, N(i), N(j)>> : c \in {"lrange", "ltrim"}, i \in {-3, -1, 0, 1}, j \in {-2, -1, 0, 1}}
    \cup {<<"lset", 1, N(i), 3>> : i \in {-2, 0, 2}}
    \cup {<<"lrem", 1, N(i), v>> : i \in {-1, 0, 1, 2}, v \in 1..2}
    \cup {<<c, 1, 2, 3>> : c \in {"lpush", "rpush", "lpushx", "rpushx"}}
    \cup {<<"linsert", 1, Word(w), v, 3>> : w \in {"BEFORE", "AFTER"}, v \in 1..2}
    \cup {<<"rpoplpush", i, j>> : i, j \in 1..2}

VectorLines ==
    {<<c, 1>> : c \in {"vcard", "vdim", "vinfo"}}
    \cup {<<c, 1, e>> : c \in {"vrem", "vismember", "vemb"}, e \in 1..3}
    \cup {VAdd(e, v) : e \in {1, 3}, v \in {<<6, 8>>, <<2>>}}
    \cup {<<"vadd", 1>> \o Values(v) \o <<2, Word("NOQUANT"), Word("NOQUANT")>> : v \in {<<8, -6>>, <<0>>}}
    \cup {<<"vsim", 1, Word("ELE"), e>> \o o : e \in 1..2,
            o \in {<<>>, <<Word("COUNT"), N(1)>>, <<Word("WITHSCORES"), Word("TRUTH")>>}}
    \cup {<<"vsim", 1>> \o Values(v) \o o : v \in {<<6, 8>>, <<0, 0>>, <<-2, 0>>, <<2>>},
            o \in {<<Word("COUNT"), N(2), Word("WITHSCORES")>>, <<Word("COUNT"), N(1)>>}}
    \cup {<<"vsim", 1, Word("FP32"), Blob(<<0, 2>>), Word("COUNT"), N(11)>>}

\* Arguments that are missing, too many, or no numbers.
MCBadLines ==
    {<<"hget", 1>>, <<"hset", 1, 1, X, 2>>, <<"hincrby", 1, 1, X>>, <<"hincrbyfloat", 1, 1, X>>,
     <<"hscan", 1, X>>, <<"hscan", 1, N(0), Word("COUNT"), N(0)>>,
     <<"zadd", 1, X, 1>>, <<"zadd", 1, N(1), 1, N(2)>>, <<"zincrby", 1, X, 1>>,
     <<"zrange", 1, X, N(1)>>, <<"zrangebyscore", 1, N(0), N(1), Word("LIMIT"), N(1)>>,
     <<"zinterstore", 3, N(0), 1>>, <<"zunionstore", 3, N(3), 1, 2>>,
     <<"sadd", 1>>, <<"spop", 1, N(-1)>>, <<"spop", 1, X>>, <<"srandmember", 1, X>>,
     <<"smove", 1, 2>>,
     <<"lpush", 1>>, <<"lpop", 1, N(0)>>, <<"rpop", 1, X>>, <<"lindex", 1, X>>, <<"lset", 1, X, 1>>,
     <<"lrange", 1, N(0), X>>,
     <<"vcard", 1, 1>>, <<"vrem", 1>>, <<"vemb", 1, 1, Word("RAW")>>,
     <<"vadd", 1, Word("REDUCE"), N(1), 1>>, <<"vadd", 1, Word("ELE"), X, 1>>,
     <<"vadd", 1, Word("FP32"), Blob(<<2>>), 1>>, VAdd(4, <<2>>), VAdd(1, <<2, 2, 1>>),
     <<"vadd", 1, Word("FP32"), Blob(<<2>>), 1, Word("NOQUANT"), Word("Q8")>>,
     <<"vadd", 1, Word("FP32"), Blob(<<>>), 1, Word("NOQUANT")>>,
     <<"vadd", 1, Word("FP32"), <<"blob", <<2>>, 1, TRUE>>, 1, Word("NOQUANT")>>,
     <<"vadd", 1, Word("FP32"), <<"blob", <<2>>, 0, FALSE>>, 1, Word("NOQUANT")>>,
     <<"vadd", 1, Word("VALUES"), N(2), N(3), N(4)>>, <<"vadd", 1, Word("VALUES"), N(3), N(1)>>,
     <<"vadd", 1, Word("VALUES"), N(0), 1, Word("NOQUANT")>>,
     <<"vadd", 1, Word("VALUES"), N(1), X, 1, Word("NOQUANT")>>}

MCLines ==
    [f \in MCFocuses |->
        CASE f = "hashes" -> HashLines \cup {l \in MCBadLines : l[1] \in HashNames}
          [] f = "zsets" -> ZSetLines \cup {l \in MCBadLines : l[1] \in ZSetNames \cup ZSetRangeNames}
          [] f = "sets" -> SetLines \cup {l \in MCBadLines : l[1] \in SetNames \cup SetsNames}
          [] f = "lists" -> ListLines \cup {l \in MCBadLines : l[1] \in ListNames}
          [] f = "vectors" -> VectorLines \cup {l \in MCBadLines : l[1] \in VectorNames}
          [] OTHER -> {}]

=============================================================================
