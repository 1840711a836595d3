----------------------------- MODULE MCKeyspace -----------------------------
(***************************************************************************)
(* Database on two instances, for strings, bits, and the commands on keys of *)
(* any type.  The odd keys share an instance, the even keys the other.       *)
(***************************************************************************)
EXTENDS Database

MCFocuses == {"strings", "bits", "keys", "scan", "expiry"}
MCSlots == [k \in Keys |-> (k + 1) % 2]
MCI64Min == -31
MCMaxVersion == [f \in MCFocuses |-> IF f = "keys" THEN 2 ELSE 1]

N(i) == FormatInt(i)
X == Raw(<<120>>)
XY == Raw(<<120, 121>>)
NotText == Raw(<<200>>)

MCSetup ==
    [f \in MCFocuses |->
        CASE f = "strings" -> <<<<"sadd", 2, 1>>>>
          [] f = "bits" -> <<<<"sadd", 2, 1>>, <<"set", 3, NotText>>>>
          [] f = "keys" -> <<<<"sadd", 2, 1>>>>
          [] f = "scan" -> <<<<"set", 1, X>>, <<"set", 2, X>>, <<"sadd", 3, 1>>, <<"set", 4, X>>>>
          [] OTHER -> <<>>]

MCWriteLines ==
    [f \in MCFocuses |->
        CASE f = "strings" ->
               {<<"set", 1, N(30)>>, <<"set", 1, NotText>>, <<"psetex", 1, N(1), N(-1)>>, <<"append", 1, N(0)>>,
                <<"incr", 1>>, <<"setrange", 1, N(1), XY>>, <<"del", 1>>}
          [] f = "bits" ->
               {<<"setbit", 1, N(i), N(b)>> : i \in {0, 7, 9, 15}, b \in 0..1}
               \cup {<<"bitop", Word("NOT"), 1, 1>>, <<"del", 1>>}
          [] f = "keys" ->
               {<<"sadd", 1, 1>>, <<"mset", 1, X, 2, X>>, <<"pexpire", 2, N(1)>>, <<"persist", 2>>,
                <<"del", 1, 2>>, <<"flushdb">>, <<"spop", 2>>}
          [] f = "scan" ->
               {<<"del", 1>>, <<"del", 3>>, <<"set", 1, X>>, <<"pexpire", 2, N(1)>>, <<"set", 5, X>>}
          [] f = "expiry" ->
               {<<"set", 1, X>>, <<"pexpire", 1, N(1)>>, <<"pexpire", 1, N(2)>>, <<"persist", 1>>,
                <<"del", 1>>, <<"psetex", 1, N(1), X>>}]

-----------------------------------------------------------------------------

StringLines ==
    {<<c, k>> : c \in {"get", "strlen", "incr", "decr"}, k \in 1..2}
    \cup {<<c, 1, v>> : c \in {"set", "setnx", "getset", "append"}, v \in {N(7), NotText}}
    \cup {<<c, 1, N(i)>> : c \in {"incrby", "decrby"}, i \in {-31, -2, 1, 30}}
    \cup {<<"incrbyfloat", 1, Num(h)>> : h \in {-1, 3, 6}}
    \cup {<<c, 1, N(i), N(j)>> : c \in {"getrange", "substr"}, i \in {-3, -1, 0, 1, 5}, j \in {-4, -1, 0, 2}}
    \cup {<<"setrange", 1, N(i), X>> : i \in {0, 1, 2}}
    \cup {<<c, 1, N(1), X>> : c \in {"setex", "psetex"}}
    \cup {<<"append", 2, X>>, <<"getset", 2, X>>, <<"setnx", 2, X>>, <<"setrange", 2, N(0), X>>}

BitLines ==
    {<<"setbit", 1, N(i), N(b)>> : i \in {0, 8, 15}, b \in 0..1}
    \cup {<<"getbit", 1, N(i)>> : i \in {0, 7, 8, 15}}
    \cup {<<"bitcount", 1>>, <<"bitcount", 2>>, <<"bitpos", 2, N(1)>>, <<"setbit", 2, N(1), N(1)>>}
    \cup {<<"bitcount", 1, N(i), N(j)>> : i \in {-1, 0, 1}, j \in {-2, -1, 0, 3}}
    \cup {<<"bitpos", 1, N(b)>> : b \in 0..1}
    \cup {<<"bitpos", 1, N(b), N(i)>> : b \in 0..1, i \in {-1, 0, 1}}
    \cup {<<"bitpos", 1, N(b), N(i), N(j)>> : b \in 0..1, i \in {-1, 0}, j \in {-1, 0}}
    \cup {<<"bitpos", 1, N(b), N(i), N(j), Word("BIT")>> : b \in 0..1, i \in {-9, 1}, j \in {-2, 10}}
    \cup {<<"bitop", Word(w), 1, 1, 3>> : w \in {"AND", "OR", "XOR"}}
    \cup {<<"bitop", Word("NOT"), 3, 1>>}

KeyLines ==
    {<<c, k>> : c \in {"ttl", "pttl", "persist", "type"}, k \in 1..3}
    \cup {<<"exists", 1, 2, 1>>, <<"del", 1, 3, 1>>, <<"del", 2>>, <<"mget", 2, 1, 3, 2>>,
          <<"mset", 1, X, 3, X, 1, XY>>, <<"randomkey">>, <<"flushdb">>, <<"flushall">>}
    \cup {<<"msetnx", i, X, 3, X>> : i \in 1..2}
    \cup {<<"keys", p>> : p \in {NoPattern, GlobPattern({1, 3}), TailPattern({2})}}
    \cup {<<c, k, N(3)>> : c \in {"expire", "pexpire", "expireat", "pexpireat"}, k \in 1..2}
    \cup {<<"setnx", k, X>> : k \in 1..2}

MCBadLines ==
    {<<"vcard", 1>>, <<"incrby", 1, X>>, <<"incrbyfloat", 1, X>>, <<"incrbyfloat", 1, N(30)>>, <<"get", 1, 2>>,
     <<"setex", 1, N(0), X>>, <<"psetex", 1, N(0), X>>, <<"psetex", 1, N(16), X>>, <<"setrange", 1, N(-1), X>>,
     <<"mset", 1>>, <<"msetnx", 1, X, 2>>,
     <<"setbit", 1, N(1), N(2)>>, <<"setbit", 1, N(-1), N(1)>>, <<"setbit", 1, N(16), N(1)>>,
     <<"getbit", 1, N(-1)>>,
     <<"bitcount", 1, N(0)>>, <<"bitpos", 1, N(2)>>, <<"bitpos", 1, N(1), Word("BIT")>>,
     <<"bitop", Word("NOT"), 1, 1, 3>>, <<"bitop", Word("AND"), 1, 2>>,
     <<"expire", 1, X>>, <<"pexpire", 1, N(-1)>>, <<"expireat", 1, N(0)>>, <<"pexpireat", 1, N(-1)>>,
     <<"keys">>, <<"scan", X>>, <<"scan", N(0), Word("COUNT"), N(0)>>, <<"scan", N(7)>>, <<"randomkey", 1>>}

MCLines ==
    [f \in MCFocuses |->
        CASE f = "strings" ->
               StringLines \cup {l \in MCBadLines : l[1] \notin KeyNames \cup {"setbit", "getbit", "bitcount", "bitpos", "bitop"}}
          [] f = "bits" -> BitLines \cup {l \in MCBadLines : l[1] \in {"setbit", "getbit", "bitcount", "bitpos", "bitop"}}
          [] f = "keys" -> KeyLines \cup {l \in MCBadLines : l[1] \in KeyNames}
          [] OTHER -> {}]

=============================================================================
