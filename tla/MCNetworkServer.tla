-------------------------- MODULE MCNetworkServer --------------------------
(***************************************************************************)
(* Scripts for small instances of NetworkServer.                             *)
(***************************************************************************)
EXTENDS NetworkServer

CONSTANTS c1, c2

Strings(words) == [i \in DOMAIN words |-> <<words[i]>>]
Command(kind, words) ==
    [kind |-> kind, line |-> Strings(words),
     bytes |-> encode_resp_data(RESP2, Array([i \in DOMAIN words |-> BulkString(<<words[i]>>)]))]
Frame(kind, bytes) == [kind |-> kind, line |-> <<>>, bytes |-> bytes]
Skipped(version, d) == Frame("skip", encode_resp_data(version, d))

MCKeys == {<<"k1">>, <<"k2">>, <<"k3">>}
Password == <<"pw">>

Get(k) == Command("call", <<"GET", k>>)
Put(k, v) == Command("call", <<"SET", k, v>>)
Ping == Command("local", <<"ping">>)
Unknown == Command("local", <<"foo">>)

\* A command written as a line, after an empty one.
Inline == [kind |-> "call", line |-> Strings(<<"get", "k1">>),
           bytes |-> CRLF \o <<"LF", " ", "get", " ", " ", "k1">> \o CRLF]
\* An argument that is no text counts as an empty one.
OddArgument == [kind |-> "call", line |-> <<<<"set">>, <<"k1">>, <<>>>>,
                bytes |-> encode_resp_data(RESP2,
                    Array(<<BulkString(<<"set">>), BulkString(<<"k1">>), Integer(5)>>))]

Lines ==
    << Inline, Ping, Skipped(RESP2, SimpleString(<<"x">>)), OddArgument,
       Skipped(RESP2, Array(<<>>)), Skipped(RESP2, NullArray), Skipped(RESP2, NullBulk), Get("k1") >>
Nested ==
    << Skipped(RESP3, Map(<< <<BulkString(<<"a", "b">>), Boolean(TRUE)>> >>)),
       Skipped(RESP3, Set(<<Null, Integer(-12)>>)),
       Skipped(RESP3, Push(<<Double(<<"number", 3>>), BigNumber(<<"7">>)>>)), Put("k1", "a"),
       Skipped(RESP3, Array(<<BulkError(<<"e">>), VerbatimString(<<"m", "k", "d">>, <<"y">>)>>)),
       Skipped(RESP3, Error(<<"e">>)), Get("k1") >>
Several == << Ping, Put("k1", "a"), Command("local", <<"blpop">>), Get("k1"),
              Command("local", <<"PING", "x", "y">>), Command("local", <<"get">>) >>

\* What ends a connection, after a command and before another.
Malformed ==
    { <<":", "x">> \o CRLF, <<"+", "a", "CR", "b">>, <<"$", "9", "9">> \o CRLF, <<" ">> \o CRLF,
      <<"a", "a", "a", "a", "a", "a", "a", "a", "a">>, <<"=", "3">> \o CRLF,
      <<"*", "1">> \o CRLF \o <<"*", "1">> \o CRLF \o <<"*", "1">> \o CRLF,
      <<"#", "x">>, <<",", "x">> \o CRLF, <<":", "1", "0", "0", "0">> \o CRLF }
Broken(bytes) == << Get("k1"), Frame("bad", bytes), Get("k1") >>

Auth ==
    << Get("k1"), Command("local", <<"AUTH", "no">>), Command("local", <<"HELLO", "3">>), Unknown,
       Command("open", <<"auth", "pw">>), Put("k1", "a"), Command("local", <<"hello", "3">>), Get("k2") >>
Hello ==
    << Command("local", <<"HELLO", "3", "AUTH", "default", "pw", "x">>), Get("k1"),
       Command("open", <<"HELLO", "3", "AUTH", "default", "pw", "SETNAME", "n">>), Get("k1"),
       Command("local", <<"CLIENT", "GETNAME">>), Command("local", <<"hello", "2">>), Get("k1") >>
AuthErrors ==
    << Command("local", <<"AUTH", "u", "pw">>), Command("local", <<"AUTH", "u", "pw", "x">>),
       Command("local", <<"HELLO", "AUTH", "u", "pw">>), Command("local", <<"HELLO", "2", "AUTH">>),
       Command("local", <<"HELLO", "SETNAME">>), Command("local", <<"client", "getname">>),
       Command("open", <<"HELLO", "AUTH", "default", "pw">>), Get("k1") >>
Open ==
    << Command("local", <<"AUTH", "pw">>), Command("local", <<"HELLO", "2", "AUTH", "default", "pw">>),
       Command("local", <<"HELLO">>), Command("local", <<"CLIENT", "SETNAME", "n">>),
       Command("local", <<"CLIENT", "GETNAME">>), Command("local", <<"CLIENT", "SETNAME">>),
       Command("local", <<"CLIENT", "GETNAME", "x">>), Command("local", <<"CLIENT", "x">>),
       Command("local", <<"ping", "x">>) >>

Only(items) == [c \in Conns |-> IF c = c1 THEN items ELSE <<>>]
Scenario(s, password, sizes, faults, stop) ==
    [script |-> s, requirepass |-> password, chunks |-> sizes, trouble |-> faults, short |-> FALSE,
     stops |-> stop, max_connections |-> 2, monitors |-> {}, installs |-> 0]
Whole == {1000}

Parsing ==
    {Scenario(Only(s), NoPassword, {1, 2, 1000}, 0, "nobody") : s \in {Lines, Nested, Several}}
    \cup {Scenario(Only(Broken(b)), NoPassword, {1, 1000}, 0, "nobody") : b \in Malformed}
Negotiating ==
    {Scenario(Only(s), Password, {9, 1000}, 0, "token") : s \in {Auth, Hello, AuthErrors}}
    \cup {Scenario(Only(Open), NoPassword, Whole, 0, "nobody")}

Served(first, second, faults, stop) ==
    Scenario([c \in Conns |-> IF c = c1 THEN first ELSE second], NoPassword, Whole, faults, stop)
Updates == << Put("k1", "a"), Put("k1", "b"), Get("k1") >>
Serving ==
    { Served(Updates, <<>>, 1, "nobody"), Served(<<Put("k1", "a")>>, <<>>, 2, "nobody"),
      Served(Updates, <<Put("k2", "a")>>, 0, "token"),
      Served(<<Put("k1", "a")>>, <<Put("k2", "a")>>, 1, "nobody") }

Watched(faults, stop, ms, n) ==
    [Served(<<Put("k1", "a")>>, <<>>, faults, stop) EXCEPT !.monitors = ms, !.installs = n]
Installing ==
    { Watched(0, "nobody", {"compaction"}, 2), Watched(0, "nobody", {"flush", "statistics"}, 1) }
Stopping ==
    { Served(<<Put("k1", "a")>>, <<Put("k1", "b")>>, 0, "signal"),
      Served(<<Put("k1", "a")>>, <<>>, 1, "signal"), Watched(0, "signal", {"compaction"}, 1) }

Pooling ==
    { [Served(<<Ping>>, <<Ping>>, 0, "token") EXCEPT !.max_connections = n] : n \in 1..2 }
    \cup { [Served(<<Ping>>, <<>>, 0, "token") EXCEPT !.short = TRUE] }

MCScenarios == Parsing \cup Negotiating \cup Serving \cup Installing \cup Stopping \cup Pooling

=============================================================================
