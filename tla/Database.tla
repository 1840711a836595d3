------------------------------ MODULE Database ------------------------------
(***************************************************************************)
(* The database as a state machine: commands, the clock, a client that goes  *)
(* through a scan page by page, and the cleanup task of the expiration       *)
(* manager.  In every state it reaches, the commands of the table are        *)
(* compared with what RedisReference promises of them.                       *)
(*                                                                          *)
(* A behaviour has a focus, the part of the command table it is about: the   *)
(* lines it executes and the lines it compares are those of its focus.       *)
(***************************************************************************)
EXTENDS CommandTable

CONSTANTS
    Focuses,
    Setup,           \* by focus: the lines that have been executed at the start
    WriteLines,      \* by focus: the lines that are executed
    Lines,           \* by focus: the lines that are compared
    BadLines,        \* the lines that are refused in every state
    MaxVersion,      \* by focus: bound on the versions of one instance
    MaxLength,       \* bound on the lengths of strings and lists
    MaxScore,        \* bound on the scores of sorted sets, in halves
    MaxDrift,        \* bound on how far the left end of a list moves
    MaxNow           \* bound on the clock

VARIABLES
    focus,
    db,
    scanner,         \* the scan of the client
    cleaning         \* what the cleanup task has found: {} or {a set of entries}

vars == <<focus, db, scanner, cleaning>>

-----------------------------------------------------------------------------
(* What a client can see of the database. *)

Contents(s, k) ==
    LET m == s.meta[k]
    IN  CASE m.type = "string" -> <<"string", Bytes(m.value)>>
          [] m.type = "hash" -> <<"hash", ContentsOf(s.hashes, k, m.version)>>
          [] m.type = "zset" -> <<"zset", ContentsOf(s.members, k, m.version)>>
          [] m.type = "set" -> <<"set", MembersOf(s, k)>>
          [] m.type = "list" -> <<"list", Elements(s, k)>>
          [] m.type = "vectorset" ->
               <<"vectorset", [e \in ElementsOf(s.vectors, k, m.version) |-> restore(VectorAt(s, k, e))]>>

View(d) ==
    [k \in {k \in Keys : Live(InstanceOf(d, k), k)} |->
        [val |-> Contents(InstanceOf(d, k), k), etime |-> InstanceOf(d, k).meta[k].etime]]

\* The bounds.
Small(v) ==
    CASE v[1] \in {"string", "list"} -> Len(v[2]) <= MaxLength
      [] v[1] = "zset" -> \A m \in DOMAIN v[2] : v[2][m] <= MaxScore
      [] OTHER -> TRUE
Within(d) ==
    /\ \A i \in Instances : d.insts[i].next <= MaxVersion[focus] + 1
    /\ \A k \in DOMAIN View(d) : Small(View(d)[k].val)
    /\ \A k \in Keys : LET m == InstanceOf(d, k).meta[k]
                       IN  m.type = "list" => Magnitude(m.left - InitialLeft) <= MaxDrift

-----------------------------------------------------------------------------
(* Scans.  A client scans the keys, or the elements of key 1, two at a time. *)

Scans == {"scan", "hscan", "sscan", "zscan"}
PageSize == FormatInt(2)

ScanLine(cursor) ==
    IF focus = "scan" THEN <<"scan", FormatInt(cursor), Word("COUNT"), PageSize>>
    ELSE <<focus, 1, FormatInt(cursor), Word("COUNT"), PageSize>>

\* What there is to be found, and what a page has found.
Scanned(d) ==
    IF focus = "scan" THEN DOMAIN View(d)
    ELSE IF 1 \notin DOMAIN View(d) THEN {}
    ELSE IF focus = "sscan" THEN View(d)[1].val[2] ELSE DOMAIN View(d)[1].val[2]
Found(page) == IF focus \in {"scan", "sscan"} THEN ToSet(page) ELSE {e[1] : e \in ToSet(page)}

\* The scans whose cursor is a position lose it when elements come and go.
Stable(d, e) ==
    IF focus \in {"scan", "hscan"} THEN scanner.stable \cap Scanned(e)
    ELSE IF Scanned(d) = Scanned(e) THEN scanner.stable ELSE {}

NoScan == [state |-> "idle", cursor |-> 0, stable |-> {}, seen |-> {}]

ScanPage ==
    /\ focus \in Scans /\ scanner.state # "done"
    /\ \E r \in Run(db, ScanLine(scanner.cursor)) :
         /\ db' = r.store
         /\ scanner' = [state |-> IF r.reply[2] = 0 THEN "done" ELSE "running",
                        cursor |-> r.reply[2],
                        stable |-> IF scanner.state = "idle" THEN Scanned(db) ELSE scanner.stable,
                        seen |-> scanner.seen \cup Found(r.reply[3])]
    /\ UNCHANGED <<focus, cleaning>>

-----------------------------------------------------------------------------

SetUp(lines) ==
    FoldLeft(LAMBDA d, argv : (CHOOSE r \in Run(d, argv) : TRUE).store, EmptyDb, lines)

Init ==
    /\ focus \in Focuses
    /\ db = SetUp(Setup[focus])
    /\ scanner = NoScan
    /\ cleaning = {}

Execute(argv) ==
    \E r \in Run(db, argv) :
        /\ Within(r.store)
        /\ db' = r.store
        /\ scanner' = [scanner EXCEPT !.stable = IF focus \in Scans THEN Stable(db, r.store) ELSE {}]
        /\ UNCHANGED <<focus, cleaning>>

\* Time passes unnoticed while no key has an expiration time.
Tick ==
    /\ Now(db) < MaxNow
    /\ \E k \in Keys : InstanceOf(db, k).meta[k].etime # 0
    /\ db' = Ticked(db)
    /\ scanner' = [scanner EXCEPT !.stable = IF focus \in Scans THEN Stable(db, Ticked(db)) ELSE {}]
    /\ UNCHANGED <<focus, cleaning>>

\* The cleanup task, once a second: it collects what has expired under the read
\* lock of the index, and removes it under the write locks.
CollectExpired ==
    /\ focus = "expiry" /\ cleaning = {} /\ expired_keys(db) # {}
    /\ cleaning' = {expired_keys(db)}
    /\ UNCHANGED <<focus, db, scanner>>

CleanExpired ==
    /\ cleaning # {}
    /\ db' = RemoveExpired(db, UNION cleaning)
    /\ cleaning' = {}
    /\ UNCHANGED <<focus, scanner>>

Next ==
    \/ \E argv \in WriteLines[focus] : Execute(argv)
    \/ Tick
    \/ ScanPage
    \/ CollectExpired
    \/ CleanExpired

Spec == Init /\ [][Next]_vars /\ WF_vars(CollectExpired) /\ WF_vars(CleanExpired)

-----------------------------------------------------------------------------
(* The comparison with the reference. *)

Ref == INSTANCE RedisReference WITH Millisecond <- MicrosPerMilli, Second <- MicrosPerSecond

\* Two replies are the same: errors are not told apart.
Same(promised, r) ==
    CASE promised[1] = "error" -> IsErr(r)
      [] promised[1] = "any order" ->
           \/ r[1] = "array" /\ ToSet(r[2]) = promised[2] /\ Len(r[2]) = Cardinality(promised[2])
           \/ r[1] = "unordered" /\ r[2] = promised[2]
      [] promised[1] = "vinfo" -> r[1] = "vinfo" /\ SubSeq(r, 1, 3) = promised
      [] OTHER -> r = promised

TypeFor(name) ==
    CASE name \in HashNames -> "hash"
      [] name \in ListNames \cup {"rpoplpush"} -> "list"
      [] name \in SetNames \cup SetsNames -> "set"
      [] name \in ZSetNames \cup ZSetRangeNames -> "zset"
      [] name \in VectorNames -> "vectorset"
      [] OTHER -> "string"

\* The commands that overwrite their first key, or do not look at its type.
AnyType == KeyNames \cup {"set", "setex", "psetex", "setnx", "mget", "mset", "msetnx", "bitop",
                          "flushdb", "flushall"}
Overwrites == {"sdiffstore", "sinterstore", "sunionstore", "zinterstore", "zunionstore"}

Promised(a, argv) ==
    IF argv \in BadLines THEN Ref!Fails(a)
    ELSE IF argv[1] \in AnyType THEN Ref!RefKeys(a, Now(db), argv)
    ELSE IF argv[1] \notin Overwrites /\ Ref!Other(a, argv[2], TypeFor(argv[1])) THEN Ref!Fails(a)
    ELSE CASE argv[1] \in HashNames -> Ref!RefHash(a, argv)
           [] argv[1] \in ListNames \cup {"rpoplpush"} -> Ref!RefList(a, argv)
           [] argv[1] \in SetNames \cup SetsNames -> Ref!RefSet(a, argv)
           [] argv[1] \in ZSetNames \cup ZSetRangeNames -> Ref!RefZSet(a, argv)
           [] argv[1] \in VectorNames -> Ref!RefVector(a, argv)
           [] OTHER -> Ref!RefString(a, Now(db), argv)

\* Where the storage is known to answer otherwise; README.md has the list.
Sources(argv) ==
    CASE argv[1] \in {"sdiff", "sinter", "sunion"} -> From(argv, 2)
      [] argv[1] \in {"sdiffstore", "sinterstore", "sunionstore"} -> From(argv, 3)
      [] argv[1] \in {"smove", "rpoplpush"} -> <<argv[3]>>
      [] argv[1] \in {"zinterstore", "zunionstore"} -> SubSeq(argv, 4, 3 + IntOf(argv[3]))
      [] OTHER -> <<>>

Length(a, k) == IF k \notin DOMAIN a THEN 0
                ELSE IF a[k].val[1] = "set" THEN Cardinality(a[k].val[2])
                ELSE Cardinality(DOMAIN a[k].val[2])

KnownOtherwise(a, argv) ==
    \/ \E k \in ToSet(Sources(argv)) : Ref!Other(a, k, TypeFor(argv[1]))
    \/ argv[1] = "zinterstore" /\ \E k \in ToSet(Sources(argv)) : k \notin DOMAIN a
    \/ argv[1] = "smove" /\ argv[2] = argv[3]
    \/ argv[1] = "decrby" /\ IntOf(argv[3]) = I64Min
    \/ argv[1] = "getset" /\ argv[2] \in DOMAIN a /\ a[argv[2]].val[1] = "string"
         /\ from_utf8_lossy(Raw(a[argv[2]].val[2])) # Raw(a[argv[2]].val[2])
    \/ argv[1] \in {"ttl", "pttl"} /\ argv[2] \in DOMAIN a /\ a[argv[2]].etime = Now(db)
    \/ argv[1] = "linsert" /\ argv[2] \notin DOMAIN a
    \/ argv[1] = "linsert" /\ ~Ref!Other(a, argv[2], "list")
         /\ Cardinality({i \in DOMAIN a[argv[2]].val[2] : a[argv[2]].val[2][i] = argv[4]}) > 1
    \/ argv[1] \in {"ltrim", "lrange"} /\ IntOf(argv[3]) >= Length(a, argv[2])
    \/ argv[1] \in {"zrange", "zrevrange", "zremrangebyrank"} /\ IntOf(argv[4]) < -Length(a, argv[2])
    \/ argv[1] \in {"zlexcount", "zrangebylex", "zremrangebylex"}
         /\ argv[2] \in DOMAIN a /\ a[argv[2]].val[1] = "zset"
         /\ \E x, y \in DOMAIN a[argv[2]].val[2] : a[argv[2]].val[2][x] # a[argv[2]].val[2][y]
    \/ argv[1] = "bitpos" /\ argv[2] \in DOMAIN a /\ a[argv[2]].val[1] = "string"
         /\ \/ Len(argv) > 3 /\ IntOf(argv[4]) >= Length(a, argv[2])
            \/ IntOf(argv[3]) = 0 /\ \A o \in Ref!RefString(a, Now(db), argv) : o.reply = Integer(0)

Answered(a, argv) ==
    \A r \in Run(db, argv) : \E o \in Promised(a, argv) :
        View(r.store) = o.keys /\ Same(o.reply, r.reply)

\* Every command answers, and changes the keys, as promised in every state:
\* after deletions, expiry and recreation under a new version; hash fields, the
\* two column families of a sorted set, the members SPOP may draw, vectors and
\* searches among them, lists addressed from both ends, strings whose
\* modification keeps the expiration time, bits, and the commands on keys of
\* any type and in several instances.
CommandsAnswer ==
    LET a == View(db)
    IN  \A argv \in Lines[focus] :
          (argv \notin BadLines /\ KnownOtherwise(a, argv)) \/ Answered(a, argv)

\* Every element that is there from the first to the last page of a SCAN or
\* HSCAN is on one of the pages, whatever is written in between; of an SSCAN or
\* ZSCAN when nothing is added or removed in between.
ScansAreComplete == scanner.state = "done" => scanner.stable \subseteq scanner.seen

\* The cleanup task never leaves a registered expiration time without its
\* index entry: set_expiration finds what it has to take out of the index.
RegisteredIsIndexed == \A k \in DOMAIN db.expiry : <<db.expiry[k], k>> \in db.index

\* An index entry whose time has come is cleaned up.
ExpiredIsCleaned ==
    \A t \in 1..MaxNow, k \in Keys :
        (focus = "expiry" /\ <<t, k>> \in db.index /\ t <= Now(db)) ~> <<t, k>> \notin db.index

=============================================================================
