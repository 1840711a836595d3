----------------------------- MODULE StringCmds -----------------------------
(***************************************************************************)
(* The string, bit and key commands as the dispatcher runs them.             *)
(***************************************************************************)
EXTENDS Storage, Cmd

At(db, argv) == InstanceOf(db, argv[2])

\* A command of one key: a reply, or a result of its instance.
Reads(db, argv, arity, reply) == query(db, argv, arity, reply)
Writes(db, argv, arity, result) == execute(db, argv, arity, Routed(db, argv[2], result))

\* The same with integer arguments at positions of the line.
WithInts(db, argv, arity, at, result) ==
    execute(db, argv, arity,
        IF \A i \in at : ParsesInt(argv[i]) THEN result ELSE Result(db, NotInteger))

-----------------------------------------------------------------------------
(* Strings. *)

GetCmd(db, argv) == Reads(db, argv, 2, get_binary(At(db, argv), argv[2]))
SetCmd(db, argv) == Writes(db, argv, 3, set(At(db, argv), argv[2], Bytes(argv[3])))
GetsetCmd(db, argv) == Writes(db, argv, 3, getset(At(db, argv), argv[2], Bytes(argv[3])))
SetnxCmd(db, argv) == Writes(db, argv, 3, setnx(At(db, argv), argv[2], Bytes(argv[3])))
AppendCmd(db, argv) == Writes(db, argv, 3, append(At(db, argv), argv[2], Bytes(argv[3])))
StrlenCmd(db, argv) == Reads(db, argv, 2, strlen(At(db, argv), argv[2]))

SetexCmd(db, argv) ==
    WithInts(db, argv, 4, {3},
        Routed(db, argv[2], setex(At(db, argv), argv[2], IntOf(argv[3]), Bytes(argv[4]))))

PsetexCmd(db, argv) ==
    WithInts(db, argv, 4, {3},
        IF IntOf(argv[3]) > I64Max \div MicrosPerMilli THEN Result(db, Err("invalid expire time"))
        ELSE Routed(db, argv[2], psetex(At(db, argv), argv[2], IntOf(argv[3]), Bytes(argv[4]))))

execute_getrange(db, argv) ==
    WithInts(db, argv, 4, {3, 4},
        Result(db, getrange(At(db, argv), argv[2], IntOf(argv[3]), IntOf(argv[4]))))

GetrangeCmd(db, argv) == execute_getrange(db, argv)
SubstrCmd(db, argv) == execute_getrange(db, argv)

SetrangeCmd(db, argv) ==
    WithInts(db, argv, 4, {3},
        Routed(db, argv[2], setrange(At(db, argv), argv[2], IntOf(argv[3]), Bytes(argv[4]))))

IncrBy(db, argv, incr) == Routed(db, argv[2], incr_decr(At(db, argv), argv[2], incr))

IncrCmd(db, argv) == execute(db, argv, 2, IncrBy(db, argv, 1))
DecrCmd(db, argv) == execute(db, argv, 2, IncrBy(db, argv, -1))
IncrbyCmd(db, argv) == WithInts(db, argv, 3, {3}, IncrBy(db, argv, IntOf(argv[3])))

\* The negation of the smallest i64 wraps around in the release build.
Negated(n) == IF n = I64Min THEN n ELSE -n
DecrbyCmd(db, argv) == WithInts(db, argv, 3, {3}, IncrBy(db, argv, Negated(IntOf(argv[3]))))

IncrbyFloatCmd(db, argv) ==
    execute(db, argv, 3,
        IF ~ParsesFloat(argv[3]) THEN Result(db, NotFloat)
        ELSE IF FloatOf(argv[3]) \notin -FloatMax..FloatMax
        THEN Result(db, Err("increment would produce NaN or Infinity"))
        ELSE Routed(db, argv[2], incr_decr_float(At(db, argv), argv[2], FloatOf(argv[3]))))

MgetCmd(db, argv) == Reads(db, argv, -2, storage_mget(db, From(argv, 2)))

\* Keys and values come in pairs.
PairsOf(db, argv, result) ==
    IF Len(argv) < 3 \/ Len(argv) % 2 = 0 THEN Result(db, WrongArity) ELSE result

MsetCmd(db, argv) == PairsOf(db, argv, storage_mset(db, Pairs(From(argv, 2))))
MsetnxCmd(db, argv) == PairsOf(db, argv, storage_msetnx(db, Pairs(From(argv, 2))))

-----------------------------------------------------------------------------
(* Bits. *)

SetbitCmd(db, argv) ==
    WithInts(db, argv, 4, {3, 4},
        Routed(db, argv[2], setbit(At(db, argv), argv[2], IntOf(argv[3]), IntOf(argv[4]))))

GetbitCmd(db, argv) ==
    WithInts(db, argv, 3, {3}, Result(db, getbit(At(db, argv), argv[2], IntOf(argv[3]))))

\* Both ends of the range or none.
BitcountCmd(db, argv) ==
    IF Len(argv) \notin {2, 4} THEN Result(db, WrongArity)
    ELSE WithInts(db, argv, -2, 3..Len(argv),
           Result(db, bitcount(At(db, argv), argv[2],
                               IF Len(argv) = 2 THEN <<>> ELSE <<IntOf(argv[3]), IntOf(argv[4])>>)))

\* key bit [start [end [BIT | BYTE]]]: the unit comes last, after both ends.
BitposCmd(db, argv) ==
    LET unit == argv[Len(argv)]
        named == Len(argv) > 3 /\ unit \in {Word("BIT"), Word("BYTE")}
        ends == SubSeq(argv, 4, IF named THEN Len(argv) - 1 ELSE Len(argv))
        range == [i \in DOMAIN ends |-> IntOf(ends[i])]
    IN  execute(db, argv, -3,
          IF ~ParsesInt(argv[3]) \/ IntOf(argv[3]) \notin {0, 1}
          THEN Result(db, Err("The bit argument must be 1 or 0"))
          ELSE IF Len(ends) > 2 \/ (named /\ Len(ends) # 2) THEN Result(db, SyntaxError)
          ELSE IF ~AllParseInt(ends) THEN Result(db, NotInteger)
          ELSE Result(db, bitpos(At(db, argv), argv[2], IntOf(argv[3]), range,
                                 IF unit = Word("BIT") THEN 1 ELSE 8)))

\* The operation comes before the destination.
BitopCmd(db, argv) ==
    execute(db, argv, -4, storage_bitop(db, argv[2][2], argv[3], From(argv, 4)))

-----------------------------------------------------------------------------
(* Keys. *)

DelCmd(db, argv) == execute(db, argv, -2, storage_del(db, From(argv, 2)))
ExistsCmd(db, argv) == Reads(db, argv, -2, storage_exists(db, From(argv, 2)))
TypeCmd(db, argv) == Reads(db, argv, 2, key_type(db, argv[2]))
KeysCmd(db, argv) == Reads(db, argv, 2, storage_keys(db, argv[2]))
RandomkeyCmd(db, argv) == Reads(db, argv, 1, storage_randomkey(db))
FlushdbCmd(db, argv) == execute(db, argv, 1, storage_flushdb(db))
FlushallCmd(db, argv) == execute(db, argv, 1, storage_flushdb(db))

TtlCmd(db, argv) == Reads(db, argv, 2, ttl(db, argv[2]))
PttlCmd(db, argv) == Reads(db, argv, 2, pttl(db, argv[2]))
PersistCmd(db, argv) == execute(db, argv, 2, persist(db, argv[2]))
ExpireCmd(db, argv) == WithInts(db, argv, 3, {3}, expire(db, argv[2], IntOf(argv[3])))
ExpireatCmd(db, argv) == WithInts(db, argv, 3, {3}, expireat(db, argv[2], IntOf(argv[3])))
PexpireatCmd(db, argv) == WithInts(db, argv, 3, {3}, pexpireat(db, argv[2], IntOf(argv[3])))

PexpireCmd(db, argv) ==
    WithInts(db, argv, 3, {3},
        IF IntOf(argv[3]) < 0 THEN Result(db, Err("invalid expire time"))
        ELSE pexpire(db, argv[2], IntOf(argv[3])))

\* [MATCH pattern] [COUNT count] [TYPE type]; the last of each counts.
\* <<"options", pattern, count, types>> or an error.
RECURSIVE parse_scan_args(_, _)
parse_scan_args(args, found) ==
    IF args = <<>> THEN found
    ELSE IF args[1] \notin {Word("MATCH"), Word("COUNT"), Word("TYPE")} \/ Len(args) = 1
    THEN SyntaxError
    ELSE IF args[1] = Word("MATCH")
    THEN parse_scan_args(From(args, 3), [found EXCEPT ![2] = args[2]])
    ELSE IF args[1] = Word("TYPE")
    THEN parse_scan_args(From(args, 3), [found EXCEPT ![4] = parse_scan_type(args[2][2])])
    ELSE IF ~ParsesInt(args[2]) THEN NotInteger
    ELSE IF IntOf(args[2]) < 1 THEN SyntaxError
    ELSE parse_scan_args(From(args, 3), [found EXCEPT ![3] = IntOf(args[2])])

ScanCmd(db, argv) ==
    LET o == parse_scan_args(From(argv, 3), <<"options", NoPattern, DefaultCount, AllTypes>>)
    IN  execute(db, argv, -2,
          IF ~ParsesInt(argv[2]) \/ IntOf(argv[2]) < 0 THEN Result(db, Err("invalid cursor"))
          ELSE IF IsErr(o) THEN Result(db, o)
          ELSE scan(db, IntOf(argv[2]), o[3], o[4], o[2]))

=============================================================================
