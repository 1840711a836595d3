---------------------------- MODULE RedisStrings ----------------------------
(***************************************************************************)
(* The string, bit and key commands of one storage instance, as operators on *)
(* a store.  Times are microseconds.                                         *)
(***************************************************************************)
EXTENDS RedisStore, FiniteSetsExt, Bitwise

CONSTANTS
    StringMax,         \* i32::MAX, the longest string and largest offset
    BitOffsetMax,      \* 2^32 - 1, the largest bit offset
    MicrosPerMilli, MicrosPerSecond,
    U64Max             \* u64::MAX, the last time

-----------------------------------------------------------------------------
(* Values. *)

\* What the commands that modify a string start from: nothing, or the bytes
\* and the expiration time of a live one.
Existing(s, k) ==
    IF check_type_state(s, k, "string") = "Match" THEN Bytes(s.meta[k].value) ELSE <<>>
ExistingETime(s, k) ==
    IF check_type_state(s, k, "string") = "Match" THEN s.meta[k].etime ELSE 0

Stored(s, k, b, etime) == [s EXCEPT !.meta[k] = StringValue(Raw(b), etime)]

ModifiedDropsETime(s, k, b, reply) ==
    IF check_type_state(s, k, "string") = "WrongType" THEN Result(s, WRONGTYPE)
    ELSE Result(Stored(s, k, b, 0), reply)
\* A modification keeps the expiration time.
Modified(s, k, b, reply) ==
    IF check_type_state(s, k, "string") = "WrongType" THEN Result(s, WRONGTYPE)
    ELSE Result(Stored(s, k, b, ExistingETime(s, k)), reply)

Zeros(n) == [i \in 1..n |-> 0]

\* Vec::resize to at least n bytes.
Resized(b, n) == b \o Zeros(Max({n - Len(b), 0}))

-----------------------------------------------------------------------------
(* Strings. *)

strlen(s, k) ==
    Checked(s, k, "string", WRONGTYPE, Integer(0), Integer(Len(Existing(s, k))))

getrange(s, k, start, end) ==
    LET b == Existing(s, k)
        normalize(i) == IF i < 0 THEN Max({Len(b) + i, 0}) ELSE i
        from == Min({normalize(start), Len(b)})
        upTo == Min({normalize(end), Len(b) - 1})
    IN  Checked(s, k, "string", WRONGTYPE, Bulk(Raw(<<>>)),
          IF b = <<>> \/ (start < 0 /\ end < 0 /\ start > end) \/ from > upTo
          THEN Bulk(Raw(<<>>))
          ELSE Bulk(Raw(SubSeq(b, from + 1, upTo + 1))))

setrange_with_outcome(s, k, offset, v) ==
    LET b == Existing(s, k)
        padded == Resized(b, offset + Len(v))
        written == [i \in DOMAIN padded |->
                      IF i \in offset + 1..offset + Len(v) THEN v[i - offset] ELSE padded[i]]
    IN  IF offset \notin 0..StringMax THEN Result(s, Err("offset is out of range"))
        ELSE IF check_type_state(s, k, "string") = "WrongType" THEN Result(s, WRONGTYPE)
        ELSE IF v = <<>> /\ offset <= Len(b) THEN Result(s, Integer(Len(b)))
        ELSE IF offset + Len(v) > StringMax THEN Result(s, Err("string exceeds maximum allowed size"))
        ELSE Modified(s, k, written, Integer(Len(written)))

setrange(s, k, offset, v) == setrange_with_outcome(s, k, offset, v)

append(s, k, v) ==
    LET b == Existing(s, k) \o v
    IN  IF check_type_state(s, k, "string") # "WrongType" /\ Len(b) > StringMax
        THEN Result(s, Err("string exceeds maximum allowed size"))
        ELSE Modified(s, k, b, Integer(Len(b)))

get_binary(s, k) == Checked(s, k, "string", WRONGTYPE, Nil, Bulk(s.meta[k].value))

mget_binary(s, k) == Checked(s, k, "string", Nil, Nil, Bulk(s.meta[k].value))

set(s, k, v) == Result(Stored(s, k, v, 0), Simple("OK"))

\* set_relative_etime, after the checked multiplication.
set_relative_etime(s, k, ttl, v) ==
    IF ttl > U64Max \/ s.now + ttl > U64Max THEN Result(s, Err("timestamp overflow"))
    ELSE Result(Stored(s, k, v, s.now + ttl), Simple("OK"))

setex(s, k, seconds, v) ==
    IF seconds <= 0 THEN Result(s, Err("invalid expire time"))
    ELSE set_relative_etime(s, k, seconds * MicrosPerSecond, v)

psetex(s, k, millis, v) ==
    IF millis <= 0 THEN Result(s, Err("invalid expire time"))
    ELSE IF millis * MicrosPerMilli > U64Max THEN Result(Stored(s, k, v, U64Max), Simple("OK"))
    ELSE set_relative_etime(s, k, millis * MicrosPerMilli, v)

key_exists_live(s, k) == Live(s, k)

setnx(s, k, v) ==
    IF key_exists_live(s, k) THEN Result(s, Integer(0))
    ELSE Result(Stored(s, k, v, 0), Integer(1))

\* MSET and MSETNX on one instance: one batch, the last pair of a key wins.
mset(s, pairs) == FoldLeft(LAMBDA acc, p : Stored(acc, p[1], Bytes(p[2]), 0), s, pairs)

msetnx(s, pairs) ==
    IF \E p \in ToSet(pairs) : key_exists_live(s, p[1]) THEN Result(s, Integer(0))
    ELSE Result(mset(s, pairs), Integer(1))

getset(s, k, v) ==
    LET old == IF check_type_state(s, k, "string") = "Match"
               THEN Bulk(from_utf8_lossy(s.meta[k].value)) ELSE Nil
    IN  IF check_type_state(s, k, "string") = "WrongType" THEN Result(s, WRONGTYPE)
        ELSE Result(Stored(s, k, v, 0), old)

incr_decr(s, k, incr) ==
    LET v == Raw(Existing(s, k))
        fresh == check_type_state(s, k, "string") # "Match"
        sum == (IF fresh THEN 0 ELSE IntOf(v)) + incr
    IN  IF ~fresh /\ ~ParsesInt(v) THEN Result(s, Err("value is not an integer or out of range"))
        ELSE IF sum \notin I64Min..I64Max /\ check_type_state(s, k, "string") # "WrongType"
        THEN Result(s, Err("increment or decrement would overflow"))
        ELSE Modified(s, k, Bytes(FormatInt(sum)), Integer(sum))

incr_decr_float(s, k, incr) ==
    LET v == Raw(Existing(s, k))
        fresh == check_type_state(s, k, "string") # "Match"
        sum == (IF fresh THEN 0 ELSE FloatOf(v)) + incr
    IN  IF ~fresh /\ ~ParsesFloat(v) THEN Result(s, Err("value is not a valid float"))
        ELSE IF sum \notin -FloatMax..FloatMax /\ check_type_state(s, k, "string") # "WrongType"
        THEN Result(s, Err("increment would produce NaN or Infinity"))
        ELSE Modified(s, k, Bytes(Num(sum)), Bulk(Num(sum)))

-----------------------------------------------------------------------------
(* Bits: bit 0 is the most significant bit of the first byte. *)

bit_mask(i) == 2 ^ (7 - (i % 8))
BitAt(b, i) == (b[(i \div 8) + 1] \div bit_mask(i)) % 2

setbit(s, k, offset, bit) ==
    LET b == Resized(Existing(s, k), (offset \div 8) + 1)
        at == (offset \div 8) + 1
    IN  IF offset \notin 0..BitOffsetMax \/ bit \notin {0, 1}
        THEN Result(s, Err("bit offset is not an integer or out of range"))
        ELSE Modified(s, k, [b EXCEPT ![at] = @ + (bit - BitAt(b, offset)) * bit_mask(offset)],
                      Integer(BitAt(b, offset)))

getbit(s, k, offset) ==
    IF offset \notin 0..BitOffsetMax THEN Err("bit offset is not an integer or out of range")
    ELSE Checked(s, k, "string", WRONGTYPE, Integer(0),
           IF offset \div 8 >= Len(Existing(s, k)) THEN Integer(0)
           ELSE Integer(BitAt(Existing(s, k), offset)))

\* The ends of a range given from the front or, when negative, from the back.
RangeStart(i, len) == IF i < 0 THEN Max({len + i, 0}) ELSE i
RangeEnd(i, len) == IF i < 0 THEN Max({len + i, -1}) ELSE i

count_ones(byte) == Cardinality({i \in 0..7 : (byte \div 2 ^ i) % 2 = 1})

\* range is <<>> or <<start, end>>.
bitcount(s, k, range) ==
    LET b == Existing(s, k)
        from == IF range = <<>> THEN 0 ELSE RangeStart(range[1], Len(b))
        end == IF range = <<>> THEN Len(b) - 1 ELSE RangeEnd(range[2], Len(b))
        upTo == Min({end, Len(b) - 1})
    IN  Checked(s, k, "string", WRONGTYPE, Integer(0),
          IF from > end \/ from >= Len(b) THEN Integer(0)
          ELSE Integer(FoldLeft(LAMBDA n, byte : n + count_ones(byte), 0,
                                SubSeq(b, from + 1, upTo + 1))))

\* range is <<>>, <<start>> or <<start, end>>; unit is 8 or 1 bits.
bitpos(s, k, bit, range, unit) ==
    LET b == Existing(s, k)
        units == (8 * Len(b)) \div unit
        start == IF Len(range) >= 1 THEN range[1] ELSE 0
        end == IF Len(range) = 2 THEN range[2] ELSE units - 1
        from == Min({RangeStart(start, units), units - 1})
        upTo == Min({RangeEnd(end, units), units - 1})
        hits == {i \in from * unit..upTo * unit + unit - 1 : BitAt(b, i) = bit}
        none == Integer(IF bit = 1 THEN -1 ELSE 0)
    IN  IF bit \notin {0, 1} THEN Err("The bit argument must be 1 or 0")
        ELSE Checked(s, k, "string", WRONGTYPE, none,
               IF b = <<>> \/ hits = {} THEN none ELSE Integer(Min(hits)))

ByteOp(operation, x, y) ==
    CASE operation = "AND" -> x & y
      [] operation = "OR" -> x | y
      [] operation = "XOR" -> x ^^ y
      [] operation = "NOT" -> 255 - y

\* BITOP: sources that are shorter or not there count as zero bytes; the
\* destination is overwritten whatever its type is, even by an empty string.
bitop(s, operation, dest, srcs) ==
    LET len == Max({Len(Existing(s, k)) : k \in ToSet(srcs)})
        byte(k, i) == IF i <= Len(Existing(s, k)) THEN Existing(s, k)[i] ELSE 0
        folded(i) == FoldLeft(LAMBDA acc, k : ByteOp(operation, acc, byte(k, i)),
                              IF operation = "AND" THEN 255 ELSE 0, srcs)
    IN  IF operation \notin {"AND", "OR", "XOR", "NOT"} THEN Result(s, Err("syntax error"))
        ELSE IF operation = "NOT" /\ Len(srcs) # 1
        THEN Result(s, Err("BITOP NOT must be called with a single source key"))
        ELSE IF \E k \in ToSet(srcs) : check_type_state(s, k, "string") = "WrongType"
        THEN Result(s, WRONGTYPE)
        ELSE Result(Stored(s, dest, [i \in 1..len |-> folded(i)], 0), Integer(len))

-----------------------------------------------------------------------------
(* Keys of any type. *)

key_etime(s, k) == IF Live(s, k) THEN {s.meta[k].etime} ELSE {}

set_key_etime(s, k, etime) ==
    IF Live(s, k) THEN Result([s EXCEPT !.meta[k].etime = etime], Integer(1))
    ELSE Result(s, Integer(0))

get_key_type(s, k) == IF Live(s, k) THEN Simple(s.meta[k].type) ELSE Simple("none")

\* A string goes; a collection stays behind without elements, under a new
\* version that leaves its old elements to the compaction.
del_key(s, k) ==
    IF ~Live(s, k) THEN Result(s, Integer(0))
    ELSE IF s.meta[k].type = "string" THEN Result([s EXCEPT !.meta[k] = NoMeta], Integer(1))
    ELSE Result([Versioned(s) EXCEPT
                   !.meta[k] = CollectionMeta(s.meta[k].type, 0, update_version(s))], Integer(1))

\* The meta column family in key order, stale entries included.
MetaKeys(s) == InKeyOrder({k \in Keys : s.meta[k].type # "none"})

scan_keys(s, p) == SelectSeq(MetaKeys(s), LAMBDA k : Live(s, k) /\ glob_match(p, k))

\* The first live key, if there is one.
random_key(s) ==
    LET live == SelectSeq(MetaKeys(s), LAMBDA k : Live(s, k))
    IN  SubSeq(live, 1, Min({1, Len(live)}))

\* One page of SCAN: at most limit entries from start on, stale ones included.
\* start is the set that holds the first key, or {}.
scan_meta(s, start, limit, types, p) ==
    LET range == SelectSeq(MetaKeys(s), LAMBDA k : \A x \in start : k >= x)
        page == SubSeq(range, 1, Min({limit, Len(range)}))
    IN  [keys |-> SelectSeq(page, LAMBDA k : /\ Live(s, k) /\ glob_match(p, k)
                                             /\ s.meta[k].type \in types),
         scanned |-> Len(page),
         next |-> IF Len(range) <= limit THEN {} ELSE {range[limit + 1]}]

-----------------------------------------------------------------------------
(* FLUSHDB deletes one column family after the other, the meta values first. *)

FlushMeta(s) == [s EXCEPT !.meta = [k \in Keys |-> NoMeta]]
FlushData(s) == [s EXCEPT !.hashes = <<>>, !.sets = {}, !.lists = <<>>, !.members = <<>>, !.scores = {},
                          !.vectors = <<>>]

flush_db(s) == FlushData(FlushMeta(s))

=============================================================================
