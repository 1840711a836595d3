----------------------------- MODULE RedisStore -----------------------------
(***************************************************************************)
(* One storage instance as a value.                                         *)
(*                                                                          *)
(* A store holds the column families of one RocksDB instance that the       *)
(* commands use, the clock, and the source of                               *)
(* versions.  A command is an operator on a store: it returns the store it   *)
(* leaves and its reply.  Commands that write hold the record lock of their *)
(* key from the first read to the commit of their only batch, so a command  *)
(* is one step of the modules that use this one, except where the code      *)
(* gives the lock up in between.                                            *)
(*                                                                          *)
(* The version of a new collection is the time in microseconds, or one more *)
(* than its last version; only that it is larger than every earlier version *)
(* matters, so versions are drawn from the counter next.                    *)
(***************************************************************************)
EXTENDS Integers, Sequences, FiniteSets, SequencesExt, TLC

CONSTANTS
    Keys,         \* user keys: integers, in the order of their encodings
    MaxCount,     \* u64::MAX in the code: the largest element count
    I64Min, I64Max,  \* the range of i64
    FloatMax      \* the largest finite f64, in halves

-----------------------------------------------------------------------------
(* Replies.  The first component says which kind of reply it is. *)

Integer(n) == <<"integer", n>>
Bulk(v) == <<"bulk", v>>
Nil == <<"nil">>
Array(q) == <<"array", q>>
Simple(t) == <<"simple", t>>
Err(e) == <<"error", e>>

IsErr(r) == r[1] = "error"

\* What a command leaves and what it answers.
Result(s, r) == [store |-> s, reply |-> r]

Bool(b) == Integer(IF b THEN 1 ELSE 0)

-----------------------------------------------------------------------------
(* Values are byte strings, tagged so that they can be compared with the      *)
(* other tokens of a command line.  Numbers are formatted in decimal; the     *)
(* fractions of floats are halves, and a float is represented by the number   *)
(* of its halves.                                                             *)

Raw(b) == <<"bytes", b>>
Bytes(v) == v[2]

RECURSIVE format_nat(_)
format_nat(n) == (IF n < 10 THEN <<>> ELSE format_nat(n \div 10)) \o <<48 + (n % 10)>>

Magnitude(n) == IF n < 0 THEN -n ELSE n

\* to_string of an integer, and of a float given in halves.
FormatInt(n) == Raw((IF n < 0 THEN <<45>> ELSE <<>>) \o format_nat(Magnitude(n)))
Num(h) == Raw((IF h < 0 THEN <<45>> ELSE <<>>) \o format_nat(Magnitude(h) \div 2)
              \o (IF h % 2 = 1 THEN <<46, 53>> ELSE <<>>))

\* The parts of a number: its sign, and what follows the sign.
Signed(b) == b # <<>> /\ b[1] \in {43, 45}
Unsigned(b) == IF Signed(b) THEN Tail(b) ELSE b
Sign(b) == IF b # <<>> /\ b[1] = 45 THEN -1 ELSE 1

Digits(b) == b # <<>> /\ \A i \in DOMAIN b : b[i] \in 48..57
NatOf(b) == FoldLeft(LAMBDA n, d : 10 * n + d - 48, 0, b)

\* str::parse::<i64>: digits after at most one sign, within the range of i64.
ParsesInt(v) ==
    /\ v[1] = "bytes" /\ Digits(Unsigned(Bytes(v)))
    /\ Sign(Bytes(v)) * NatOf(Unsigned(Bytes(v))) \in I64Min..I64Max
IntOf(v) == Sign(Bytes(v)) * NatOf(Unsigned(Bytes(v)))

\* str::parse::<f64>, for the floats that are numbers of halves.
Half(b) == Len(b) > 2 /\ SubSeq(b, Len(b) - 1, Len(b)) = <<46, 53>>
Whole(b) == IF Half(b) THEN SubSeq(b, 1, Len(b) - 2) ELSE b
ParsesFloat(v) == v[1] = "bytes" /\ Digits(Whole(Unsigned(Bytes(v))))
FloatOf(v) ==
    LET b == Unsigned(Bytes(v))
    IN  Sign(Bytes(v)) * (2 * NatOf(Whole(b)) + IF Half(b) THEN 1 ELSE 0)

\* String::from_utf8_lossy: a byte that no character starts with becomes U+FFFD.
from_utf8_lossy(v) ==
    Raw(FoldLeft(LAMBDA out, b : out \o IF b < 128 THEN <<b>> ELSE <<239, 191, 189>>,
                 <<>>, Bytes(v)))

\* Patterns: what they match of the elements in question.  A tail pattern is a
\* prefix and one star at the end.
NoPattern == <<"none">>
TailPattern(S) == <<"tail", S>>
GlobPattern(S) == <<"glob", S>>

glob_match(p, x) == p = NoPattern \/ x \in p[2]

-----------------------------------------------------------------------------
(* Meta values. *)

NoMeta == [type |-> "none", count |-> 0, version |-> 0, etime |-> 0, value |-> Raw(<<>>),
           left |-> 0, right |-> 0, dim |-> 0]

CollectionMeta(type, count, version) ==
    [NoMeta EXCEPT !.type = type, !.count = count, !.version = version]

StringValue(v, etime) == [NoMeta EXCEPT !.type = "string", !.value = v, !.etime = etime]

EmptyStore ==
    [now |-> 1, next |-> 1, meta |-> [k \in Keys |-> NoMeta], hashes |-> <<>>, sets |-> {},
     lists |-> <<>>, members |-> <<>>, scores |-> {}, points |-> <<>>,
     vectors |-> <<>>]

\* Expired, or a collection without elements.
is_stale(s, k) ==
    \/ s.meta[k].type \notin {"none", "string"} /\ s.meta[k].count = 0
    \/ s.meta[k].etime # 0 /\ s.meta[k].etime < s.now

check_type_state(s, k, expected) ==
    IF s.meta[k].type = "none" THEN "Missing"
    ELSE IF is_stale(s, k) THEN "Stale"
    ELSE IF s.meta[k].type = expected THEN "Match" ELSE "WrongType"

WRONGTYPE == Err("WRONGTYPE")

\* What a command does with the three outcomes of the type check.
Checked(s, k, expected, wrong, fresh, match) ==
    LET state == check_type_state(s, k, expected)
    IN  IF state = "WrongType" THEN wrong
        ELSE IF state = "Match" THEN match ELSE fresh

Live(s, k) == s.meta[k].type # "none" /\ ~is_stale(s, k)

\* update_version and initial_meta_value, see above.
update_version(s) == s.next
Versioned(s) == [s EXCEPT !.next = @ + 1]

-----------------------------------------------------------------------------
(* Column families: a function from encoded keys to values, with the puts and *)
(* deletes of a batch.                                                       *)

\* The entries of version v of key k, one for every element of a function.
Encoded(k, v, contents) ==
    [e \in {k} \X {v} \X DOMAIN contents |-> contents[e[3]]]

put(cf, entries) == entries @@ cf
delete(cf, ks) == [e \in DOMAIN cf \ ks |-> cf[e]]

\* What is stored for version v of key k.
ElementsOf(cf, k, v) == {e[3] : e \in {e \in DOMAIN cf : e[1] = k /\ e[2] = v}}
ContentsOf(cf, k, v) == [f \in ElementsOf(cf, k, v) |-> cf[<<k, v, f>>]]

\* A prefix iteration: the elements in the order of their keys.
InKeyOrder(S) == SetToSortSeq(S, LAMBDA x, y : x < y)

=============================================================================
