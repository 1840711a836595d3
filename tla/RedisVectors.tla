---------------------------- MODULE RedisVectors ----------------------------
(***************************************************************************)
(* The vector set commands of one storage instance, as operators on a store. *)
(* Elements are integers in the order of their bytes, and an element e is e   *)
(* bytes long.                                                               *)
(*                                                                           *)
(* The components of vectors are numbers of halves, and only vectors whose   *)
(* length is a number of halves too, and whose normalised components are      *)
(* numbers of fifths, are used: with them the arithmetic of f32 and f64 is    *)
(* exact, and a score of 1 is the number 50.  The set commands accept NOQUANT *)
(* only, so vectors are never quantized.                                     *)
(***************************************************************************)
EXTENDS Cmd, FiniteSetsExt

CONSTANT VectorConfig    \* max_dimension, max_element_bytes, max_vector_bytes, max_k,
                         \* flat_scan_max_entries

F32Bytes == 4

Boolean(b) == <<"boolean", b>>

-----------------------------------------------------------------------------
(* CanonicalVector: a normalised vector and the length it had. *)

SumOfSquares(v) == FoldLeft(LAMBDA n, x : n + x * x, 0, v)

original_l2(v) == CHOOSE n \in 0..SumOfSquares(v) : n * n = SumOfSquares(v)

\* CanonicalVector::from_values.
Normalized(v, l2) ==
    [dim |-> Len(v), l2 |-> l2,
     data |-> [i \in DOMAIN v |-> IF l2 = 0 THEN 0 ELSE (5 * v[i]) \div l2]]
from_values(v) == Normalized(v, original_l2(v))

cosine_score(v, w) ==
    LET dot == FoldLeft(LAMBDA n, i : n + v.data[i] * w.data[i], 0, [i \in 1..v.dim |-> i])
    IN  Min({Max({dot, -25}), 25}) + 25

restore(v) == [i \in DOMAIN v.data |-> (v.data[i] * v.l2) \div 5]

\* VectorDataValue::decode: what it refuses of a stored value.
decodes(v) ==
    /\ v.dim # 0 /\ Len(v.data) = v.dim
    /\ v.l2 # 0 \/ \A i \in DOMAIN v.data : v.data[i] = 0

-----------------------------------------------------------------------------
(* VADD and VREM are mutations that one operation decides and commits. *)

GenerationOf(s, k) == s.meta[k].version
vector_member_key(s, k, e) == <<k, GenerationOf(s, k), e>>
HasVector(s, k, e) == vector_member_key(s, k, e) \in DOMAIN s.vectors
VectorAt(s, k, e) == s.vectors[vector_member_key(s, k, e)]

\* A set is created, or created again, under a new generation.
CreatedSet(s, k, e, v) ==
    [Versioned(s) EXCEPT
        !.meta[k] = [CollectionMeta("vectorset", 1, update_version(s)) EXCEPT !.dim = v.dim],
        !.vectors = put(@, Encoded(k, update_version(s), e :> v))]

WithMember(s, k, e, v) == [s EXCEPT !.vectors = put(@, Encoded(k, GenerationOf(s, k), e :> v))]

apply_vector_add(s, k, e, v) ==
    Checked(s, k, "vectorset", Result(s, WRONGTYPE), Result(CreatedSet(s, k, e, v), <<"Added">>),
        IF v.dim # s.meta[k].dim THEN Result(s, Err("dimension mismatch"))
        ELSE IF HasVector(s, k, e) THEN Result(WithMember(s, k, e, v), <<"Updated">>)
        ELSE IF s.meta[k].count = MaxCount THEN Result(s, Err("vector set size overflow"))
        ELSE Result([WithMember(s, k, e, v) EXCEPT !.meta[k].count = @ + 1], <<"Added">>))

\* The meta value goes with the last member.
apply_vector_remove(s, k, e) ==
    LET without == [s EXCEPT !.vectors = delete(@, {vector_member_key(s, k, e)})]
    IN  Checked(s, k, "vectorset", Result(s, WRONGTYPE), Result(s, <<"RemoveMissed">>),
          IF ~HasVector(s, k, e) THEN Result(s, <<"RemoveMissed">>)
          ELSE IF s.meta[k].count > 1
          THEN Result([without EXCEPT !.meta[k].count = @ - 1], <<"Removed">>)
          ELSE Result([without EXCEPT !.meta[k] = NoMeta], <<"Removed">>))

\* The reply to an outcome: an error, or whether it is the one asked for.
Outcome(result, hit) ==
    Result(result.store, IF IsErr(result.reply) THEN result.reply ELSE Boolean(result.reply = <<hit>>))

vadd(s, k, e, v) ==
    IF v.dim > VectorConfig.max_dimension THEN Result(s, Err("max_dimension"))
    ELSE IF e > VectorConfig.max_element_bytes THEN Result(s, Err("max_element_bytes"))
    ELSE IF v.dim * F32Bytes > VectorConfig.max_vector_bytes THEN Result(s, Err("max_vector_bytes"))
    ELSE Outcome(apply_vector_add(s, k, e, v), "Added")

vrem(s, k, e) == Outcome(apply_vector_remove(s, k, e), "Removed")

-----------------------------------------------------------------------------
(* Queries read one snapshot. *)

vcard(s, k) == Checked(s, k, "vectorset", WRONGTYPE, Integer(0), Integer(s.meta[k].count))

vdim(s, k) == Checked(s, k, "vectorset", WRONGTYPE, Err("key does not exist"), Integer(s.meta[k].dim))

vinfo(s, k) ==
    Checked(s, k, "vectorset", WRONGTYPE, Nil,
            <<"vinfo", s.meta[k].dim, s.meta[k].count, s.meta[k].version>>)

vismember(s, k, e) == Checked(s, k, "vectorset", WRONGTYPE, Boolean(FALSE), Boolean(HasVector(s, k, e)))

\* VectorDataValue::decode, and the comparison with the dimension of the set.
Readable(s, k, e) == decodes(VectorAt(s, k, e)) /\ VectorAt(s, k, e).dim = s.meta[k].dim
InvalidFormat == Err("storage error")

vemb(s, k, e) ==
    Checked(s, k, "vectorset", WRONGTYPE, Nil,
        IF ~HasVector(s, k, e) THEN Nil
        ELSE IF ~Readable(s, k, e) THEN InvalidFormat
        ELSE Array(restore(VectorAt(s, k, e))))

\* <<"prepared", dimension, {} or {the vector of the element}>>, Nil without a set.
prepare_vsim(s, k, element) ==
    Checked(s, k, "vectorset", WRONGTYPE, Nil,
        IF \E e \in element : ~HasVector(s, k, e) THEN Err("element not found in set")
        ELSE IF \E e \in element : ~Readable(s, k, e) THEN InvalidFormat
        ELSE <<"prepared", s.meta[k].dim, {VectorAt(s, k, e) : e \in element}>>)

-----------------------------------------------------------------------------
(* The search: a bounded heap of the best candidates so far. *)

\* The order of the hits, and of the candidates in the heap: the last is the worst.
Closer(x, y) == x.score > y.score \/ (x.score = y.score /\ x.element < y.element)

flat_search(count, candidates) ==
    LET offer(heap, item) ==
          IF Len(heap) < count THEN SortSeq(Append(heap, item), Closer)
          ELSE IF Closer(item, Last(heap)) THEN SortSeq(Append(Front(heap), item), Closer)
          ELSE heap
    IN  FoldLeft(offer, <<>>, candidates)

\* FlatScanGuard::record, for the number of entries.
WithinBudget(n) == n <= VectorConfig.flat_scan_max_entries

ScanMembers(s, k, target, count, es) ==
    IF ~WithinBudget(Len(es)) THEN Err("scan budget exceeded")
    ELSE IF \E e \in ToSet(es) : ~Readable(s, k, e) THEN InvalidFormat
    ELSE <<"hits", flat_search(count, [i \in DOMAIN es |->
                     [element |-> es[i], score |-> cosine_score(target, VectorAt(s, k, es[i]))]])>>

vsim_scan(s, k, target, count) ==
    Checked(s, k, "vectorset", WRONGTYPE, <<"hits", <<>>>>,
        IF target.dim # s.meta[k].dim THEN Err("dimension mismatch")
        ELSE ScanMembers(s, k, target, count, InKeyOrder(ElementsOf(s.vectors, k, GenerationOf(s, k)))))

\* vsim_with_cancel, when a permit is free and the deadline is not reached.
vsim(s, k, target, count) ==
    IF count > VectorConfig.max_k THEN Err("max_k") ELSE vsim_scan(s, k, target, count)

-----------------------------------------------------------------------------
(***************************************************************************)
(* The vector set commands as the dispatcher runs them.  A blob of FP32      *)
(* values is <<"blob", components, odd bytes at the end, all finite>>.        *)
(***************************************************************************)

Invalid == Err("invalid vector specification")
OverDimension == Err("max_dimension")
OverBytes == Err("max_vector_bytes")

\* The positive number that is meant, if one is.
parse_positive_usize(v) ==
    IF v[1] = "bytes" /\ Digits(Unsigned(Bytes(v))) /\ Bytes(v)[1] # 45
    THEN {NatOf(Unsigned(Bytes(v)))} \ {0} ELSE {}

\* <<"vector", vector, index of the next argument>> or an error.
parse_vector_values(argv, at) ==
    LET dims == IF at > Len(argv) THEN {} ELSE parse_positive_usize(argv[at])
        n == CHOOSE d \in dims : TRUE
        raw == SubSeq(argv, at + 1, at + n)
    IN  IF dims = {} THEN Invalid
        ELSE IF n > VectorConfig.max_dimension THEN OverDimension
        ELSE IF n * F32Bytes > VectorConfig.max_vector_bytes THEN OverBytes
        ELSE IF at + n > Len(argv) \/ ~AllParseFloat(raw) THEN Invalid
        ELSE <<"vector", from_values([i \in 1..n |-> FloatOf(raw[i])]), at + n + 1>>

parse_fp32(argv, at) ==
    LET blob == argv[at]
        size == F32Bytes * Len(blob[2]) + blob[3]
    IN  IF at > Len(argv) THEN Invalid
        ELSE IF size > VectorConfig.max_vector_bytes THEN OverBytes
        ELSE IF size % F32Bytes # 0 THEN Invalid
        ELSE IF size \div F32Bytes > VectorConfig.max_dimension THEN OverDimension
        ELSE IF size = 0 \/ ~blob[4] THEN Invalid
        ELSE <<"vector", from_values(blob[2]), at + 1>>

parse_direct_vector(argv, at) ==
    IF argv[at] = Word("FP32") THEN parse_fp32(argv, at + 1)
    ELSE IF argv[at] = Word("VALUES") THEN parse_vector_values(argv, at + 1)
    ELSE Invalid

-----------------------------------------------------------------------------

\* <<"add", vector, element>> or an error.  Of the options NOQUANT is accepted,
\* and it has to be there.
VAddOptions(argv, direct) ==
    IF IsErr(direct) THEN direct
    ELSE IF direct[3] > Len(argv) THEN Invalid
    ELSE IF argv[direct[3]] > VectorConfig.max_element_bytes THEN Err("max_element_bytes")
    ELSE IF ToSet(From(argv, direct[3] + 1)) # {Word("NOQUANT")} THEN Err("option is not supported")
    ELSE <<"add", direct[2], argv[direct[3]]>>

parse_vadd_with_limits(argv) ==
    IF argv[3] = Word("REDUCE") THEN Err("REDUCE is not supported")
    ELSE VAddOptions(argv, parse_direct_vector(argv, 3))

\* The error is about the number of arguments when only the element is missing.
WithoutElement(argv) ==
    \/ argv[3] = Word("FP32") /\ Len(argv) = 4
    \/ argv[3] = Word("VALUES") /\ \E n \in parse_positive_usize(argv[4]) : Len(argv) = n + 4

VAddParsed(s, argv, parsed) ==
    IF parsed = Invalid /\ WithoutElement(argv) THEN Result(s, WrongArity)
    ELSE IF IsErr(parsed) THEN Result(s, parsed)
    ELSE vadd(s, argv[2], parsed[3], parsed[2])

VAddCmd(s, argv) == execute(s, argv, -5, VAddParsed(s, argv, parse_vadd_with_limits(argv)))

-----------------------------------------------------------------------------

\* <<"query", {} or {vector}, index of the options>> or an error.
DirectQuery(direct) == IF IsErr(direct) THEN direct ELSE <<"query", {direct[2]}, direct[3]>>

parse_vsim_query(argv) ==
    IF argv[3] = Word("ELE") THEN <<"query", {}, 5>> ELSE DirectQuery(parse_direct_vector(argv, 3))

RECURSIVE vsim_options(_, _)
vsim_options(args, found) ==
    LET counts == IF Len(args) > 1 THEN parse_positive_usize(args[2]) ELSE {}
    IN  IF args = <<>> THEN found
        ELSE IF args[1] = Word("WITHSCORES") THEN vsim_options(Tail(args), [found EXCEPT ![3] = TRUE])
        ELSE IF args[1] = Word("TRUTH") THEN vsim_options(Tail(args), found)
        ELSE IF args[1] # Word("COUNT") \/ counts = {} THEN Invalid
        ELSE vsim_options(From(args, 3), [found EXCEPT ![2] = CHOOSE n \in counts : TRUE])

\* <<"options", count, with scores>> or an error.
parse_vsim_options(args) == vsim_options(args, <<"options", DefaultCount, FALSE>>)

Hits(found, with_scores) ==
    IF IsErr(found) THEN found
    ELSE IF with_scores
    THEN <<"map", [i \in DOMAIN found[2] |-> <<found[2][i].element, found[2][i].score>>]>>
    ELSE Array([i \in DOMAIN found[2] |-> found[2][i].element])

Search(s, k, vector, options) ==
    IF IsErr(options) THEN options ELSE Hits(vsim(s, k, vector, options[2]), options[3])

\* The vector is the one that is asked for, or the one of the element.
VSimPrepared(s, argv, prepared, asked) ==
    IF IsErr(prepared) THEN prepared
    ELSE IF prepared = Nil THEN Array(<<>>)
    ELSE IF IsErr(asked) THEN asked
    ELSE IF \E v \in asked[2] : v.dim # prepared[2] THEN Err("dimension mismatch")
    ELSE Search(s, argv[2], CHOOSE v \in asked[2] \cup prepared[3] : TRUE,
                parse_vsim_options(From(argv, asked[3])))

\* The search looks at the set again after it has been prepared; a command is
\* one step here.
VSimCmd(s, argv) ==
    query(s, argv, -4,
          VSimPrepared(s, argv, prepare_vsim(s, argv[2], IF argv[3] = Word("ELE") THEN {argv[4]} ELSE {}),
                       parse_vsim_query(argv)))

-----------------------------------------------------------------------------

VRemCmd(s, argv) == execute(s, argv, 3, vrem(s, argv[2], argv[3]))
VCardCmd(s, argv) == query(s, argv, 2, vcard(s, argv[2]))
VDimCmd(s, argv) == query(s, argv, 2, vdim(s, argv[2]))
VInfoCmd(s, argv) == query(s, argv, 2, vinfo(s, argv[2]))
VIsMemberCmd(s, argv) == query(s, argv, 3, vismember(s, argv[2], argv[3]))

\* RAW, like every other option, is refused.
VEmbCmd(s, argv) ==
    query(s, argv, -3, IF Len(argv) > 3 THEN Invalid ELSE vemb(s, argv[2], argv[3]))
=============================================================================
