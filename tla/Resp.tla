-------------------------------- MODULE Resp --------------------------------
(***************************************************************************)
(* The RESP protocol: the encoder, and the parser that is fed the bytes of a *)
(* connection as they arrive.                                               *)
(*                                                                          *)
(* A byte is a token: "CR", "LF", a digit, a sign, a type prefix, or a word  *)
(* that stands for one byte of text.  Frames are tuples whose first          *)
(* component names the variant of RespData.                                  *)
(***************************************************************************)
EXTENDS Integers, Sequences, SequencesExt

CONSTANTS
    \* RespLimits
    max_inline_len, max_bulk_len, max_buffer_len, max_aggregate_len,
    max_nesting_depth, max_decoded_nodes, max_parse_work,
    I64Max      \* the largest i64

CRLF == <<"CR", "LF">>
RESP2 == 2
RESP3 == 3

SimpleString(b) == <<"SimpleString", b>>
Error(b) == <<"Error", b>>
Integer(n) == <<"Integer", n>>
BulkString(b) == <<"BulkString", b>>
NullBulk == <<"NullBulk">>          \* BulkString(None)
Array(q) == <<"Array", q>>
NullArray == <<"NullArray">>        \* Array(None)
Null == <<"Null">>
Boolean(b) == <<"Boolean", b>>
Double(x) == <<"Double", x>>        \* a value of FloatOf
BigNumber(b) == <<"BigNumber", b>>
BulkError(b) == <<"BulkError", b>>
VerbatimString(f, b) == <<"VerbatimString", f, b>>
Map(pairs) == <<"Map", pairs>>
Set(q) == <<"Set", q>>
Push(q) == <<"Push", q>>

-----------------------------------------------------------------------------
(* Numbers. *)

DigitValue == [d \in {"0", "1", "2", "3", "4", "5", "6", "7", "8", "9"} |->
                 CASE d = "0" -> 0 [] d = "1" -> 1 [] d = "2" -> 2 [] d = "3" -> 3 [] d = "4" -> 4
                   [] d = "5" -> 5 [] d = "6" -> 6 [] d = "7" -> 7 [] d = "8" -> 8 [] d = "9" -> 9]
Digits == DOMAIN DigitValue
DigitOf(n) == CHOOSE d \in Digits : DigitValue[d] = n

RECURSIVE to_string(_)
to_string(n) ==
    IF n < 0 THEN <<"-">> \o to_string(-n)
    ELSE (IF n < 10 THEN <<>> ELSE to_string(n \div 10)) \o <<DigitOf(n % 10)>>

NatOf(q) == FoldLeft(LAMBDA n, d : 10 * n + DigitValue[d], 0, q)

\* The floats in question and how they are written: the three special ones, in
\* any case, and the integers, with or without a fraction of zero.
FloatOf(t) ==
    IF t \in {<<"inf">>, <<"INF">>} THEN <<"inf">>
    ELSE IF t \in {<<"-", "inf">>, <<"-", "INF">>} THEN <<"-inf">>
    ELSE IF t \in {<<"nan">>, <<"NAN">>} THEN <<"nan">>
    ELSE <<"number", IF Len(t) > 2 /\ SubSeq(t, Len(t) - 1, Len(t)) = <<".", "0">>
                     THEN NatOf(SubSeq(t, 1, Len(t) - 2)) ELSE NatOf(t)>>
IsFloat(t) ==
    \/ t \in {<<"inf">>, <<"INF">>, <<"-", "inf">>, <<"-", "INF">>, <<"nan">>, <<"NAN">>}
    \/ LET whole == IF Len(t) > 2 /\ SubSeq(t, Len(t) - 1, Len(t)) = <<".", "0">>
                    THEN SubSeq(t, 1, Len(t) - 2) ELSE t
       IN  whole # <<>> /\ ToSet(whole) \subseteq Digits
FloatText(x) ==
    IF x[1] = "number" THEN to_string(x[2]) ELSE IF x = <<"-inf">> THEN <<"-", "inf">> ELSE x

-----------------------------------------------------------------------------
(* RespEncode. *)

Line(prefix, text) == <<prefix>> \o text \o CRLF
Sized(prefix, n) == Line(prefix, to_string(n))
append_bulk_string(b) == Sized("$", Len(b)) \o b \o CRLF
append_integer(n) == Line(":", to_string(n))

append_null(version) == IF version = RESP3 THEN Line("_", <<>>) ELSE Sized("$", -1)
append_boolean(version, b) ==
    IF version = RESP3 THEN Line("#", <<IF b THEN "t" ELSE "f">>)
    ELSE append_integer(IF b THEN 1 ELSE 0)
append_double(version, x) ==
    IF version = RESP3 THEN Line(",", FloatText(x)) ELSE append_bulk_string(FloatText(x))
append_big_number(version, b) ==
    IF version = RESP3 THEN Line("(", b) ELSE append_bulk_string(b)
append_bulk_error(version, b) ==
    IF version = RESP3 THEN Sized("!", Len(b)) \o b \o CRLF ELSE Line("-", b)
append_verbatim_string(version, format, b) ==
    LET text == (IF Len(format) = 3 THEN format ELSE <<"t", "x", "t">>) \o <<":">> \o b
    IN  IF version = RESP3 THEN Sized("=", Len(text)) \o text \o CRLF ELSE append_bulk_string(b)

Flattened(pairs) == FlattenSeq([i \in DOMAIN pairs |-> <<pairs[i][1], pairs[i][2]>>])

RECURSIVE encode_resp_data(_, _)
\* A header and the frames of an aggregate.
Aggregate(version, header, q) ==
    header \o FlattenSeq([i \in DOMAIN q |-> encode_resp_data(version, q[i])])
append_mapTwice(version, pairs) ==
    Aggregate(version, Sized(IF version = RESP3 THEN "%" ELSE "*", 2 * Len(pairs)), Flattened(pairs))
append_map(version, pairs) ==
    Aggregate(version, IF version = RESP3 THEN Sized("%", Len(pairs)) ELSE Sized("*", 2 * Len(pairs)),
              Flattened(pairs))
append_set(version, q) ==
    Aggregate(version, Sized(IF version = RESP3 THEN "~" ELSE "*", Len(q)), q)
append_push(version, q) ==
    Aggregate(version, Sized(IF version = RESP3 THEN ">" ELSE "*", Len(q)), q)

encode_resp_data(version, d) ==
    CASE d[1] = "SimpleString" -> Line("+", d[2])
      [] d[1] = "Error" -> Line("-", d[2])
      [] d[1] = "Integer" -> append_integer(d[2])
      [] d[1] = "BulkString" -> append_bulk_string(d[2])
      [] d[1] = "NullBulk" -> IF version = RESP3 THEN append_null(version) ELSE Sized("$", -1)
      [] d[1] = "Array" -> Aggregate(version, Sized("*", Len(d[2])), d[2])
      [] d[1] = "NullArray" -> IF version = RESP3 THEN append_null(version) ELSE Sized("*", -1)
      [] d[1] = "Null" -> append_null(version)
      [] d[1] = "Boolean" -> append_boolean(version, d[2])
      [] d[1] = "Double" -> append_double(version, d[2])
      [] d[1] = "BigNumber" -> append_big_number(version, d[2])
      [] d[1] = "BulkError" -> append_bulk_error(version, d[2])
      [] d[1] = "VerbatimString" -> append_verbatim_string(version, d[2], d[3])
      [] d[1] = "Map" -> append_map(version, d[2])
      [] d[1] = "Set" -> append_set(version, d[2])
      [] d[1] = "Push" -> append_push(version, d[2])

-----------------------------------------------------------------------------
(***************************************************************************)
(* The streaming parser.  A result is Ok with the frame and what is left of   *)
(* the input, Incomplete when more bytes could still make a frame, or an     *)
(* error.  The work of a parse, the nodes it has visited, is carried along.   *)
(***************************************************************************)

Ok(data, rest) == [kind |-> "Ok", data |-> data, rest |-> rest]
Incomplete == [kind |-> "Incomplete"]
Failure == [kind |-> "Error"]

IsOk(r) == r.kind = "Ok"

-----------------------------------------------------------------------------
(* The pieces, with the streaming forms of the parser library. *)

FirstBreak(input) ==
    LET breaks == {i \in DOMAIN input : input[i] \in {"CR", "LF"}}
    IN  IF breaks = {} THEN Len(input) + 1 ELSE CHOOSE i \in breaks : \A j \in breaks : i <= j
From(input, i) == SubSeq(input, i, Len(input))

line_ending(input) ==
    IF input = <<>> \/ input = <<"CR">> THEN Incomplete
    ELSE IF input[1] = "LF" THEN Ok(<<>>, Tail(input))
    ELSE IF input[1] = "CR" /\ input[2] = "LF" THEN Ok(<<>>, From(input, 3))
    ELSE Failure

\* A result with the data replaced, or the failure it is.
Then(r, data) == IF IsOk(r) THEN Ok(data, r.rest) ELSE r

\* terminated(not_line_ending, line_ending)
LineOf(input, i) == Then(line_ending(From(input, i)), SubSeq(input, 1, i - 1))
RestOfLine(input) == LineOf(input, FirstBreak(input))

\* terminated(digit1, line_ending), within an i64
NumberOf(sign, line) ==
    IF ~IsOk(line) THEN line
    ELSE IF NatOf(line.data) > I64Max THEN Failure
    ELSE Ok(sign * NatOf(line.data), line.rest)
NumberAfter(sign, input) ==
    LET others == {i \in DOMAIN input : input[i] \notin Digits}
    IN  IF others = {} THEN Incomplete
        ELSE IF 1 \in others THEN Failure
        ELSE NumberOf(sign, LineOf(input, CHOOSE i \in others : \A j \in others : i <= j))
Number(input) ==
    IF input = <<>> THEN Incomplete
    ELSE IF input[1] = "-" THEN NumberAfter(-1, Tail(input)) ELSE NumberAfter(1, input)

\* terminated(take(len), line_ending)
Taken(input, len) ==
    IF Len(input) < len THEN Incomplete
    ELSE Then(line_ending(From(input, len + 1)), SubSeq(input, 1, len))

checked_length(len, max) == len <= max

\* A frame made of the data of a result.
Framed(r, Frame(_)) == IF IsOk(r) THEN Ok(Frame(r.data), r.rest) ELSE r

\* A text of a given length: what a negative length stands for is the caller's.
TextAfter(len, negative, Frame(_)) ==
    IF ~IsOk(len) THEN len
    ELSE IF len.data < 0 THEN Ok(negative, len.rest)
    ELSE IF ~checked_length(len.data, max_bulk_len) THEN Failure
    ELSE Framed(Taken(len.rest, len.data), Frame)

-----------------------------------------------------------------------------
(* Frames without others in them; input is what follows the prefix. *)

parse_simple_string(input) == Framed(RestOfLine(input), SimpleString)
parse_error(input) == Framed(RestOfLine(input), Error)
parse_big_number(input) == Framed(RestOfLine(input), BigNumber)

parse_integer(input) == Framed(Number(input), Integer)

parse_bulk_string(input) == TextAfter(Number(input), NullBulk, BulkString)
parse_bulk_error(input) == TextAfter(Number(input), BulkError(<<>>), BulkError)

parse_null(input) == Then(line_ending(input), Null)

parse_boolean(input) ==
    IF input = <<>> THEN Incomplete
    ELSE IF input[1] \notin {"t", "f"} THEN Failure
    ELSE Then(line_ending(Tail(input)), Boolean(input[1] = "t"))

DoubleOf(line) ==
    IF ~IsOk(line) THEN line
    ELSE IF IsFloat(line.data) THEN Ok(Double(FloatOf(line.data)), line.rest) ELSE Failure
parse_double(input) == DoubleOf(RestOfLine(input))

\* Three characters of format, a colon, and the text.
VerbatimOf(text) ==
    IF ~IsOk(text) THEN text
    ELSE IF text.data[4] # ":" THEN Failure
    ELSE Ok(VerbatimString(SubSeq(text.data, 1, 3), From(text.data, 5)), text.rest)
VerbatimAfter(len) ==
    IF ~IsOk(len) THEN len
    ELSE IF len.data < 4 \/ ~checked_length(len.data, max_bulk_len) THEN Failure
    ELSE VerbatimOf(Taken(len.rest, len.data))
parse_verbatim_string(input) ==
    VerbatimAfter(IF input = <<>> THEN Incomplete ELSE NumberAfter(1, input))

\* Words separated by spaces; a line of spaces is an error.
split(text) ==
    LET cuts == {0, Len(text) + 1} \cup {i \in DOMAIN text : text[i] = " "}
        ends(i) == CHOOSE j \in cuts : j > i /\ \A k \in cuts : k > i => j <= k
        starts == SetToSortSeq({i \in cuts : i <= Len(text) /\ ends(i) > i + 1}, LAMBDA i, j : i < j)
    IN  [n \in DOMAIN starts |-> SubSeq(text, starts[n] + 1, ends(starts[n]) - 1)]
InlineOf(line) ==
    IF ~IsOk(line) THEN line
    ELSE IF ToSet(line.data) \subseteq {" "} THEN Failure
    ELSE Ok(Array([n \in DOMAIN split(line.data) |-> BulkString(split(line.data)[n])]), line.rest)
parse_inline(input) == InlineOf(RestOfLine(input))

-----------------------------------------------------------------------------
(* Frames of frames. *)

check_line_length(input) == FirstBreak(input) - 1 <= max_inline_len
check_aggregate_depth(depth) == depth < max_nesting_depth
charge_parse_node(cost) == cost.work < max_parse_work /\ cost.nodes < max_decoded_nodes
Charged(cost) == [work |-> cost.work + 1, nodes |-> cost.nodes + 1]

With(r, cost) == [result |-> r, cost |-> cost]

RECURSIVE parse_resp_data(_, _, _)
RECURSIVE parse_elements(_, _, _)
\* n frames, one after the other, appended to what p has.
ElementAfter(q, p) == IF IsOk(p.result) THEN With(Ok(Append(q, p.result.data), p.result.rest), p.cost) ELSE p
parse_elements(p, n, depth) ==
    IF n = 0 \/ ~IsOk(p.result) THEN p
    ELSE parse_elements(ElementAfter(p.result.data, parse_resp_data(p.result.rest, depth, p.cost)),
                        n - 1, depth)

\* Width frames make one element: two in a map.
Elements(len, depth, cost, width, negative) ==
    IF ~IsOk(len) THEN With(len, cost)
    ELSE IF len.data < 0 THEN With(Ok(negative, len.rest), cost)
    ELSE IF ~checked_length(len.data, max_aggregate_len) THEN With(Failure, cost)
    ELSE parse_elements(With(Ok(<<>>, len.rest), cost), width * len.data, depth + 1)
parse_aggregate(input, depth, cost, width, negative) ==
    IF ~check_aggregate_depth(depth) THEN With(Failure, cost)
    ELSE Elements(Number(input), depth, cost, width, negative)
FrameOf(p, Frame(_)) == With(Framed(p.result, Frame), p.cost)

PairsOf(q) == [i \in 1..(Len(q) \div 2) |-> <<q[2 * i - 1], q[2 * i]>>]
MapOf(q) == Map(PairsOf(q))
\* Stands for the elements of an array of negative length.
NoElements == << <<"none">> >>
ArrayOf(q) == IF q = NoElements THEN NullArray ELSE Array(q)

parse_array(input, depth, cost) == FrameOf(parse_aggregate(input, depth, cost, 1, NoElements), ArrayOf)
parse_map(input, depth, cost) == FrameOf(parse_aggregate(input, depth, cost, 2, <<>>), MapOf)
parse_set(input, depth, cost) == FrameOf(parse_aggregate(input, depth, cost, 1, <<>>), Set)
parse_push(input, depth, cost) == FrameOf(parse_aggregate(input, depth, cost, 1, <<>>), Push)

prefixes == {"+", "-", ":", "$", "*", "_", "#", ",", "(", "!", "=", "%", "~", ">"}
FrameAfter(prefix, body, depth, cost) ==
    CASE prefix = "+" -> With(parse_simple_string(body), cost)
      [] prefix = "-" -> With(parse_error(body), cost)
      [] prefix = ":" -> With(parse_integer(body), cost)
      [] prefix = "$" -> With(parse_bulk_string(body), cost)
      [] prefix = "*" -> parse_array(body, depth, cost)
      [] prefix = "_" -> With(parse_null(body), cost)
      [] prefix = "#" -> With(parse_boolean(body), cost)
      [] prefix = "," -> With(parse_double(body), cost)
      [] prefix = "(" -> With(parse_big_number(body), cost)
      [] prefix = "!" -> With(parse_bulk_error(body), cost)
      [] prefix = "=" -> With(parse_verbatim_string(body), cost)
      [] prefix = "%" -> parse_map(body, depth, cost)
      [] prefix = "~" -> parse_set(body, depth, cost)
      [] prefix = ">" -> parse_push(body, depth, cost)
parse_frame(input, depth, cost) ==
    IF input[1] \in prefixes THEN FrameAfter(input[1], Tail(input), depth, cost)
    ELSE With(parse_inline(input), cost)

parse_resp_data(input, depth, cost) ==
    IF input = <<>> THEN With(Incomplete, cost)
    ELSE IF ~check_line_length(input) \/ ~charge_parse_node(cost) THEN With(Failure, cost)
    ELSE parse_frame(input, depth, Charged(cost))

-----------------------------------------------------------------------------
(* RespParse: a buffer and the work already spent on its incomplete frame. *)

NewParser == [buffer |-> <<>>, work |-> 0]

RECURSIVE skip_empty_lines(_)
skip_empty_lines(buffer) ==
    IF buffer # <<>> /\ buffer[1] = "LF" THEN skip_empty_lines(Tail(buffer))
    ELSE IF Len(buffer) >= 2 /\ SubSeq(buffer, 1, 2) = CRLF THEN skip_empty_lines(From(buffer, 3))
    ELSE buffer

\* An incomplete frame is parsed again from its beginning when more has come.
Buffered(buffer, p) ==
    [parser |-> IF IsOk(p.result) THEN [buffer |-> p.result.rest, work |-> 0]
                ELSE [buffer |-> buffer, work |-> p.cost.work],
     result |-> p.result]
process_buffer(buffer, work) ==
    IF buffer = <<>> THEN [parser |-> [buffer |-> <<>>, work |-> work], result |-> Incomplete]
    ELSE Buffered(buffer, parse_resp_data(buffer, 0, [work |-> work, nodes |-> 0]))

parse(parser, data) ==
    IF Len(parser.buffer) + Len(data) > max_buffer_len
    THEN [parser |-> parser, result |-> Failure]
    ELSE process_buffer(skip_empty_lines(parser.buffer \o data), parser.work)
=============================================================================
