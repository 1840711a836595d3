------------------------------ MODULE ListStore ------------------------------
(***************************************************************************)
(* The list commands of one storage instance, as operators on a store.  What *)
(* they do beside each other, and where RPOPLPUSH may stop halfway, is the   *)
(* subject of RedisLists; here every command is one step.                    *)
(***************************************************************************)
EXTENDS Cmd, FiniteSetsExt

\* INITIAL_LEFT_INDEX is 2^63 - 1: far from both ends.
InitialLeft == 50

new_list_meta(s) ==
    [CollectionMeta("list", 0, update_version(s)) EXCEPT !.left = InitialLeft,
                                                         !.right = InitialLeft + 1]

\* The elements of a list from index first to index last, counted from 0; one
\* that is not stored is left out.
Fetch(s, k, m, first, last) ==
    LET there == SelectSeq([i \in 1..(last - first + 1) |-> m.left + first + i],
                           LAMBDA i : <<k, m.version, i>> \in DOMAIN s.lists)
    IN  [n \in DOMAIN there |-> s.lists[<<k, m.version, there[n]>>]]

Elements(s, k) == Fetch(s, k, s.meta[k], 0, s.meta[k].count - 1)

Indexes(k, m) == {k} \X {m.version} \X (m.left + 1..m.left + m.count)
Placed(k, v, first, values) ==
    [e \in {k} \X {v} \X (first..first + Len(values) - 1) |-> values[e[3] - first + 1]]

\* One batch: the meta value (none when the list is empty), deletes and puts.
Committed(s, k, m, deletes, puts) ==
    [s EXCEPT !.meta[k] = IF m.count = 0 THEN NoMeta ELSE m,
              !.lists = put(delete(@, deletes), puts)]

\* A list whose elements all move to a new version.
Rewritten(s, k, m, values) ==
    LET v == update_version(s)
    IN  Committed(Versioned(s), k,
          [m EXCEPT !.version = v, !.count = Len(values), !.right = m.left + Len(values)],
          Indexes(k, s.meta[k]), Placed(k, v, m.left + 1, values))

\* Both ends of a push to a list that is not empty, and to a new one.
PushedLeft(s, k, values) ==
    Rewritten(s, k, [s.meta[k] EXCEPT !.left = @ - Len(values)],
              Reverse(values) \o Elements(s, k))

PushedRight(s, k, values) ==
    LET m == s.meta[k]
    IN  Committed(s, k, [m EXCEPT !.count = @ + Len(values), !.right = m.left + m.count + Len(values)],
                  {}, Placed(k, m.version, m.left + m.count + 1, values))

PushedNew(s, k, values, position) ==
    LET new == new_list_meta(s)
        m == [new EXCEPT !.count = Len(values),
                         !.left = IF position = "left" THEN @ - Len(values) ELSE @]
    IN  Committed(Versioned(s), k, [m EXCEPT !.right = m.left + m.count], {},
                  Placed(k, m.version, m.left + 1,
                         IF position = "left" THEN Reverse(values) ELSE values))

push_core(s, k, values, position, allow_create) ==
    Checked(s, k, "list", Result(s, WRONGTYPE),
        IF allow_create THEN Result(PushedNew(s, k, values, position), Integer(Len(values)))
        ELSE Result(s, Integer(0)),
        Result(IF position = "left" THEN PushedLeft(s, k, values) ELSE PushedRight(s, k, values),
               Integer(s.meta[k].count + Len(values))))

lpush(s, k, values) == push_core(s, k, values, "left", TRUE)
rpush(s, k, values) == push_core(s, k, values, "right", TRUE)
lpushx(s, k, values) == push_core(s, k, values, "left", FALSE)
rpushx(s, k, values) == push_core(s, k, values, "right", FALSE)

\* Up to count elements from one end; count is {} when the command has none.
PopCount(s, k, count) == Min({s.meta[k].count} \cup IF count = {} THEN {1} ELSE count)

lpop(s, k, count) ==
    LET m == s.meta[k]
        n == PopCount(s, k, count)
    IN  Checked(s, k, "list", Result(s, WRONGTYPE), Result(s, Nil),
          Result(Committed(s, k, [m EXCEPT !.left = @ + n, !.count = @ - n],
                           Indexes(k, [m EXCEPT !.count = n]), <<>>),
                 Array(Fetch(s, k, m, 0, n - 1))))

\* RPOP goes by the right index.
rpop(s, k, count) ==
    LET m == s.meta[k]
        n == PopCount(s, k, count)
    IN  Checked(s, k, "list", Result(s, WRONGTYPE), Result(s, Nil),
          Result(Committed(s, k, [m EXCEPT !.right = @ - n, !.count = @ - n],
                           Indexes(k, [m EXCEPT !.left = m.right - n, !.count = n]), <<>>),
                 Array(Reverse(Fetch(s, k, [m EXCEPT !.left = m.right - n], 0, n - 1)))))

llen(s, k) == Checked(s, k, "list", WRONGTYPE, Integer(0), Integer(s.meta[k].count))

real_index(index, count) == IF index < 0 THEN count + index ELSE index
real_start(start, len) == IF start < 0 THEN Max({len + start, 0}) ELSE Min({start, len - 1})
real_stop(stop, len) == IF stop < 0 THEN Max({len + stop, -1}) ELSE Min({stop, len - 1})

lindex(s, k, index) ==
    LET i == real_index(index, s.meta[k].count)
        found == Fetch(s, k, s.meta[k], i, i)
    IN  Checked(s, k, "list", WRONGTYPE, Nil,
          IF i \notin 0..(s.meta[k].count - 1) \/ found = <<>> THEN Nil ELSE Bulk(found[1]))

lrange(s, k, start, stop) ==
    LET first == real_start(start, s.meta[k].count)
        last == real_stop(stop, s.meta[k].count)
    IN  Checked(s, k, "list", WRONGTYPE, Array(<<>>),
          IF first > last THEN Array(<<>>) ELSE Array(Fetch(s, k, s.meta[k], first, last)))

lset(s, k, index, value) ==
    LET m == s.meta[k]
        i == real_index(index, m.count)
    IN  Checked(s, k, "list", Result(s, WRONGTYPE), Result(s, Err("no such key")),
          IF i \notin 0..(m.count - 1) THEN Result(s, Err("index out of range"))
          ELSE Result(Committed(s, k, m, {}, Placed(k, m.version, m.left + i + 1, <<value>>)),
                      Simple("OK")))

ltrim(s, k, start, stop) ==
    LET m == s.meta[k]
        first == real_start(start, m.count)
        last == real_stop(stop, m.count)
        kept == IF first > last THEN [m EXCEPT !.count = 0]
                ELSE [m EXCEPT !.count = last - first + 1, !.left = @ + first,
                               !.right = m.left + last + 1]
    IN  Checked(s, k, "list", Result(s, WRONGTYPE), Result(s, Simple("OK")),
          Result(Committed(s, k, kept, Indexes(k, m) \ Indexes(k, kept), <<>>), Simple("OK")))

\* What remains of a list after LREM, head to tail or tail to head.
Remaining(list, count, value) ==
    LET q == IF count < 0 THEN Reverse(list) ELSE list
        limit == IF count = 0 THEN Len(list) ELSE Magnitude(count)
        kept == SelectSeq([i \in DOMAIN q |-> i], LAMBDA i :
                    q[i] # value \/ Cardinality({j \in 1..i : q[j] = value}) > limit)
        rest == [i \in DOMAIN kept |-> q[kept[i]]]
    IN  IF count < 0 THEN Reverse(rest) ELSE rest

\* LREM writes what remains from the left end on, under the same version.
lrem(s, k, count, value) ==
    LET m == s.meta[k]
        rest == Remaining(Elements(s, k), count, value)
        removed == Len(Elements(s, k)) - Len(rest)
    IN  Checked(s, k, "list", Result(s, WRONGTYPE), Result(s, Integer(0)),
          IF removed = 0 THEN Result(s, Integer(0))
          ELSE Result(Committed(s, k, [m EXCEPT !.count = Len(rest), !.right = m.left + Len(rest)],
                                Indexes(k, m), Placed(k, m.version, m.left + 1, rest)),
                      Integer(removed)))

\* LINSERT finds the last element that equals the pivot.
linsert(s, k, before, pivot, value) ==
    LET list == Elements(s, k)
        at == Max({i \in DOMAIN list : list[i] = pivot})
    IN  Checked(s, k, "list", Result(s, WRONGTYPE), Result(s, Err("key not found")),
          IF pivot \notin ToSet(list) THEN Result(s, Integer(-1))
          ELSE Result(Rewritten(s, k, s.meta[k], InsertAt(list, IF before THEN at ELSE at + 1, value)),
                      Integer(Len(list) + 1)))

\* RPOPLPUSH when it is not stopped between its batches; a destination of
\* another type is found out after the pop.
rpoplpush(s, source, destination) ==
    LET popped == rpop(s, source, {})
        pushed == lpush(popped.store, destination, popped.reply[2])
    IN  IF popped.reply[1] # "array" THEN popped
        ELSE IF IsErr(pushed.reply) THEN pushed
        ELSE Result(pushed.store, Bulk(popped.reply[2][1]))

-----------------------------------------------------------------------------
(***************************************************************************)
(* The list commands as the dispatcher runs them.                            *)
(***************************************************************************)

CONSTANT MaxSafePopCount     \* MAX_SAFE_POP_COUNT, 1000000 in the code

LPushCmd(s, argv) == execute(s, argv, -3, lpush(s, argv[2], From(argv, 3)))
RPushCmd(s, argv) == execute(s, argv, -3, rpush(s, argv[2], From(argv, 3)))
LPushxCmd(s, argv) == execute(s, argv, -3, lpushx(s, argv[2], From(argv, 3)))
RPushxCmd(s, argv) == execute(s, argv, -3, rpushx(s, argv[2], From(argv, 3)))
LLenCmd(s, argv) == query(s, argv, 2, llen(s, argv[2]))

\* What follows the count is not looked at.
PopCmd(s, argv, pop(_)) ==
    LET popped == pop(IF Len(argv) > 2 THEN {IntOf(argv[3])} ELSE {})
        one == IF Len(argv) = 2 /\ popped.reply[1] = "array"
               THEN Result(popped.store, Bulk(popped.reply[2][1])) ELSE popped
    IN  execute(s, argv, -2,
          IF Len(argv) > 2 /\ ~(ParsesInt(argv[3]) /\ IntOf(argv[3]) \in 1..(MaxSafePopCount - 1))
          THEN Result(s, NotInteger) ELSE one)

LPopCmd(s, argv) == PopCmd(s, argv, LAMBDA count : lpop(s, argv[2], count))
RPopCmd(s, argv) == PopCmd(s, argv, LAMBDA count : rpop(s, argv[2], count))

LIndexCmd(s, argv) ==
    query(s, argv, 3, IF ParsesInt(argv[3]) THEN lindex(s, argv[2], IntOf(argv[3])) ELSE NotInteger)

LRangeCmd(s, argv) ==
    query(s, argv, 4, IF AllParseInt(From(argv, 3))
                      THEN lrange(s, argv[2], IntOf(argv[3]), IntOf(argv[4])) ELSE NotInteger)

LSetCmd(s, argv) ==
    execute(s, argv, 4, IF ParsesInt(argv[3]) THEN lset(s, argv[2], IntOf(argv[3]), argv[4])
                        ELSE Result(s, NotInteger))

LTrimCmd(s, argv) ==
    execute(s, argv, 4, IF AllParseInt(From(argv, 3))
                        THEN ltrim(s, argv[2], IntOf(argv[3]), IntOf(argv[4]))
                        ELSE Result(s, NotInteger))

LRemCmd(s, argv) ==
    execute(s, argv, 4, IF ParsesInt(argv[3]) THEN lrem(s, argv[2], IntOf(argv[3]), argv[4])
                        ELSE Result(s, NotInteger))

LInsertCmd(s, argv) ==
    execute(s, argv, 5, IF argv[3] \in {Word("BEFORE"), Word("AFTER")}
                        THEN linsert(s, argv[2], argv[3] = Word("BEFORE"), argv[4], argv[5])
                        ELSE Result(s, NoReply))

RPoplpushCmd(s, argv) == execute(s, argv, 3, rpoplpush(s, argv[2], argv[3]))
=============================================================================
