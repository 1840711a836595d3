------------------------------- MODULE Storage -------------------------------
(***************************************************************************)
(* The storage: several RocksDB instances, each with the keys of its slots,  *)
(* the cursors of SCAN, and the two indexes of the expiration manager.       *)
(*                                                                          *)
(* A database is a record of these.  The clock of every instance is the same *)
(* system clock.                                                             *)
(***************************************************************************)
EXTENDS RedisStrings

CONSTANTS
    Instances,       \* 1..n
    key_to_slot_id   \* the slot of every key

EmptyDb ==
    [insts |-> [i \in Instances |-> EmptyStore], cursors |-> <<>>,
     index |-> {}, expiry |-> <<>>]

InstanceNum == Cardinality(Instances)
get_instance_id(k) == (key_to_slot_id[k] % InstanceNum) + 1

InstanceOf(db, k) == db.insts[get_instance_id(k)]
Now(db) == db.insts[1].now

\* The result of a command of one instance.
Routed(db, k, result) ==
    Result([db EXCEPT !.insts[get_instance_id(k)] = result.store], result.reply)

Ticked(db) == [db EXCEPT !.insts = [i \in Instances |-> [@[i] EXCEPT !.now = @ + 1]]]

-----------------------------------------------------------------------------
(* Commands on several keys. *)

storage_mget(db, ks) == Array([i \in DOMAIN ks |-> mget_binary(InstanceOf(db, ks[i]), ks[i])])

\* The pairs of one instance are one batch, the instances follow each other.
PairsAt(pairs, i) == SelectSeq(pairs, LAMBDA p : get_instance_id(p[1]) = i)
EachMset(db, pairs) ==
    [db EXCEPT !.insts = [i \in Instances |-> mset(@[i], PairsAt(pairs, i))]]

storage_mset(db, pairs) == Result(EachMset(db, pairs), Simple("OK"))

\* With several instances every key is checked under the locks of all of them.
storage_msetnx(db, pairs) ==
    IF InstanceNum = 1
    THEN LET only == msetnx(db.insts[1], pairs)
         IN  Result([db EXCEPT !.insts[1] = only.store], only.reply)
    ELSE IF \E p \in ToSet(pairs) : key_exists_live(InstanceOf(db, p[1]), p[1])
    THEN Result(db, Integer(0))
    ELSE Result(EachMset(db, pairs), Integer(1))

storage_exists(db, ks) ==
    Integer(Len(SelectSeq(ks, LAMBDA k : key_exists_live(InstanceOf(db, k), k))))

\* One key after the other: a key given twice is deleted once.
storage_del(db, ks) ==
    FoldLeft(LAMBDA acc, k :
               LET one == Routed(acc.store, k, del_key(InstanceOf(acc.store, k), k))
               IN  Result(one.store, Integer(acc.reply[2] + one.reply[2])),
             Result(db, Integer(0)), ks)

storage_bitop(db, operation, dest, srcs) ==
    IF \E k \in ToSet(srcs) : get_instance_id(k) # get_instance_id(dest) THEN Result(db, Err("CROSSSLOT"))
    ELSE Routed(db, dest, bitop(InstanceOf(db, dest), operation, dest, srcs))

\* The sorted streams of the instances as one: the smallest head goes first.
RECURSIVE MergingIterator(_)
MergingIterator(streams) ==
    LET left == {i \in DOMAIN streams : streams[i] # <<>>}
        chosen == CHOOSE i \in left : \A j \in left : Head(streams[i]) <= Head(streams[j])
    IN  IF left = {} THEN <<>>
        ELSE <<Head(streams[chosen])>> \o MergingIterator([streams EXCEPT ![chosen] = Tail(@)])

storage_keys(db, p) == Array(MergingIterator([i \in Instances |-> scan_keys(db.insts[i], p)]))

storage_randomkey(db) ==
    LET firsts == {i \in Instances : random_key(db.insts[i]) # <<>>}
    IN  IF firsts = {} THEN Nil ELSE Bulk(random_key(db.insts[Min(firsts)])[1])

storage_flushdb(db) ==
    Result([db EXCEPT !.insts = [i \in Instances |-> flush_db(@[i])]], Simple("OK"))

-----------------------------------------------------------------------------
(* SCAN.  A cursor stands for an instance and the next key there. *)

AllTypes == {"string", "hash", "set", "list", "zset", "vectorset"}

\* parse_scan_type: {} for a type that is not known.
parse_scan_type(w) == {w} \cap AllTypes

allocate_scan_cursor(db) == 1 + Cardinality(DOMAIN db.cursors)

\* The pages of the instances from i on, until the budget is spent:
\* <<keys, instance, next key>>.
RECURSIVE scan_pages(_, _, _, _, _, _, _)
scan_pages(db, i, start, remaining, types, p, out) ==
    LET page == scan_meta(db.insts[i], start, remaining, types, p)
        keys == out \o page.keys
    IN  IF i \notin Instances THEN <<out, i, {}>>
        ELSE IF page.next # {} THEN <<keys, i, page.next>>
        ELSE IF remaining = page.scanned THEN <<keys, i + 1, {}>>
        ELSE scan_pages(db, i + 1, {}, remaining - page.scanned, types, p, keys)

scanRestartsInstance(db, cursor, count, types, p) ==
    LET at == IF cursor = 0 THEN <<1, {}>> ELSE db.cursors[cursor]
        pages == scan_pages(db, at[1], at[2], count, types, p, <<>>)
        next == allocate_scan_cursor(db)
    IN  IF cursor # 0 /\ cursor \notin DOMAIN db.cursors THEN Result(db, Err("invalid cursor"))
        ELSE IF pages[2] \notin Instances \/ pages[2] > 1 THEN Result(db, <<"scan", 0, pages[1]>>)
        ELSE Result([db EXCEPT !.cursors = (next :> <<pages[2], pages[3]>>) @@ @],
                    <<"scan", next, pages[1]>>)
scan(db, cursor, count, types, p) ==
    LET at == IF cursor = 0 THEN <<1, {}>> ELSE db.cursors[cursor]
        pages == scan_pages(db, at[1], at[2], Max({count, 1}), types, p, <<>>)
        next == allocate_scan_cursor(db)
    IN  IF cursor # 0 /\ cursor \notin DOMAIN db.cursors THEN Result(db, Err("invalid cursor"))
        ELSE IF pages[2] \notin Instances THEN Result(db, <<"scan", 0, pages[1]>>)
        ELSE Result([db EXCEPT !.cursors = (next :> <<pages[2], pages[3]>>) @@ @],
                    <<"scan", next, pages[1]>>)

-----------------------------------------------------------------------------
(* Expiration.  The manager keeps the registered time of every key and, for   *)
(* every time, the keys that expire then.                                     *)

Registered(db, k) == {<<t, key>> \in db.index : key = k /\ k \in DOMAIN db.expiry /\ db.expiry[k] = t}

set_expiration(db, k, t) ==
    [db EXCEPT !.index = (@ \ Registered(db, k)) \cup {<<t, k>>},
               !.expiry = (k :> t) @@ @]

remove_expirationKeepsTime(db, k) ==
    [db EXCEPT !.index = @ \ Registered(db, k)]
remove_expiration(db, k) ==
    [db EXCEPT !.index = @ \ Registered(db, k), !.expiry = delete(@, {k})]

\* seconds_to_expire_time and its three companions: {} when the time overflows.
InTime(t) == {t} \cap (0..U64Max)

ExpireAtTime(db, k, times) ==
    LET t == CHOOSE x \in times : TRUE
        timed == Routed(db, k, set_key_etime(InstanceOf(db, k), k, t))
    IN  IF times = {} THEN Result(db, Err("timestamp overflow"))
        ELSE IF timed.reply = Integer(0) THEN timed
        ELSE Result(set_expiration(timed.store, k, t), Integer(1))

expire(db, k, seconds) ==
    IF seconds <= 0 THEN Result(db, Integer(0))
    ELSE ExpireAtTime(db, k, InTime(Now(db) + seconds * MicrosPerSecond))

pexpire(db, k, millis) ==
    IF millis <= 0 THEN Result(db, Integer(0))
    ELSE ExpireAtTime(db, k, InTime(Now(db) + millis * MicrosPerMilli))

expireat(db, k, timestamp) ==
    IF timestamp <= 0 THEN Result(db, Err("Invalid Unix timestamp"))
    ELSE ExpireAtTime(db, k, InTime(timestamp * MicrosPerSecond))

pexpireat(db, k, timestamp) ==
    IF timestamp <= 0 THEN Result(db, Err("Invalid Unix timestamp"))
    ELSE ExpireAtTime(db, k, InTime(timestamp * MicrosPerMilli))

persist(db, k) ==
    IF key_etime(InstanceOf(db, k), k) \in {{}, {0}} THEN Result(db, Integer(0))
    ELSE LET timed == Routed(db, k, set_key_etime(InstanceOf(db, k), k, 0))
         IN  Result(remove_expiration(timed.store, k), Integer(1))

\* A key that expires this microsecond is live but has no time left.
TimeLeft(db, k, unit) ==
    LET etimes == key_etime(InstanceOf(db, k), k)
        left == Max(etimes) - Now(db)
    IN  IF etimes = {} THEN Integer(-2)
        ELSE IF etimes = {0} THEN Integer(-1)
        ELSE IF left <= 0 THEN Integer(-2)
        ELSE Integer(left \div unit)

ttl(db, k) == TimeLeft(db, k, MicrosPerSecond)
pttl(db, k) == TimeLeft(db, k, MicrosPerMilli)

key_type(db, k) == get_key_type(InstanceOf(db, k), k)

\* The two halves of the cleanup task: what it finds under the read lock, and
\* what it removes later under the write locks.
expired_keys(db) == {e \in db.index : e[1] <= Now(db)}

RemoveExpiredKeepsIndex(db, expired) ==
    [db EXCEPT !.expiry = delete(@, {e[2] : e \in expired})]
RemoveExpired(db, expired) ==
    [db EXCEPT !.index = @ \ expired, !.expiry = delete(@, {e[2] : e \in expired})]

=============================================================================
