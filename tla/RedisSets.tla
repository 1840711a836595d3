----------------------------- MODULE RedisSets -----------------------------
(***************************************************************************)
(* The set commands of one storage instance.                                *)
(*                                                                          *)
(* A command that writes (SADD, SREM, SPOP, SMOVE, DEL, and the last part of *)
(* SUNIONSTORE, SINTERSTORE and SDIFFSTORE) holds the record locks of the   *)
(* keys it writes and commits one batch: it is one action.  Reads take no   *)
(* lock and no snapshot.  SMEMBERS reads the meta value of the key and then *)
(* iterates over the members of the version it found there; SUNION, SINTER  *)
(* and SDIFF, and the *STORE commands before they take their lock, are      *)
(* sequences of such reads.  Writers run between any two of them.           *)
(*                                                                          *)
(* Members are byte strings; several commands take them through             *)
(* String::from_utf8_lossy, the function from_utf8_lossy below.             *)
(***************************************************************************)
EXTENDS Integers, Sequences, FiniteSets, Functions

CONSTANTS
    Keys,             \* user keys of one slot
    Members,          \* set members
    from_utf8_lossy,  \* what the conversion to a String makes of a member
    Clients,          \* clients inside a read or a *STORE command
    SaddArgs,         \* argument lists of SADD
    SremArgs,         \* argument lists of SREM
    Queries,          \* key lists of SMEMBERS, SUNION, SINTER and SDIFF
    Destinations,     \* destinations of the *STORE commands
    MayMoveToSelf,    \* may SMOVE name one key twice?
    CountModulus,     \* 2^64 in the code: counts wrap around
    MaxVersion        \* bound on the number of committed batches

ASSUME ArgsAssumption ==
    /\ SaddArgs \cup SremArgs \subseteq Seq(Members) \ {<<>>}
    /\ Queries \subseteq Seq(Keys) \ {<<>>}
    /\ Destinations \subseteq Keys
    /\ MayMoveToSelf \in BOOLEAN
ASSUME LossyAssumption ==
    /\ from_utf8_lossy \in [Members -> Members]
    /\ \A m \in Members : from_utf8_lossy[from_utf8_lossy[m]] = from_utf8_lossy[m]
ASSUME CountAssumption ==
    /\ IsFiniteSet(Members)
    /\ CountModulus \in Nat /\ CountModulus > Cardinality(Members)

VARIABLES
    clock,    \* microseconds: one more for every batch
    meta,     \* the default column family
    data,     \* the sets data column family
    client,   \* the reads in progress
    expect,   \* history: the set a client may expect under every key
    reply,    \* history: how far the last reply was off
    seen      \* history: what the keys held while each read was in progress

vars == <<clock, meta, data, client, expect, reply, seen>>

NoMeta == [type |-> "none", count |-> 0, version |-> 0, expired |-> FALSE]

SetMeta(count, version) ==
    [type |-> "set", count |-> count, version |-> version, expired |-> FALSE]

Entries(k, v, ms) == [key : {k}, version : {v}, member : ms]

NoDestination == "no destination"

Idle == [pc |-> "idle", op |-> "union", keys |-> <<>>, dest |-> NoDestination,
         i |-> 0, cur |-> 0, size |-> 0, version |-> 0, acc |-> {}, left |-> {}]

-----------------------------------------------------------------------------
(* Reading the store. *)

check_type_state(k) ==
    IF meta[k] = NoMeta THEN "Missing"
    ELSE IF meta[k].expired \/ (meta[k].type = "set" /\ meta[k].count = 0) THEN "Stale"
    ELSE IF meta[k].type = "set" THEN "Match" ELSE "WrongType"

Fresh(k) == check_type_state(k) \in {"Missing", "Stale"}
Matches(k) == check_type_state(k) = "Match"
WrongType(k) == check_type_state(k) = "WrongType"

MembersOf(k, v) == {m \in Members : [key |-> k, version |-> v, member |-> m] \in data}

\* What SMEMBERS finds when nothing runs beside it.
Contents(k) == IF Matches(k) THEN MembersOf(k, meta[k].version) ELSE {}

\* update_version from 0, the version of a new set.
initial_meta_value == clock

-----------------------------------------------------------------------------
(* Steps. *)

NoView == [always |-> [k \in Keys |-> {}], ever |-> [k \in Keys |-> {}]]

\* Every step updates what the running reads could have seen of their keys.
Observe ==
    seen' = [c \in Clients |->
        LET now == [k \in Keys |->
                      IF k \in Range(client'[c].keys) THEN Contents(k)' ELSE {}]
        IN  IF client'[c].pc = "idle" THEN NoView
            ELSE IF client[c].pc = "idle" THEN [always |-> now, ever |-> now]
            ELSE [always |-> [k \in Keys |-> seen[c].always[k] \cap now[k]],
                  ever   |-> [k \in Keys |-> seen[c].ever[k] \cup now[k]]]]

\* A batch puts and deletes meta values and entries.
Batch(newMeta, deletes, puts) ==
    /\ clock < MaxVersion
    /\ clock' = clock + 1
    /\ meta' = newMeta
    /\ data' = (data \ deletes) \cup puts

Reply(got, want) == reply' = got - want

-----------------------------------------------------------------------------
(* Commands that hold the locks of their keys. *)

\* The members of an argument list, without those that are the same String as
\* an earlier one.
Deduplicated(args) ==
    {args[i] : i \in {i \in DOMAIN args :
        \A j \in 1..(i - 1) : from_utf8_lossy[args[j]] # from_utf8_lossy[args[i]]}}

\* SADD.
sadd(k, args) ==
    LET version == IF Fresh(k) THEN initial_meta_value ELSE meta[k].version
        count == IF Fresh(k) THEN 0 ELSE meta[k].count
        added == IF Fresh(k) THEN Deduplicated(args)
                 ELSE Deduplicated(args) \ MembersOf(k, version)
    IN  /\ ~WrongType(k)
        /\ IF added = {} THEN UNCHANGED <<clock, meta, data>>
           ELSE Batch([meta EXCEPT ![k] = SetMeta(count + Cardinality(added), version)],
                      {}, Entries(k, version, added))
        /\ expect' = [expect EXCEPT ![k] = @ \cup Range(args)]
        /\ Reply(Cardinality(added), Cardinality(Range(args) \ expect[k]))
        /\ UNCHANGED client
        /\ Observe

\* The meta value of a set that loses n members: at count 0 it goes.
Shrunk(k, n) ==
    LET count == (meta[k].count - n) % CountModulus
    IN  IF count = 0 THEN NoMeta ELSE [meta[k] EXCEPT !.count = count]

\* SREM: every argument that is a member is counted.
srem(k, args) ==
    LET found == {i \in DOMAIN args : args[i] \in MembersOf(k, meta[k].version)}
        removed == IF Matches(k) THEN Cardinality(found) ELSE 0
    IN  /\ ~WrongType(k)
        /\ IF removed = 0 THEN UNCHANGED <<clock, meta, data>>
           ELSE Batch([meta EXCEPT ![k] = Shrunk(k, removed)],
                      Entries(k, meta[k].version, {args[i] : i \in found}), {})
        /\ expect' = [expect EXCEPT ![k] = @ \ Range(args)]
        /\ Reply(removed, Cardinality(Range(args) \cap expect[k]))
        /\ UNCHANGED client
        /\ Observe

\* SPOP of n members, chosen at random.
spop(k, n, popped) ==
    LET all == MembersOf(k, meta[k].version)
    IN  /\ Matches(k)
        /\ all # {}
        /\ popped \subseteq all
        /\ Cardinality(popped) = IF n < Cardinality(all) THEN n ELSE Cardinality(all)
        /\ Batch([meta EXCEPT ![k] = Shrunk(k, Cardinality(popped))],
                 Entries(k, meta[k].version, popped), {})
        /\ expect' = [expect EXCEPT ![k] = @ \ popped]
        /\ Reply(Cardinality(popped),
                 Cardinality({m \in popped : m \in expect[k]}))
        /\ UNCHANGED client
        /\ Observe

\* SMOVE of a member that is there.  The batch takes the member out of the
\* source and, if it was not in the destination when the command looked, puts
\* it there.
smove(s, d, m) ==
    LET version == IF Fresh(d) THEN initial_meta_value ELSE meta[d].version
        there == m \in MembersOf(d, version)
        withoutIt == [meta EXCEPT ![s] = Shrunk(s, 1)]
        destMeta == IF Fresh(d) THEN SetMeta(1, version)
                    ELSE [meta[d] EXCEPT !.count = @ + 1]
    IN  /\ Matches(s)
        /\ m \in MembersOf(s, meta[s].version)
        /\ ~WrongType(d)
        /\ s = d => MayMoveToSelf
        /\ IF there
           THEN Batch(withoutIt, Entries(s, meta[s].version, {m}), {})
           ELSE Batch([withoutIt EXCEPT ![d] = destMeta],
                      Entries(s, meta[s].version, {m}), Entries(d, version, {m}))
        /\ expect' = IF s = d THEN expect
                     ELSE [expect EXCEPT ![s] = @ \ {m}, ![d] = @ \cup {m}]
        /\ Reply(1, IF m \in expect[s] THEN 1 ELSE 0)
        /\ UNCHANGED client
        /\ Observe

\* DEL leaves the meta value of a set with count 0 and a newer version.
del_key(k) ==
    /\ ~Fresh(k)
    /\ Batch([meta EXCEPT ![k] = IF @.type = "string" THEN NoMeta
                                 ELSE SetMeta(0, initial_meta_value)], {}, {})
    /\ expect' = [expect EXCEPT ![k] = {}]
    /\ Reply(1, 1)
    /\ UNCHANGED client
    /\ Observe

\* SET writes a string over anything.
set(k) ==
    /\ Batch([meta EXCEPT ![k] = [NoMeta EXCEPT !.type = "string"]], {}, {})
    /\ expect' = [expect EXCEPT ![k] = {}]
    /\ UNCHANGED <<reply, client>>
    /\ Observe

\* The time to live of a key runs out.
Lapse(k) ==
    /\ ~Fresh(k)
    /\ meta' = [meta EXCEPT ![k].expired = TRUE]
    /\ expect' = [expect EXCEPT ![k] = {}]
    /\ UNCHANGED <<clock, data, reply, client>>
    /\ Observe

-----------------------------------------------------------------------------
(* Reads: SMEMBERS, SUNION, SINTER, SDIFF, alone or inside a *STORE command. *)
(* A client goes through the program counters                               *)
(*   "size"    SINTER: reads the count of keys[i], looking for the smallest; *)
(*   "meta"    SMEMBERS of keys[cur]: reads its meta value;                  *)
(*   "iterate" SMEMBERS of keys[cur]: iterates over the version it found;    *)
(*   "lookup"  SISMEMBER of a member of left in keys[i]: reads the meta;     *)
(*   "get"     SISMEMBER: looks for the member under the version it found;   *)
(*   "result"  the answer is in acc.                                         *)

Step(c, update) ==
    /\ client' = [client EXCEPT ![c] = update]
    /\ UNCHANGED <<clock, meta, data, expect, reply>>
    /\ Observe

Start(c, op, keys, dest) ==
    /\ client[c].pc = "idle"
    /\ Step(c, [Idle EXCEPT
          !.pc = IF op = "inter" /\ Len(keys) > 1 THEN "size" ELSE "meta",
          !.op = op, !.keys = keys, !.dest = dest, !.i = 1, !.cur = 1])

Strings(members) == {from_utf8_lossy[m] : m \in members}

Answer(r, members) == [r EXCEPT !.pc = "result", !.acc = members]

\* The error of a key of the wrong type ends the command.
Failed(k, r) == IF WrongType(k) THEN Idle ELSE r

size(c) ==
    LET r == client[c]
        k == r.keys[r.i]
        smaller == r.size = 0 \/ meta[k].count < r.size
        best == [r EXCEPT !.cur = IF smaller THEN r.i ELSE @,
                          !.size = IF smaller THEN meta[k].count ELSE @]
    IN  /\ r.pc = "size"
        /\ Step(c, Failed(k,
              IF Fresh(k) THEN Answer(r, {})
              ELSE IF r.i < Len(r.keys) THEN [best EXCEPT !.i = @ + 1]
              ELSE [best EXCEPT !.pc = "meta"]))

\* SUNION goes on to the next key.
NextKey(r) ==
    IF r.cur < Len(r.keys) THEN [r EXCEPT !.pc = "meta", !.cur = @ + 1]
    ELSE [r EXCEPT !.pc = "result"]

smembers_meta(c) ==
    LET r == client[c]
        k == r.keys[r.cur]
    IN  /\ r.pc = "meta"
        /\ Step(c, Failed(k,
              IF ~Fresh(k) THEN [r EXCEPT !.pc = "iterate", !.version = meta[k].version]
              ELSE IF r.op = "union" THEN NextKey(r)
              ELSE Answer(r, {})))

\* The index of the next key after i that SINTER or SDIFF compares with: not
\* the one whose members it holds.
Other(r, i) ==
    LET later == {j \in (i + 1)..Len(r.keys) : r.keys[j] # r.keys[r.cur] \/ r.op = "diff"}
    IN  IF later = {} THEN 0 ELSE CHOOSE j \in later : \A n \in later : j <= n

\* SINTER and SDIFF compare member by member, and go on to the next member
\* once the result for this one is known.
NextMember(r) ==
    LET first == Other(r, IF r.op = "diff" THEN 1 ELSE 0)
    IN  IF r.left = {} \/ first = 0 THEN [Answer(r, Strings(r.acc)) EXCEPT !.left = {}]
        ELSE [r EXCEPT !.pc = "lookup", !.i = first]

smembers_iterate(c) ==
    LET r == client[c]
        found == MembersOf(r.keys[r.cur], r.version)
        members == IF r.op = "diff" THEN found ELSE Strings(found)
    IN  /\ r.pc = "iterate"
        /\ Step(c, IF r.op = "union" THEN NextKey([r EXCEPT !.acc = @ \cup members])
                   ELSE NextMember([r EXCEPT !.left = members, !.acc = members]))

\* The member under comparison: they are taken in a fixed order.
Current(r) == CHOOSE m \in r.left : TRUE

\* The comparison with keys[i] came out as present.
ComparedSwapped(r, present) ==
    LET m == Current(r)
        drop == present # (r.op = "diff")
    IN  IF drop THEN NextMember([r EXCEPT !.left = @ \ {m}, !.acc = @ \ {m}])
        ELSE IF Other(r, r.i) # 0 THEN [r EXCEPT !.pc = "lookup", !.i = Other(r, r.i)]
        ELSE NextMember([r EXCEPT !.left = @ \ {m}])
Compared(r, present) ==
    LET m == Current(r)
        drop == present = (r.op = "diff")
    IN  IF drop THEN NextMember([r EXCEPT !.left = @ \ {m}, !.acc = @ \ {m}])
        ELSE IF Other(r, r.i) # 0 THEN [r EXCEPT !.pc = "lookup", !.i = Other(r, r.i)]
        ELSE NextMember([r EXCEPT !.left = @ \ {m}])

sismember_meta(c) ==
    LET r == client[c]
        k == r.keys[r.i]
    IN  /\ r.pc = "lookup"
        /\ Step(c, Failed(k,
              IF Fresh(k) THEN Compared(r, FALSE)
              ELSE [r EXCEPT !.pc = "get", !.version = meta[k].version]))

sismember_get(c) ==
    LET r == client[c]
    IN  /\ r.pc = "get"
        /\ Step(c, Compared(r, Current(r) \in MembersOf(r.keys[r.i], r.version)))

\* SMEMBERS, SUNION, SINTER and SDIFF return their answer.
Return(c) ==
    /\ client[c].pc = "result"
    /\ client[c].dest = NoDestination
    /\ Step(c, Idle)

clear_and_store_setLeaky(c) ==
    LET r == client[c]
        d == r.dest
    IN  /\ r.pc = "result"
        /\ d # NoDestination
        /\ Batch([meta EXCEPT ![d] =
                     IF r.acc = {} THEN NoMeta
                     ELSE SetMeta(Cardinality(r.acc),
                                  IF Matches(d) THEN @.version ELSE initial_meta_value)],
                 {},
                 Entries(d, IF Matches(d) THEN meta[d].version ELSE initial_meta_value, r.acc))
        /\ expect' = [expect EXCEPT ![d] = r.acc]
        /\ Reply(Cardinality(r.acc), Cardinality(r.acc))
        /\ client' = [client EXCEPT ![c] = Idle]
        /\ Observe
\* A *STORE command takes the lock of its destination, deletes the members of
\* the set that is there and writes the answer under a new version.  A value
\* of another type is overwritten.
clear_and_store_set(c) ==
    LET r == client[c]
        d == r.dest
    IN  /\ r.pc = "result"
        /\ d # NoDestination
        /\ Batch([meta EXCEPT ![d] = IF r.acc = {} THEN NoMeta
                     ELSE SetMeta(Cardinality(r.acc), initial_meta_value)],
                 Entries(d, meta[d].version, IF Matches(d) THEN Contents(d) ELSE {}),
                 Entries(d, initial_meta_value, r.acc))
        /\ expect' = [expect EXCEPT ![d] = r.acc]
        /\ Reply(Cardinality(r.acc), Cardinality(r.acc))
        /\ client' = [client EXCEPT ![c] = Idle]
        /\ Observe

-----------------------------------------------------------------------------

Init ==
    /\ clock = 1
    /\ meta = [k \in Keys |-> NoMeta]
    /\ data = {}
    /\ client = [c \in Clients |-> Idle]
    /\ expect = [k \in Keys |-> {}]
    /\ reply = 0
    /\ seen = [c \in Clients |-> NoView]

Write ==
    \E k \in Keys :
        \/ \E args \in SaddArgs : sadd(k, args)
        \/ \E args \in SremArgs : srem(k, args)
        \/ \E n \in 1..Cardinality(Members), popped \in SUBSET Members : spop(k, n, popped)
        \/ \E d \in Keys, m \in Members : smove(k, d, m)
        \/ del_key(k)
        \/ set(k)
        \/ Lapse(k)

Read(c) ==
    \/ \E op \in {"union", "inter", "diff"}, keys \in Queries,
          dest \in Destinations \cup {NoDestination} : Start(c, op, keys, dest)
    \/ size(c)
    \/ smembers_meta(c)
    \/ smembers_iterate(c)
    \/ sismember_meta(c)
    \/ sismember_get(c)
    \/ Return(c)
    \/ clear_and_store_set(c)

Next == Write \/ \E c \in Clients : Read(c)

Spec == Init /\ [][Next]_vars

-----------------------------------------------------------------------------
(* Properties. *)

\* Every key holds the set its commands should have left there: SADD, SREM,
\* SPOP, SMOVE and *STORE act on the live version of the set only, and on all
\* of it (sadd, srem, spop, smove, clear_and_store_set).  SCARD, which answers
\* from the meta value, is the number of members, and the reply of a command
\* is the number of members that changed.
SetsAsExpected ==
    /\ \A k \in Keys : Contents(k) = expect[k]
    /\ \A k \in Keys : Matches(k) => meta[k].count = Cardinality(Contents(k))
    /\ reply = 0

Always(c) == LET ks == client[c].keys IN [i \in DOMAIN ks |-> seen[c].always[ks[i]]]
Ever(c) == LET ks == client[c].keys IN [i \in DOMAIN ks |-> seen[c].ever[ks[i]]]
InAll(sets) == {m \in Members : \A i \in DOMAIN sets : m \in sets[i]}
InSome(sets, from) == {m \in Members : \E i \in DOMAIN sets : i >= from /\ m \in sets[i]}

\* The answer of a read that takes several steps without a lock (smembers,
\* sunion, sinter, sdiff): a member that was in a set all the time counts as in
\* it, and one that was never in it does not.
ReadsAreRegular ==
    \A c \in Clients :
        LET answer == client[c].acc
        IN  client[c].pc = "result" =>
            CASE client[c].op = "union" ->
                    /\ InSome(Always(c), 1) \subseteq answer
                    /\ answer \subseteq InSome(Ever(c), 1)
              [] client[c].op = "inter" ->
                    /\ InAll(Always(c)) \subseteq answer
                    /\ answer \subseteq InAll(Ever(c))
              [] client[c].op = "diff" ->
                    /\ Always(c)[1] \ InSome(Ever(c), 2) \subseteq answer
                    /\ answer \subseteq Ever(c)[1] \ InSome(Always(c), 2)

=============================================================================
