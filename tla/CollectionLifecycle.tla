------------------------ MODULE CollectionLifecycle ------------------------
(***************************************************************************)
(* The life of a collection (hash, set or vector set) in one RocksDB        *)
(* instance.  A collection is a meta value in the default column family     *)
(* (count, version, expiry time) and one entry per member in a data column  *)
(* family, stored under the version of the collection it was written to.    *)
(* DEL and expiry never touch the members: they change the meta value, and  *)
(* two compaction filters remove the members of dead versions later, while  *)
(* commands run.                                                            *)
(*                                                                          *)
(* A compaction reads a fixed input, decides entry by entry, and installs   *)
(* its result at the end.  An entry that a command writes again meanwhile   *)
(* is newer than the input and survives.  A filter looks up the meta value  *)
(* of a key once and keeps it for the following entries of that key.        *)
(*                                                                          *)
(* Time is in microseconds, as Utc::now().timestamp_micros() returns it.    *)
(* A committed write takes at least one of them.                            *)
(***************************************************************************)
EXTENDS Integers, FiniteSets

CONSTANTS
    Keys,             \* user keys
    Members,          \* members (fields, elements) of a collection
    Kinds,            \* the kinds of collection: of "set", "hash" and "vector"
    FaultyKinds,      \* those whose filter may fail to read a meta value
    MaxSteps,         \* bound on the microseconds that pass
    MaxTtl,           \* bound on the time to live EXPIRE gives
    MayRetime         \* may EXPIRE or PERSIST hit a key the filter has cached?

NoKey == "no key"

ASSUME KeyAssumption == NoKey \notin Keys
ASSUME KindAssumption ==
    FaultyKinds \subseteq Kinds /\ Kinds \subseteq {"set", "hash", "vector"}
ASSUME BoundAssumption == MaxSteps \in Nat /\ MaxTtl \in Nat \ {0}
ASSUME ScopeAssumption == MayRetime \in BOOLEAN

VARIABLES
    kind,     \* what the collections of this behaviour are
    clock,    \* the system clock
    meta,     \* the default column family: a meta value for every key
    data,     \* the data column family: a set of entries
    next_generation, \* the vector generation allocator of the manifest
    db,       \* "opening" until db_once_cell holds the handle, then "open"
    filter,   \* the data compaction in progress and its filter
    expect    \* history: what clients wrote, [members, etime] for every key

vars == <<kind, clock, meta, data, next_generation, db, filter, expect>>

\* Vector generations count from 1 and stay far below the clock.
FirstInstant == 100

LastInstant == FirstInstant + MaxSteps

NoMeta == [type |-> "none", count |-> 0, version |-> 0, etime |-> 0]

StringMeta == [NoMeta EXCEPT !.type = "string"]

IdleFilter ==
    [running |-> FALSE, db |-> FALSE, input |-> {}, removed |-> {},
     cur_key |-> NoKey, meta_not_found |-> FALSE, cur_meta_version |-> 0,
     cur_meta_etime |-> 0, garbage |-> {}]

Entry(k, v, m) == [key |-> k, version |-> v, member |-> m]

-----------------------------------------------------------------------------
(* Meta values. *)

Past(etime) == etime # 0 /\ etime < clock

is_stale(v) == (v.type = "collection" /\ v.count = 0) \/ Past(v.etime)

check_type_state(k) ==
    IF meta[k] = NoMeta THEN "Missing"
    ELSE IF is_stale(meta[k]) THEN "Stale"
    ELSE IF meta[k].type = "collection" THEN "Match" ELSE "WrongType"

Fresh(k) == check_type_state(k) \in {"Missing", "Stale"}

Matches(k) == check_type_state(k) = "Match"

update_versionStuck(v) == IF v = 0 THEN clock ELSE v
update_version(v) == IF v >= clock THEN v + 1 ELSE clock

\* The version of a new collection: hashes and sets start from version 0,
\* vector sets take a generation from the manifest.
FirstVersion == IF kind = "vector" THEN next_generation ELSE update_version(0)

allocate_generation ==
    next_generation' = IF kind = "vector" THEN next_generation + 1
                       ELSE next_generation

-----------------------------------------------------------------------------
(* Commands.  Each holds the record lock of its key and commits one batch. *)

Commit == db = "open" /\ clock < LastInstant /\ clock' = clock + 1 /\ UNCHANGED db

\* A batch puts or deletes these entries: the input of the running compaction
\* no longer decides about them.
Overwrite(entries) ==
    filter' = [filter EXCEPT !.input = @ \ entries, !.removed = @ \ entries]

\* SADD, HSET or VADD of one member to a missing, deleted or expired key.
Create(k, m) ==
    LET e == Entry(k, FirstVersion, m)
    IN  /\ Commit
        /\ Fresh(k)
        /\ allocate_generation
        /\ meta' = [meta EXCEPT ![k] =
              [type |-> "collection", count |-> 1, version |-> FirstVersion,
               etime |-> 0]]
        /\ data' = data \cup {e}
        /\ Overwrite({e})
        /\ expect' = [expect EXCEPT ![k] = [members |-> {m}, etime |-> 0]]

\* SADD, HSET or VADD of a member to a live collection.  SADD leaves a member
\* that is there alone; HSET and VADD write it again.
Add(k, m) ==
    LET e == Entry(k, meta[k].version, m)
    IN  /\ Commit
        /\ Matches(k)
        /\ e \in data => kind # "set"
        /\ meta' = [meta EXCEPT ![k].count = IF e \in data THEN @ ELSE @ + 1]
        /\ data' = data \cup {e}
        /\ Overwrite({e})
        /\ expect' = [expect EXCEPT ![k].members = @ \cup {m}]
        /\ UNCHANGED next_generation

\* SREM, HDEL or VREM of one member.  The last one takes the meta value with
\* it, except in a hash, which stays with count 0.
Remove(k, m) ==
    LET e == Entry(k, meta[k].version, m)
    IN  /\ Commit
        /\ Matches(k)
        /\ e \in data
        /\ meta' = [meta EXCEPT ![k] =
              IF meta[k].count = 1 /\ kind # "hash" THEN NoMeta
              ELSE [meta[k] EXCEPT !.count = meta[k].count - 1]]
        /\ data' = data \ {e}
        /\ Overwrite({e})
        /\ expect' = [expect EXCEPT ![k].members = @ \ {m}]
        /\ UNCHANGED next_generation

Deleted(k) == [members |-> {}, etime |-> 0]

\* DEL: a string goes, a collection leaves a meta value with count 0 and a
\* newer version.
Del(k) ==
    /\ Commit
    /\ ~Fresh(k)
    /\ meta' = [meta EXCEPT ![k] =
          IF meta[k].type = "string" THEN NoMeta
          ELSE [meta[k] EXCEPT !.count = 0, !.etime = 0,
                               !.version = update_version(meta[k].version)]]
    /\ expect' = [expect EXCEPT ![k] = Deleted(k)]
    /\ UNCHANGED <<data, next_generation, filter>>

\* SET overwrites the meta value of any type without reading it.
SetString(k) ==
    /\ Commit
    /\ meta' = [meta EXCEPT ![k] = StringMeta]
    /\ expect' = [expect EXCEPT ![k] = Deleted(k)]
    /\ UNCHANGED <<data, next_generation, filter>>

\* The scope of MayRetime.
Retimable(k) == MayRetime \/ filter.cur_key # k

\* set_key_etime, which EXPIRE and PERSIST share.
set_key_etime(k, etime) ==
    /\ Commit
    /\ ~Fresh(k)
    /\ Retimable(k)
    /\ meta' = [meta EXCEPT ![k].etime = etime]
    /\ expect' = [expect EXCEPT ![k].etime = etime]
    /\ UNCHANGED <<data, next_generation, filter>>

Expire(k, ttl) == set_key_etime(k, clock + ttl)

Persist(k) == meta[k].etime # 0 /\ set_key_etime(k, 0)

-----------------------------------------------------------------------------
(* Compactions. *)

\* MetaCompactionFilter removes a dead meta value.
MetaFilter(k) ==
    /\ meta[k] # NoMeta
    /\ \/ Past(meta[k].etime)
       \/ /\ meta[k].type = "collection"
          /\ meta[k].count = 0
          /\ meta[k].version < clock
    /\ meta' = [meta EXCEPT ![k] = NoMeta]
    /\ UNCHANGED <<clock, data, next_generation, db, filter, expect>>

\* The entries a client can still read.
Live(e) == Matches(e.key) /\ e.version = meta[e.key].version

\* RocksDB starts a compaction of the data column family; the factory hands
\* its filter the database handle if there is one yet.
StartCompaction(input) ==
    /\ ~filter.running
    /\ db = "open" \/ kind \in FaultyKinds
    /\ filter' = [IdleFilter EXCEPT
          !.running = TRUE, !.db = (db = "open"), !.input = input,
          !.garbage = {e \in input : ~Live(e)}]
    /\ UNCHANGED <<clock, meta, data, next_generation, db, expect>>

\* Entries of one key come one after the other.
InOrder(e) ==
    e.key = filter.cur_key \/ \A f \in filter.input : f.key # filter.cur_key

\* The filter after it has looked up the meta value of a key it has not cached.
ensure_meta_state(k) ==
    [filter EXCEPT
       !.cur_key = k,
       !.meta_not_found = meta[k].type # "collection",
       !.cur_meta_version = IF meta[k].type = "collection" THEN meta[k].version ELSE 0,
       !.cur_meta_etime = IF meta[k].type = "collection" THEN meta[k].etime ELSE 0]

\* A lookup without a handle, or one that fails, leaves the cleared cache
\* behind for the entries that follow.
meta_unavailable(k) ==
    [filter EXCEPT !.cur_key = k, !.meta_not_found = FALSE,
                   !.cur_meta_version = 0, !.cur_meta_etime = 0]

DecideLate(f, e) ==
    \/ f.meta_not_found
    \/ Past(f.cur_meta_etime)
    \/ f.cur_meta_version >= e.version
\* Is this entry removed?
Decide(f, e) ==
    \/ f.meta_not_found
    \/ Past(f.cur_meta_etime)
    \/ IF kind = "vector" THEN f.cur_meta_version # e.version
       ELSE f.cur_meta_version > e.version

Decided(f, e) ==
    [f EXCEPT !.input = @ \ {e},
              !.removed = IF Decide(f, e) THEN @ \cup {e} ELSE @]

\* The filter decides about an entry whose meta value it can know.
FilterEntry(e) ==
    /\ filter.running
    /\ InOrder(e)
    /\ e.key = filter.cur_key \/ filter.db
    /\ filter' = Decided(IF e.key = filter.cur_key THEN filter
                         ELSE ensure_meta_state(e.key), e)
    /\ UNCHANGED <<clock, meta, data, next_generation, db, expect>>

\* It keeps an entry whose meta value it cannot look up.
FilterKeepsUnknown(e) ==
    /\ filter.running
    /\ InOrder(e)
    /\ e.key # filter.cur_key
    /\ ~filter.db \/ kind \in FaultyKinds
    /\ filter' = [meta_unavailable(e.key) EXCEPT
          !.input = @ \ {e}, !.garbage = {f \in @ : f.key # e.key}]
    /\ UNCHANGED <<clock, meta, data, next_generation, db, expect>>

\* The compaction installs its output.
FinishCompaction ==
    /\ filter.running
    /\ filter.input = {}
    /\ data' = data \ filter.removed
    /\ filter' = IdleFilter
    /\ UNCHANGED <<clock, meta, next_generation, db, expect>>

-----------------------------------------------------------------------------
(* The process stops, which discards a running compaction, and opens again. *)

Restart ==
    /\ db = "open"
    /\ db' = "opening"
    /\ filter' = IdleFilter
    /\ UNCHANGED <<clock, meta, data, next_generation, expect>>

OpenFinished ==
    /\ db = "opening"
    /\ db' = "open"
    /\ UNCHANGED <<clock, meta, data, next_generation, filter, expect>>

Tick ==
    /\ clock < LastInstant
    /\ clock' = clock + 1
    /\ UNCHANGED <<meta, data, next_generation, db, filter, expect>>

Init ==
    /\ kind \in Kinds
    /\ clock = FirstInstant
    /\ meta = [k \in Keys |-> NoMeta]
    /\ data = {}
    /\ next_generation = 1
    /\ db = "opening"
    /\ filter = IdleFilter
    /\ expect = [k \in Keys |-> Deleted(k)]

Command(k) ==
    \/ \E m \in Members : Create(k, m) \/ Add(k, m) \/ Remove(k, m)
    \/ Del(k)
    \/ SetString(k)
    \/ \E ttl \in 1..MaxTtl : Expire(k, ttl)
    \/ Persist(k)

Compaction ==
    \/ \E k \in Keys : MetaFilter(k)
    \/ \E input \in SUBSET data \ {{}} : StartCompaction(input)
    \/ \E e \in filter.input : FilterEntry(e) \/ FilterKeepsUnknown(e)
    \/ FinishCompaction

Next ==
    /\ \/ \E k \in Keys : Command(k)
       \/ Compaction
       \/ Restart
       \/ OpenFinished
       \/ Tick
    /\ UNCHANGED kind

Spec == Init /\ [][Next]_vars

-----------------------------------------------------------------------------
(* Properties. *)

\* What SMEMBERS, HKEYS or a VSIM scan finds under a key.
ReadMembers(k) ==
    IF Matches(k) THEN {e.member : e \in {f \in data : f.key = k /\ Live(f)}}
    ELSE {}

\* A client reads exactly the members it added since the key was last
\* created, deleted, overwritten or expired: no compaction takes a live member
\* (DataCompactionFilter::filter, MetaCompactionFilter::filter) and no member
\* of an earlier life of the key comes back (update_version).  SCARD, HLEN and
\* VCARD, which answer from the count in the meta value, agree with the entries.
MembersPreserved ==
    \A k \in Keys :
        /\ ReadMembers(k) = IF Past(expect[k].etime) THEN {} ELSE expect[k].members
        /\ Matches(k) => meta[k].count = Cardinality(ReadMembers(k))

\* A compaction removes every entry of its input that was dead when it
\* started, unless the meta value of its key could not be read: a deleted,
\* expired or overwritten collection gives its space back (the old generation
\* in DataCompactionFilter::filter).
GarbageCollected ==
    filter.running /\ filter.input = {} => filter.garbage \subseteq filter.removed

=============================================================================
