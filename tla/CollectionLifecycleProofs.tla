--------------------- MODULE CollectionLifecycleProofs ---------------------
(***************************************************************************)
(* The life of collections, for any number of keys and members and for     *)
(* behaviours of any length.                                               *)
(*                                                                         *)
(* A compaction removes what was dead when it started because a dead entry *)
(* stays dead: a new collection takes a version that no stored entry has.  *)
(* It removes nothing else because what the filter has cached of a key     *)
(* still fits the entries of its input that are alive.                     *)
(***************************************************************************)
EXTENDS CollectionLifecycle, FiniteSetTheorems, TLAPS

Metas == [type : {"none", "string", "collection"}, count : Nat, version : Nat, etime : Nat]
Entries == [key : Keys, version : Nat, member : Members]
Filters ==
    [running : BOOLEAN, db : BOOLEAN, input : SUBSET Entries, removed : SUBSET Entries,
     cur_key : Keys \cup {NoKey}, meta_not_found : BOOLEAN, cur_meta_version : Nat,
     cur_meta_etime : Nat, garbage : SUBSET Entries]
Expectations == [members : SUBSET Members, etime : Nat]

Typed ==
    /\ kind \in {"set", "hash", "vector"}
    /\ clock \in Nat
    /\ meta \in [Keys -> Metas]
    /\ data \in SUBSET Entries
    /\ next_generation \in Nat
    /\ filter \in Filters
    /\ expect \in [Keys -> Expectations]

IsCollection(k) == meta[k].type = "collection"

\* The members stored under the version of the meta value.
Present(k) == {m \in Members : Entry(k, meta[k].version, m) \in data}

\* The version of a collection that is created next is new, and DEL leaves a
\* version that is newer than every entry.
NextVersion == IF kind = "vector" THEN next_generation ELSE clock

Versions ==
    /\ 0 < next_generation /\ next_generation < clock
    /\ \A e \in data : e.version < NextVersion
    /\ \A k \in Keys : IsCollection(k) => meta[k].version < clock
    /\ \A k \in Keys : IsCollection(k) /\ meta[k].count # 0 => meta[k].version < NextVersion
    /\ \A e \in data : kind # "vector" /\ IsCollection(e.key) => e.version <= meta[e.key].version

\* A meta value counts at least the entries that are there.
CountedAt(k) ==
    IsCollection(k) => IsFiniteSet(Present(k)) /\ Cardinality(Present(k)) <= meta[k].count

Counted == \A k \in Keys : CountedAt(k)

\* What was dead when the compaction started is still there and dead, and is
\* removed once the filter comes to it.
Collecting ==
    /\ filter.input \subseteq data /\ filter.removed \subseteq data /\ filter.garbage \subseteq data
    /\ filter.garbage \subseteq filter.input \cup filter.removed
    /\ \A e \in filter.garbage : ~Live(e)
    /\ \A e \in filter.garbage \cap filter.input : e.key = filter.cur_key => Decide(filter, e)

IInv == Typed /\ Versions /\ Counted /\ Collecting

\* A live collection holds what clients wrote, and the key of any other one
\* has no members, or has expired.
FaithfulAt(k) ==
    /\ Matches(k) => /\ Present(k) = expect[k].members
                     /\ meta[k].count = Cardinality(Present(k))
                     /\ meta[k].etime = expect[k].etime
    /\ ~Matches(k) => expect[k].members = {} \/ Past(expect[k].etime)
    /\ meta[k].type = "string" => expect[k].members = {}
    /\ meta[k].type = "none" => meta[k] = NoMeta

Faithful == \A k \in Keys : FaithfulAt(k)

\* No live entry is removed, and what is cached of a key fits its live entries:
\* the version, unless the meta value could not be read, and the expiry time.
Sparing ==
    /\ filter.running => filter.db \/ kind \in FaultyKinds
    /\ \A e \in filter.removed : ~Live(e)
    /\ \A e \in filter.input : e.key = filter.cur_key /\ Live(e) =>
        /\ ~filter.meta_not_found
        /\ \/ filter.cur_meta_version = e.version
           \/ filter.cur_meta_version = 0 /\ kind \in FaultyKinds
        /\ filter.cur_meta_etime \in {0, meta[e.key].etime}

Kept == Faithful /\ Sparing

\* The filter can read the meta values of vector sets, and no EXPIRE or PERSIST
\* hits a key while the filter has its meta value cached.
InScope == ~MayRetime /\ "vector" \notin FaultyKinds

-----------------------------------------------------------------------------
(* What the states of a meta value mean. *)

LEMMA MatchMeans ==
    ASSUME Typed, NEW k \in Keys
    PROVE  Matches(k) <=> IsCollection(k) /\ meta[k].count # 0 /\ ~Past(meta[k].etime)
BY DEF Typed, Metas, Matches, check_type_state, is_stale, IsCollection, NoMeta

LEMMA MatchMeansNext ==
    ASSUME Typed', NEW k \in Keys
    PROVE  Matches(k)' <=> IsCollection(k)' /\ meta'[k].count # 0 /\ ~Past(meta[k].etime)'
BY DEF Typed, Metas, Matches, check_type_state, is_stale, IsCollection, NoMeta

LEMMA FreshMeans ==
    ASSUME Typed, NEW k \in Keys
    PROVE  /\ Fresh(k) => ~Matches(k)
           /\ ~Fresh(k) => /\ meta[k] # NoMeta /\ ~Past(meta[k].etime)
                           /\ IsCollection(k) => Matches(k)
BY Zenon DEF Typed, Metas, Fresh, Matches, check_type_state, is_stale, IsCollection, NoMeta

LEMMA OverwriteTyped ==
    ASSUME NEW f \in Filters, NEW E
    PROVE  [f EXCEPT !.input = @ \ E, !.removed = @ \ E] \in Filters
BY Zenon DEF Filters

\* What is past stays past.
LEMMA PastStays ==
    ASSUME clock \in Nat, clock' \in {clock, clock + 1}, NEW etime \in Nat, Past(etime)
    PROVE  etime # 0 /\ etime < clock'
BY DEF Past

\* A key that a step does not touch keeps what holds of it, or expires.
LEMMA Elsewhere ==
    ASSUME Typed, Typed', Counted, clock' \in {clock, clock + 1}, NEW k,
           \A j \in Keys \ {k} : meta'[j] = meta[j] /\ expect'[j] = expect[j],
           \A e \in Entries : e.key # k => (e \in data' <=> e \in data),
           NEW j \in Keys, j # k
    PROVE  CountedAt(j)' /\ (FaithfulAt(j) => FaithfulAt(j)')
<1>1. meta'[j] = meta[j] /\ expect'[j] = expect[j] /\ meta[j] \in Metas /\ expect[j] \in Expectations
    BY Zenon DEF Typed
<1>2. Present(j)' = Present(j)
    <2>1. \A m \in Members : Entry(j, meta[j].version, m) \in Entries /\ Entry(j, meta[j].version, m).key = j
        BY <1>1, Zenon DEF Entry, Entries, Metas
    <2>2. \A m \in Members : Entry(j, meta[j].version, m) \in data' <=> Entry(j, meta[j].version, m) \in data
        BY <2>1, Zenon
    <2> QED BY <1>1, <2>2, Zenon DEF Present, Entry
<1>3. CountedAt(j)'
    BY <1>1, <1>2, Zenon DEF Counted, CountedAt, IsCollection
<1>4. ASSUME FaithfulAt(j) PROVE FaithfulAt(j)'
    <2>1. Past(meta[j].etime) => Past(meta[j].etime)'
        BY <1>1, PastStays, Zenon DEF Typed, Metas, Past
    <2>2. Past(expect[j].etime) => Past(expect[j].etime)'
        BY <1>1, PastStays, Zenon DEF Typed, Expectations, Past
    <2>3. Matches(j)' => Matches(j)
        BY <1>1, <2>1, MatchMeans, MatchMeansNext, Zenon DEF IsCollection
    <2>4. Matches(j) /\ ~Matches(j)' => Past(meta[j].etime)'
        BY <1>1, MatchMeans, MatchMeansNext, Zenon DEF IsCollection
    <2>5. Matches(j) /\ ~Matches(j)' => Past(expect[j].etime)'
        BY <1>1, <1>4, <2>4, Zenon DEF FaithfulAt, Past
    <2> QED BY <1>1, <1>2, <1>4, <2>2, <2>3, <2>5, Zenon DEF FaithfulAt
<1> QED BY <1>3, <1>4, Zenon

\* An entry of a key that a step does not touch does not come to life.
LEMMA NotRevived ==
    ASSUME Typed, Typed', clock' \in {clock, clock + 1}, NEW e \in Entries,
           meta'[e.key] = meta[e.key], Live(e)'
    PROVE  Live(e)
<1>1. e.key \in Keys /\ meta[e.key] \in Metas
    BY Zenon DEF Entries, Typed
<1>2. Past(meta[e.key].etime) => Past(meta[e.key].etime)'
    BY <1>1, PastStays, Zenon DEF Typed, Metas, Past
<1>3. Matches(e.key)' => Matches(e.key)
    BY <1>1, <1>2, MatchMeans, MatchMeansNext, Zenon DEF IsCollection
<1> QED BY <1>3, Zenon DEF Live

\* Versions stay in order if those of the key that a step changes do.
LEMMA VersionsFollow ==
    ASSUME IInv, Typed', kind' = kind, clock' \in {clock, clock + 1},
           next_generation' \in {next_generation, next_generation + 1}, next_generation' < clock',
           NEW k, \A j \in Keys \ {k} : meta'[j] = meta[j],
           \A d \in data' : d \in data \/ (d.key = k /\ d.version = meta'[k].version /\ meta'[k].version < NextVersion'),
           k \in Keys /\ IsCollection(k)' =>
               /\ meta'[k].version < clock'
               /\ meta'[k].count # 0 => meta'[k].version < NextVersion'
               /\ \A d \in data : d.key = k /\ kind # "vector" => d.version <= meta'[k].version
    PROVE  Versions'
<1>1. /\ clock \in Nat /\ clock' \in Nat /\ next_generation \in Nat /\ next_generation' \in Nat
      /\ \A j \in Keys : meta[j].version \in Nat /\ meta'[j].version \in Nat
      /\ \A d \in data \cup data' : d.key \in Keys /\ d.version \in Nat
    BY Zenon DEF IInv, Typed, Metas, Entries
<1>2. NextVersion <= NextVersion' /\ NextVersion \in Nat /\ NextVersion' \in Nat
    BY <1>1 DEF NextVersion
<1>3. 0 < next_generation'
    BY <1>1 DEF IInv, Versions
<1>4. \A d \in data' : d.version < NextVersion'
    BY <1>1, <1>2 DEF IInv, Versions
<1>5. \A j \in Keys : /\ IsCollection(j)' => meta'[j].version < clock'
                      /\ IsCollection(j)' /\ meta'[j].count # 0 => meta'[j].version < NextVersion'
    BY <1>1, <1>2 DEF IInv, Versions, IsCollection
<1>6. \A d \in data' : kind' # "vector" /\ IsCollection(d.key)' => d.version <= meta'[d.key].version
    BY <1>1 DEF IInv, Versions, IsCollection
<1> QED BY <1>3, <1>4, <1>5, <1>6, Zenon DEF Versions

\* A filter lets go of the entries that a command writes or deletes.  What it
\* has cached keeps its meaning as long as no entry comes to life and no live
\* entry of the cached key changes its expiry time.
LEMMA FilterFollows ==
    ASSUME IInv, Typed', kind' = kind, clock' \in {clock, clock + 1}, NEW E,
           filter' = [filter EXCEPT !.input = @ \ E, !.removed = @ \ E],
           data \ E \subseteq data', E \cap filter.garbage = {},
           \A e \in data \ E : Live(e)' => Live(e)
    PROVE  /\ Collecting'
           /\ (\A e \in data \ E : Live(e)' /\ e.key = filter.cur_key => meta'[e.key].etime = meta[e.key].etime)
              /\ Sparing => Sparing'
<1>1. /\ filter'.input = filter.input \ E /\ filter'.removed = filter.removed \ E
      /\ filter'.garbage = filter.garbage /\ filter'.cur_key = filter.cur_key
      /\ filter'.meta_not_found = filter.meta_not_found
      /\ filter'.cur_meta_version = filter.cur_meta_version
      /\ filter'.cur_meta_etime = filter.cur_meta_etime
      /\ filter'.running = filter.running /\ filter'.db = filter.db
      /\ filter.cur_meta_etime \in Nat
    BY Zenon DEF IInv, Typed, Filters
<1>2. \A e : Decide(filter, e) => Decide(filter, e)'
    <2>1. Past(filter.cur_meta_etime) => Past(filter.cur_meta_etime)'
        BY <1>1, PastStays, Zenon DEF Past, IInv, Typed
    <2> QED BY <1>1, <2>1, Zenon DEF Decide
<1>3. Collecting'
    BY <1>1, <1>2, Zenon DEF IInv, Collecting
<1>4. ASSUME \A e \in data \ E : Live(e)' /\ e.key = filter.cur_key => meta'[e.key].etime = meta[e.key].etime,
             Sparing
      PROVE  Sparing'
    BY <1>1, <1>4 DEF IInv, Collecting, Sparing
<1> QED BY <1>3, <1>4, Zenon

-----------------------------------------------------------------------------
(* Commands. *)

\* A new collection has a version that no entry has.
LEMMA CreateSafe ==
    ASSUME IInv, NEW k \in Keys, NEW m \in Members, Create(k, m), kind' = kind
    PROVE  IInv' /\ (Kept => Kept')
<1> DEFINE v == FirstVersion
           e == Entry(k, v, m)
           mv == [type |-> "collection", count |-> 1, version |-> v, etime |-> 0]
<1>1. /\ clock' = clock + 1 /\ clock \in Nat /\ next_generation \in Nat /\ data' = data \cup {e}
      /\ meta' = [meta EXCEPT ![k] = mv] /\ next_generation' = IF kind = "vector" THEN next_generation + 1 ELSE next_generation
      /\ filter' = [filter EXCEPT !.input = @ \ {e}, !.removed = @ \ {e}]
      /\ expect' = [expect EXCEPT ![k] = [members |-> {m}, etime |-> 0]]
    BY Zenon DEF Create, Commit, Overwrite, allocate_generation, IInv, Typed
<1>2. v = (IF kind = "vector" THEN next_generation ELSE clock) /\ v \in Nat /\ v < clock'
    BY <1>1 DEF FirstVersion, update_version, IInv, Versions
<1> HIDE DEF v
<1>3. e \in Entries /\ e.key = k /\ e.version = v /\ e.member = m /\ mv \in Metas
    BY <1>2, Zenon DEF Entry, Entries, Metas
<1>4. \A d \in data : d.version < v
    BY <1>2, Zenon DEF IInv, Versions, NextVersion
<1>5. Typed'
    <2>1. filter' \in Filters BY <1>1, OverwriteTyped, Zenon DEF IInv, Typed
    <2>2. [members |-> {m}, etime |-> 0] \in Expectations BY Zenon DEF Expectations
    <2> QED BY <1>1, <1>3, <2>1, <2>2 DEF IInv, Typed
<1>6. meta'[k] = mv /\ \A j \in Keys \ {k} : meta'[j] = meta[j] /\ expect'[j] = expect[j]
    BY <1>1, Zenon DEF IInv, Typed
<1>7. data \subseteq Entries /\ \A d \in data : d.key \in Keys /\ d.version \in Nat
    BY Zenon DEF IInv, Typed, Entries
<1>8. Versions'
    <2>1. v < NextVersion' BY <1>1, <1>2 DEF NextVersion
    <2>2. \A d \in data' : d \in data \/ (d.key = k /\ d.version = meta'[k].version) BY <1>1, <1>3, <1>6
    <2>3. \A d \in data : d.version <= meta'[k].version BY <1>2, <1>4, <1>6, <1>7
    <2>4. next_generation' < clock' BY <1>1 DEF IInv, Versions
    <2> QED BY <1>1, <1>2, <1>5, <1>6, <2>1, <2>2, <2>3, <2>4, VersionsFollow
<1>9. Present(k)' = {m}
    <2>1. \A n \in Members : Entry(k, v, n) \in data' <=> n = m
        BY <1>1, <1>2, <1>4 DEF Entry
    <2> QED BY <1>6, <2>1 DEF Present, Entry
<1>10. CountedAt(k)' /\ FaithfulAt(k)'
    <2>1. IsFiniteSet({m}) /\ Cardinality({m}) = 1 BY FS_Singleton, Zenon
    <2>2. expect'[k] = [members |-> {m}, etime |-> 0] BY <1>1, Zenon DEF IInv, Typed
    <2>3. Matches(k)' BY <1>5, <1>6, MatchMeansNext DEF IsCollection, Past
    <2> QED BY <1>6, <1>9, <2>1, <2>2, <2>3 DEF CountedAt, FaithfulAt
<1>11. Counted' /\ (Faithful => Faithful')
    <2>1. \A d \in Entries : d.key # k => (d \in data' <=> d \in data) BY <1>1, <1>3, Zenon
    <2>2. \A j \in Keys \ {k} : CountedAt(j)' /\ (FaithfulAt(j) => FaithfulAt(j)')
        BY <1>1, <1>5, <1>6, <2>1, Elsewhere, Zenon DEF IInv
    <2> QED BY <1>10, <2>2, Zenon DEF Counted, Faithful
<1>12. \A d \in data \ {e} : Live(d)' => Live(d) /\ d.key # k
    <2> SUFFICES ASSUME NEW d \in data, Live(d)' PROVE Live(d) /\ d.key # k BY Zenon
    <2>1. d.key # k BY <1>2, <1>4, <1>6, <1>7 DEF Live
    <2> QED BY <1>1, <1>5, <1>6, <1>7, <2>1, NotRevived, Zenon DEF IInv
<1>13. Collecting' /\ (Sparing => Sparing')
    <2>1. {e} \cap filter.garbage = {} BY <1>2, <1>3, <1>4 DEF IInv, Collecting
    <2>2. data \ {e} \subseteq data' BY <1>1, Zenon
    <2>3. \A d \in data \ {e} : Live(d)' => meta'[d.key].etime = meta[d.key].etime
        BY <1>6, <1>7, <1>12, Zenon
    <2> QED BY <1>1, <1>5, <1>12, <2>1, <2>2, <2>3, FilterFollows, Zenon
<1> QED BY <1>5, <1>8, <1>11, <1>13, Zenon DEF IInv, Kept


\* A member is added to a live collection, or written again.
LEMMA AddSafe ==
    ASSUME IInv, NEW k \in Keys, NEW m \in Members, Add(k, m), kind' = kind
    PROVE  IInv' /\ (Kept => Kept')
<1> DEFINE v == meta[k].version
           e == Entry(k, v, m)
           n == IF e \in data THEN meta[k].count ELSE meta[k].count + 1
           mv == [meta[k] EXCEPT !.count = n]
           x == [expect[k] EXCEPT !.members = @ \cup {m}]
<1>1. /\ clock' = clock + 1 /\ clock \in Nat /\ next_generation' = next_generation
      /\ data' = data \cup {e} /\ Matches(k)
      /\ filter' = [filter EXCEPT !.input = @ \ {e}, !.removed = @ \ {e}]
    BY Zenon DEF Add, Commit, Overwrite, IInv, Typed
<1>2. meta' = [meta EXCEPT ![k] = mv] /\ expect' = [expect EXCEPT ![k] = x]
    BY Zenon DEF Add, IInv, Typed
<1>3. meta[k] \in Metas /\ expect[k] \in Expectations
    BY Zenon DEF IInv, Typed
<1>4. /\ v \in Nat /\ mv \in Metas /\ mv.version = v /\ mv.etime = meta[k].etime /\ mv.count = n
      /\ mv.type = "collection" /\ meta[k].type = "collection" /\ n # 0 /\ n \in Nat
      /\ meta[k].count # 0 /\ meta[k].count \in Nat
    BY <1>1, <1>3, MatchMeans DEF Metas, IInv, IsCollection
<1>5. x \in Expectations /\ x.members = expect[k].members \cup {m} /\ x.etime = expect[k].etime
    BY <1>3, Zenon DEF Expectations
<1>6. e \in Entries /\ e.key = k /\ e.version = v /\ e.member = m
    BY <1>4, Zenon DEF Entry, Entries
<1> HIDE DEF mv, x
<1>7. Typed'
    <2>1. filter' \in Filters BY <1>1, OverwriteTyped, Zenon DEF IInv, Typed
    <2> QED BY <1>1, <1>2, <1>4, <1>5, <1>6, <2>1 DEF IInv, Typed
<1>8. /\ meta'[k] = mv /\ expect'[k] = x
      /\ \A j \in Keys \ {k} : meta'[j] = meta[j] /\ expect'[j] = expect[j]
    BY <1>2, Zenon DEF IInv, Typed
<1>9. Versions'
    <2>1. v < clock /\ v < NextVersion /\ next_generation < clock /\ \A d \in data : d.key = k /\ kind # "vector" => d.version <= v
        BY <1>4, Zenon DEF IInv, Versions, IsCollection
    <2>2. v < NextVersion' /\ v < clock' /\ next_generation' < clock'
        BY <1>1, <1>4, <2>1 DEF NextVersion, IInv, Typed
    <2>3. \A d \in data' : d \in data \/ (d.key = k /\ d.version = meta'[k].version)
        BY <1>1, <1>4, <1>6, <1>8, Zenon
    <2> QED BY <1>1, <1>4, <1>7, <1>8, <2>1, <2>2, <2>3, VersionsFollow, Zenon
<1>10. Present(k)' = Present(k) \cup {m} /\ (m \in Present(k) <=> e \in data)
    <2>1. \A o \in Members : Entry(k, v, o) \in data' <=> Entry(k, v, o) \in data \/ o = m
        BY <1>1, Zenon DEF Entry
    <2> QED BY <1>4, <1>8, <2>1, Zenon DEF Present, Entry
<1>11. CountedAt(k)' /\ (FaithfulAt(k) => FaithfulAt(k)')
    <2>1. IsFiniteSet(Present(k)) /\ Cardinality(Present(k)) <= meta[k].count
        BY <1>4, Zenon DEF IInv, Counted, CountedAt, IsCollection
    <2>2. IsFiniteSet(Present(k) \cup {m}) /\ Cardinality(Present(k)) \in Nat
          /\ Cardinality(Present(k) \cup {m}) = IF m \in Present(k) THEN Cardinality(Present(k)) ELSE Cardinality(Present(k)) + 1
        BY <2>1, FS_AddElement, FS_CardinalityType, Zenon
    <2>3. CountedAt(k)'
        BY <1>4, <1>8, <1>10, <2>1, <2>2 DEF CountedAt
    <2>4. ASSUME FaithfulAt(k) PROVE FaithfulAt(k)'
        <3>1. /\ Present(k) = expect[k].members /\ meta[k].count = Cardinality(Present(k))
              /\ meta[k].etime = expect[k].etime
            BY <1>1, <2>4, Zenon DEF FaithfulAt
        <3>2. /\ Present(k)' = expect'[k].members /\ meta'[k].count = Cardinality(Present(k))'
              /\ meta'[k].etime = expect'[k].etime /\ meta'[k].type = "collection"
            BY <1>4, <1>5, <1>8, <1>10, <2>2, <3>1, Zenon
        <3>3. Matches(k)' \/ Past(meta[k].etime)'
            BY <1>4, <1>7, <1>8, MatchMeansNext, Zenon DEF IsCollection
        <3> QED BY <3>2, <3>3, Zenon DEF FaithfulAt, Past
    <2> QED BY <2>3, <2>4, Zenon
<1>12. Counted' /\ (Faithful => Faithful')
    <2>1. \A d \in Entries : d.key # k => (d \in data' <=> d \in data) BY <1>1, <1>6, Zenon
    <2>2. \A j \in Keys \ {k} : CountedAt(j)' /\ (FaithfulAt(j) => FaithfulAt(j)')
        BY <1>1, <1>7, <1>8, <2>1, Elsewhere, Zenon DEF IInv
    <2> QED BY <1>11, <2>2, Zenon DEF Counted, Faithful
<1>13. \A d \in data \ {e} : Live(d)' => Live(d) /\ meta'[d.key].etime = meta[d.key].etime
    <2> SUFFICES ASSUME NEW d \in data, Live(d)' PROVE Live(d) /\ meta'[d.key].etime = meta[d.key].etime BY Zenon
    <2>1. d \in Entries /\ d.key \in Keys BY Zenon DEF IInv, Typed, Entries
    <2>2. CASE d.key = k BY <1>1, <1>4, <1>8, <2>2, Zenon DEF Live
    <2>3. CASE d.key # k BY <1>1, <1>7, <1>8, <2>1, <2>3, NotRevived, Zenon DEF IInv
    <2> QED BY <2>2, <2>3, Zenon
<1>14. Collecting' /\ (Sparing => Sparing')
    <2>1. {e} \cap filter.garbage = {}
        <3>1. Live(e) BY <1>1, <1>6, Zenon DEF Live
        <3> QED BY <3>1, Zenon DEF IInv, Collecting
    <2>2. data \ {e} \subseteq data' BY <1>1, Zenon
    <2> QED BY <1>1, <1>7, <1>13, <2>1, <2>2, FilterFollows, Zenon
<1> QED BY <1>7, <1>9, <1>12, <1>14, Zenon DEF IInv, Kept

\* A member is removed, and with the last one the meta value unless it is a hash.
LEMMA RemoveSafe ==
    ASSUME IInv, NEW k \in Keys, NEW m \in Members, Remove(k, m), kind' = kind
    PROVE  IInv' /\ (Kept => Kept')
<1> DEFINE v == meta[k].version
           e == Entry(k, v, m)
           mv == IF meta[k].count = 1 /\ kind # "hash" THEN NoMeta
                 ELSE [meta[k] EXCEPT !.count = meta[k].count - 1]
           x == [expect[k] EXCEPT !.members = @ \ {m}]
<1>1. /\ clock' = clock + 1 /\ clock \in Nat /\ next_generation' = next_generation
      /\ data' = data \ {e} /\ Matches(k) /\ e \in data
      /\ filter' = [filter EXCEPT !.input = @ \ {e}, !.removed = @ \ {e}]
    BY Zenon DEF Remove, Commit, Overwrite, IInv, Typed
<1>2. meta' = [meta EXCEPT ![k] = mv] /\ expect' = [expect EXCEPT ![k] = x]
    <2>1. meta' = [meta EXCEPT ![k] = mv] BY Zenon DEF Remove
    <2>2. expect' = [expect EXCEPT ![k] = x] BY Zenon DEF Remove
    <2> QED BY <2>1, <2>2, Zenon
<1>3. meta[k] \in Metas /\ expect[k] \in Expectations
    BY Zenon DEF IInv, Typed
<1>4. v \in Nat /\ meta[k].type = "collection" /\ meta[k].count \in Nat \ {0}
    BY <1>1, <1>3, MatchMeans, Zenon DEF Metas, IInv, IsCollection
<1>5. /\ mv \in Metas
      /\ \/ mv = NoMeta /\ mv.type = "none" /\ meta[k].count = 1
         \/ /\ mv.type = "collection" /\ mv.version = v /\ mv.etime = meta[k].etime
            /\ mv.count = meta[k].count - 1
    BY <1>3, <1>4 DEF Metas, NoMeta
<1>6. x \in Expectations /\ x.members = expect[k].members \ {m} /\ x.etime = expect[k].etime
    BY <1>3, Zenon DEF Expectations
<1>7. e \in Entries /\ e.key = k /\ e.version = v /\ e.member = m
    BY <1>4, Zenon DEF Entry, Entries
<1> HIDE DEF mv, x
<1>8. Typed'
    <2>1. filter' \in Filters BY <1>1, OverwriteTyped, Zenon DEF IInv, Typed
    <2> QED BY <1>1, <1>2, <1>5, <1>6, <2>1 DEF IInv, Typed
<1>9. /\ meta'[k] = mv /\ expect'[k] = x
      /\ \A j \in Keys \ {k} : meta'[j] = meta[j] /\ expect'[j] = expect[j]
    BY <1>2, Zenon DEF IInv, Typed
<1>10. Versions'
    <2>1. v < clock /\ v < NextVersion /\ next_generation < clock /\ \A d \in data : d.key = k /\ kind # "vector" => d.version <= v
        BY <1>4, Zenon DEF IInv, Versions, IsCollection
    <2>2. v < NextVersion' /\ v < clock' /\ next_generation' < clock'
        BY <1>1, <1>4, <2>1 DEF NextVersion, IInv, Typed
    <2>3. \A d \in data' : d \in data
        BY <1>1, Zenon
    <2>4. IsCollection(k)' => meta'[k].version = v
        BY <1>5, <1>9, Zenon DEF IsCollection
    <2> QED BY <1>1, <1>8, <1>9, <2>1, <2>2, <2>3, <2>4, VersionsFollow, Zenon
<1>11. meta'[k].version = v => Present(k)' = Present(k) \ {m}
    <2>1. \A o \in Members : Entry(k, v, o) \in data' <=> Entry(k, v, o) \in data /\ o # m
        BY <1>1, Zenon DEF Entry
    <2> QED BY <2>1, Zenon DEF Present, Entry
<1>12. CountedAt(k)' /\ (FaithfulAt(k) => FaithfulAt(k)')
    <2>1. IsFiniteSet(Present(k)) /\ Cardinality(Present(k)) <= meta[k].count /\ m \in Present(k)
        BY <1>1, <1>4, Zenon DEF IInv, Counted, CountedAt, IsCollection, Present
    <2>2. IsFiniteSet(Present(k) \ {m}) /\ Cardinality(Present(k)) \in Nat
          /\ Cardinality(Present(k) \ {m}) = Cardinality(Present(k)) - 1
        BY <2>1, FS_RemoveElement, FS_CardinalityType, Zenon
    <2>3. CASE mv.type = "collection"
        <3>1. /\ meta'[k].version = v /\ meta'[k].count = meta[k].count - 1
              /\ meta'[k].etime = meta[k].etime /\ meta'[k].type = "collection"
            BY <1>5, <1>9, <2>3, Zenon
        <3>2. CountedAt(k)'
            <4>1. IsFiniteSet(Present(k))' /\ Cardinality(Present(k))' = Cardinality(Present(k)) - 1
                BY <1>11, <2>2, <3>1, Zenon
            <4>2. Cardinality(Present(k))' <= meta'[k].count
                BY <1>4, <2>1, <2>2, <3>1, <4>1
            <4> QED BY <4>1, <4>2, Zenon DEF CountedAt
        <3>3. ASSUME FaithfulAt(k) PROVE FaithfulAt(k)'
            <4>1. /\ Present(k) = expect[k].members /\ meta[k].count = Cardinality(Present(k))
                  /\ meta[k].etime = expect[k].etime
                BY <1>1, <3>3, Zenon DEF FaithfulAt
            <4>2. /\ Present(k)' = expect'[k].members /\ meta'[k].count = Cardinality(Present(k))'
                  /\ meta'[k].etime = expect'[k].etime /\ IsFiniteSet(expect'[k].members)
                BY <1>6, <1>9, <1>11, <2>2, <3>1, <4>1, Zenon
            <4>3. Matches(k)' \/ Past(meta[k].etime)' \/ meta'[k].count = 0
                BY <1>8, <3>1, MatchMeansNext, Zenon DEF IsCollection
            <4>4. meta'[k].count = 0 => expect'[k].members = {}
                BY <4>2, FS_EmptySet, Zenon
            <4> QED BY <3>1, <4>2, <4>3, <4>4, Zenon DEF FaithfulAt, Past
        <3> QED BY <3>2, <3>3, Zenon
    <2>4. CASE mv = NoMeta /\ mv.type = "none" /\ meta[k].count = 1
        <3>1. meta'[k] = NoMeta /\ meta'[k].type = "none" /\ ~Matches(k)'
            BY <1>8, <1>9, <2>4, MatchMeansNext, Zenon DEF IsCollection
        <3>2. FaithfulAt(k) => expect'[k].members = {}
            <4>1. Cardinality(Present(k) \ {m}) <= 0 /\ Cardinality(Present(k) \ {m}) \in Nat
                BY <2>1, <2>2, <2>4, FS_CardinalityType
            <4>2. Present(k) \ {m} = {} BY <2>2, <4>1, FS_EmptySet
            <4> QED BY <1>1, <1>6, <1>9, <4>2, Zenon DEF FaithfulAt
        <3> QED BY <3>1, <3>2, Zenon DEF CountedAt, FaithfulAt, IsCollection
    <2> QED BY <1>5, <2>3, <2>4, Zenon
<1>13. Counted' /\ (Faithful => Faithful')
    <2>1. \A d \in Entries : d.key # k => (d \in data' <=> d \in data) BY <1>1, <1>7, Zenon
    <2>2. \A j \in Keys \ {k} : CountedAt(j)' /\ (FaithfulAt(j) => FaithfulAt(j)')
        BY <1>1, <1>8, <1>9, <2>1, Elsewhere, Zenon DEF IInv
    <2> QED BY <1>12, <2>2, Zenon DEF Counted, Faithful
<1>14. \A d \in data \ {e} : Live(d)' => Live(d) /\ meta'[d.key].etime = meta[d.key].etime
    <2> SUFFICES ASSUME NEW d \in data, Live(d)' PROVE Live(d) /\ meta'[d.key].etime = meta[d.key].etime BY Zenon
    <2>1. d \in Entries /\ d.key \in Keys BY Zenon DEF IInv, Typed, Entries
    <2>2. CASE d.key = k
        <3>1. IsCollection(k)' BY <1>8, <2>2, MatchMeansNext, Zenon DEF Live
        <3> QED BY <1>1, <1>5, <1>9, <2>2, <3>1, Zenon DEF Live, IsCollection
    <2>3. CASE d.key # k BY <1>1, <1>8, <1>9, <2>1, <2>3, NotRevived, Zenon DEF IInv
    <2> QED BY <2>2, <2>3, Zenon
<1>15. Collecting' /\ (Sparing => Sparing')
    <2>1. {e} \cap filter.garbage = {}
        <3>1. Live(e) BY <1>1, <1>7, Zenon DEF Live
        <3> QED BY <3>1, Zenon DEF IInv, Collecting
    <2>2. data \ {e} \subseteq data' BY <1>1, Zenon
    <2> QED BY <1>1, <1>8, <1>14, <2>1, <2>2, FilterFollows, Zenon
<1> QED BY <1>8, <1>10, <1>13, <1>15, Zenon DEF IInv, Kept

-----------------------------------------------------------------------------
(* Steps that leave the entries and the filter alone. *)

\* Such a step rewrites the meta value of at most one key.
LEMMA MetaStep ==
    ASSUME IInv, kind' = kind, clock' \in {clock, clock + 1}, next_generation' = next_generation,
           data' = data, filter' = filter, NEW k,
           meta' \in [Keys -> Metas], expect' \in [Keys -> Expectations],
           \A j \in Keys \ {k} : meta'[j] = meta[j] /\ expect'[j] = expect[j],
           k \in Keys =>
               /\ CountedAt(k)'
               /\ IsCollection(k)' =>
                      /\ meta'[k].version < clock'
                      /\ meta'[k].count # 0 => meta'[k].version < NextVersion'
                      /\ \A d \in data : d.key = k /\ kind # "vector" => d.version <= meta'[k].version
               /\ \A d \in data : d.key = k /\ Live(d)' => Live(d)
    PROVE  /\ IInv'
           /\ (k \in Keys =>
                 /\ FaithfulAt(k) => FaithfulAt(k)'
                 /\ \A d \in data : d.key = k /\ k = filter.cur_key /\ Live(d)' =>
                        meta'[k].etime = meta[k].etime)
              /\ Kept => Kept'
<1>1. Typed'
    BY DEF IInv, Typed
<1>2. next_generation' < clock'
    BY DEF IInv, Typed, Versions
<1>3. Versions'
    BY <1>1, <1>2, VersionsFollow, Zenon
<1>4. \A j \in Keys \ {k} : CountedAt(j)' /\ (FaithfulAt(j) => FaithfulAt(j)')
    BY <1>1, Elsewhere, Zenon DEF IInv
<1>5. Counted'
    BY <1>4, Zenon DEF Counted
<1>6. \A d \in data \ {} : Live(d)' => Live(d)
    <2> SUFFICES ASSUME NEW d \in data, Live(d)', d.key # k PROVE Live(d)
        BY Zenon DEF IInv, Typed, Entries
    <2> QED BY <1>1, NotRevived, Zenon DEF IInv, Typed, Entries
<1>7. /\ filter' = [filter EXCEPT !.input = @ \ {}, !.removed = @ \ {}]
      /\ data \ {} \subseteq data' /\ {} \cap filter.garbage = {}
    BY Zenon DEF IInv, Typed, Filters
<1>8. Collecting'
    BY <1>1, <1>6, <1>7, FilterFollows, Zenon
<1>9. ASSUME k \in Keys =>
                 /\ FaithfulAt(k) => FaithfulAt(k)'
                 /\ \A d \in data : d.key = k /\ k = filter.cur_key /\ Live(d)' =>
                        meta'[k].etime = meta[k].etime,
             Kept
      PROVE  Kept'
    <2>1. Faithful' BY <1>4, <1>9, Zenon DEF Kept, Faithful
    <2>2. \A d \in data \ {} : Live(d)' /\ d.key = filter.cur_key => meta'[d.key].etime = meta[d.key].etime
        BY <1>9, Zenon DEF IInv, Typed, Entries
    <2>3. Sparing' BY <1>1, <1>6, <1>7, <1>9, <2>2, FilterFollows, Zenon DEF Kept
    <2> QED BY <2>1, <2>3, Zenon DEF Kept
<1> QED BY <1>1, <1>3, <1>5, <1>8, <1>9, Zenon DEF IInv

\* Time passes.
LEMMA TickSafe ==
    ASSUME IInv, Tick, kind' = kind
    PROVE  IInv' /\ (Kept => Kept')
<1>1. /\ clock' = clock + 1 /\ meta' = meta /\ data' = data /\ next_generation' = next_generation
      /\ filter' = filter /\ expect' = expect
    BY Zenon DEF Tick
<1>2. meta' \in [Keys -> Metas] /\ expect' \in [Keys -> Expectations]
    BY <1>1, Zenon DEF IInv, Typed
<1>3. NoKey \notin Keys
    BY KeyAssumption, Zenon
<1> QED BY <1>1, <1>2, <1>3, MetaStep, Zenon

\* DEL: the string goes, or the collection keeps a meta value with count 0 and
\* a version that no entry has.
LEMMA DelSafe ==
    ASSUME IInv, NEW k \in Keys, Del(k), kind' = kind
    PROVE  IInv' /\ (Kept => Kept')
<1> DEFINE mv == IF meta[k].type = "string" THEN NoMeta
                 ELSE [meta[k] EXCEPT !.count = 0, !.etime = 0,
                                      !.version = update_version(meta[k].version)]
<1>1. /\ clock' = clock + 1 /\ clock \in Nat /\ data' = data /\ filter' = filter
      /\ next_generation' = next_generation /\ ~Fresh(k)
    BY Zenon DEF Del, Commit, IInv, Typed
<1>2. meta' = [meta EXCEPT ![k] = mv] /\ expect' = [expect EXCEPT ![k] = Deleted(k)]
    BY Zenon DEF Del
<1>3. meta[k] \in Metas /\ Deleted(k) \in Expectations
    BY Zenon DEF IInv, Typed, Deleted, Expectations
<1>4. meta[k].type = "none" \/ meta[k].type = "string" \/ (IsCollection(k) /\ meta[k].version < clock)
    BY <1>3, Zenon DEF Metas, IInv, Versions, IsCollection
<1>5. meta[k].type # "string" => mv.type = meta[k].type /\ mv.count = 0 /\ mv.etime = 0
                                 /\ mv.version = update_version(meta[k].version) /\ mv \in Metas
    <2>1. update_version(meta[k].version) \in Nat
        BY <1>1, <1>3 DEF Metas, update_version
    <2> QED BY <1>3, <2>1, Zenon DEF Metas
<1>6. meta[k].type = "string" => mv = NoMeta /\ mv \in Metas /\ mv.type = "none"
    BY Zenon DEF Metas, NoMeta
<1> HIDE DEF mv
<1>7. mv.type = "collection" => mv.count = 0 /\ mv.version = clock
    BY <1>1, <1>3, <1>4, <1>5, <1>6 DEF update_version, Metas, IsCollection
<1>8. /\ meta'[k] = mv /\ expect'[k] = Deleted(k)
      /\ meta' \in [Keys -> Metas] /\ expect' \in [Keys -> Expectations]
      /\ \A j \in Keys \ {k} : meta'[j] = meta[j] /\ expect'[j] = expect[j]
    BY <1>2, <1>3, <1>5, <1>6, Zenon DEF IInv, Typed
<1>9. \A d \in data : d.version < clock
    BY <1>1 DEF IInv, Versions, NextVersion, Typed, Entries
<1>10. ~Matches(k)'
    <2>1. Typed' BY <1>1, <1>8 DEF IInv, Typed
    <2> QED BY <1>7, <1>8, <2>1, MatchMeansNext, Zenon DEF IsCollection
<1>11. CountedAt(k)'
    <2> SUFFICES ASSUME mv.type = "collection" PROVE IsFiniteSet(Present(k))' /\ Cardinality(Present(k))' <= mv.count
        BY <1>8, Zenon DEF CountedAt, IsCollection
    <2>1. Present(k)' = {}
        BY <1>1, <1>7, <1>8, <1>9 DEF Present, Entry
    <2> QED BY <1>7, <2>1, FS_EmptySet
<1>12. IsCollection(k)' =>
           /\ meta'[k].version < clock' /\ meta'[k].count = 0
           /\ \A d \in data : d.version <= meta'[k].version
    BY <1>1, <1>7, <1>8, <1>9 DEF IsCollection, IInv, Typed, Entries
<1>13. \A d \in data : d.key = k => ~Live(d)'
    BY <1>10, Zenon DEF Live
<1>14. FaithfulAt(k) => FaithfulAt(k)'
    <2> SUFFICES ASSUME FaithfulAt(k) PROVE FaithfulAt(k)' BY Zenon
    <2>1. meta[k] # NoMeta BY <1>1, FreshMeans, Zenon DEF IInv
    <2>2. meta[k].type # "none" BY <2>1, Zenon DEF FaithfulAt
    <2>3. mv.type # "string" BY <1>5, <1>6, Zenon
    <2>4. mv.type = "none" => mv = NoMeta BY <1>5, <1>6, <2>2, Zenon
    <2>5. expect'[k].members = {} BY <1>8 DEF Deleted
    <2> QED BY <1>8, <1>10, <2>3, <2>4, <2>5, Zenon DEF FaithfulAt
<1> QED BY <1>1, <1>8, <1>11, <1>12, <1>13, <1>14, MetaStep, Zenon

\* SET: the key holds a string, whatever it held before.
LEMMA SetStringSafe ==
    ASSUME IInv, NEW k \in Keys, SetString(k), kind' = kind
    PROVE  IInv' /\ (Kept => Kept')
<1>1. /\ clock' = clock + 1 /\ data' = data /\ filter' = filter
      /\ next_generation' = next_generation
      /\ meta' = [meta EXCEPT ![k] = StringMeta] /\ expect' = [expect EXCEPT ![k] = Deleted(k)]
    BY Zenon DEF SetString, Commit
<1>2. StringMeta \in Metas /\ StringMeta.type = "string" /\ Deleted(k) \in Expectations
    BY Zenon DEF StringMeta, NoMeta, Metas, Deleted, Expectations
<1>3. /\ meta'[k] = StringMeta /\ expect'[k] = Deleted(k)
      /\ meta' \in [Keys -> Metas] /\ expect' \in [Keys -> Expectations]
      /\ \A j \in Keys \ {k} : meta'[j] = meta[j] /\ expect'[j] = expect[j]
    BY <1>1, <1>2, Zenon DEF IInv, Typed
<1>4. ~IsCollection(k)' /\ ~Matches(k)'
    <2>1. Typed' BY <1>1, <1>3 DEF IInv, Typed
    <2> QED BY <1>2, <1>3, <2>1, MatchMeansNext, Zenon DEF IsCollection
<1>5. CountedAt(k)' /\ FaithfulAt(k)' /\ \A d \in data : d.key = k => ~Live(d)'
    BY <1>2, <1>3, <1>4 DEF CountedAt, FaithfulAt, Deleted, Live
<1> QED BY <1>1, <1>3, <1>4, <1>5, MetaStep, Zenon

\* EXPIRE and PERSIST: the collection keeps its entries, and the filter has not
\* cached its expiry time.
LEMMA RetimeSafe ==
    ASSUME IInv, NEW k \in Keys, NEW etime \in Nat, set_key_etime(k, etime), kind' = kind,
           etime = 0 \/ etime > clock
    PROVE  IInv' /\ (InScope /\ Kept => Kept')
<1> DEFINE mv == [meta[k] EXCEPT !.etime = etime]
           x == [expect[k] EXCEPT !.etime = etime]
<1>1. /\ clock' = clock + 1 /\ clock \in Nat /\ data' = data /\ filter' = filter
      /\ next_generation' = next_generation /\ ~Fresh(k) /\ Retimable(k)
    BY Zenon DEF set_key_etime, Commit, IInv, Typed
<1>2. meta' = [meta EXCEPT ![k] = mv] /\ expect' = [expect EXCEPT ![k] = x]
    BY Zenon DEF set_key_etime
<1>3. meta[k] \in Metas /\ expect[k] \in Expectations
    BY Zenon DEF IInv, Typed
<1>4. /\ mv \in Metas /\ mv.type = meta[k].type /\ mv.version = meta[k].version
      /\ mv.count = meta[k].count /\ mv.etime = etime
      /\ x \in Expectations /\ x.members = expect[k].members /\ x.etime = etime
    BY <1>3, Zenon DEF Metas, Expectations
<1> HIDE DEF mv, x
<1>5. /\ meta'[k] = mv /\ expect'[k] = x
      /\ meta' \in [Keys -> Metas] /\ expect' \in [Keys -> Expectations]
      /\ \A j \in Keys \ {k} : meta'[j] = meta[j] /\ expect'[j] = expect[j]
    BY <1>2, <1>3, <1>4, Zenon DEF IInv, Typed
<1>6. Present(k)' = Present(k) /\ (IsCollection(k)' <=> IsCollection(k))
    BY <1>1, <1>4, <1>5, Zenon DEF Present, Entry, IsCollection
<1>7. CountedAt(k)'
    BY <1>4, <1>5, <1>6, Zenon DEF IInv, Counted, CountedAt
<1>8. IsCollection(k)' =>
           /\ meta'[k].version < clock'
           /\ meta'[k].count # 0 => meta'[k].version < NextVersion'
           /\ \A d \in data : d.key = k /\ kind # "vector" => d.version <= meta'[k].version
    BY <1>1, <1>3, <1>4, <1>5, <1>6 DEF IInv, Versions, NextVersion, Typed, Metas
<1>9. ~Past(meta[k].etime)'
    BY <1>1, <1>4, <1>5 DEF Past
<1>10. Matches(k)' <=> Matches(k)
    <2>1. Typed' BY <1>1, <1>5 DEF IInv, Typed
    <2>2. Matches(k) <=> IsCollection(k) /\ meta[k].count # 0
        BY <1>1, FreshMeans, MatchMeans, Zenon DEF IInv
    <2>3. Matches(k)' <=> IsCollection(k)' /\ meta'[k].count # 0
        BY <1>9, <2>1, MatchMeansNext, Zenon
    <2> QED BY <1>4, <1>5, <1>6, <2>2, <2>3, Zenon
<1>11. \A d \in data : d.key = k /\ Live(d)' => Live(d)
    BY <1>4, <1>5, <1>10, Zenon DEF Live
<1>12. FaithfulAt(k) => FaithfulAt(k)'
    <2>1. meta[k].type # "none" \/ ~FaithfulAt(k)
        BY <1>1, FreshMeans, Zenon DEF FaithfulAt, IInv
    <2>2. ~Matches(k) => meta[k].type # "collection"
        BY <1>1, FreshMeans, Zenon DEF IInv, IsCollection
    <2>3. Cardinality(Present(k))' = Cardinality(Present(k)) BY <1>6, Zenon
    <2> QED BY <1>3, <1>4, <1>5, <1>6, <1>10, <2>1, <2>2, <2>3, Zenon DEF FaithfulAt, Metas
<1>13. InScope => k # filter.cur_key
    BY <1>1, Zenon DEF InScope, Retimable
<1> QED BY <1>1, <1>5, <1>7, <1>8, <1>11, <1>12, <1>13, MetaStep, Zenon

\* The meta filter removes a meta value that no command takes for alive.
LEMMA MetaFilterSafe ==
    ASSUME IInv, NEW k \in Keys, MetaFilter(k), kind' = kind
    PROVE  IInv' /\ (Kept => Kept')
<1>1. /\ clock' = clock /\ data' = data /\ filter' = filter /\ next_generation' = next_generation
      /\ meta' = [meta EXCEPT ![k] = NoMeta] /\ expect' = expect
    BY Zenon DEF MetaFilter
<1>2. NoMeta \in Metas /\ NoMeta.type = "none"
    BY Zenon DEF NoMeta, Metas
<1>3. /\ meta'[k] = NoMeta /\ meta' \in [Keys -> Metas] /\ expect' \in [Keys -> Expectations]
      /\ \A j \in Keys \ {k} : meta'[j] = meta[j] /\ expect'[j] = expect[j]
    BY <1>1, <1>2, Zenon DEF IInv, Typed
<1>4. ~IsCollection(k)' /\ ~Matches(k)'
    <2>1. Typed' BY <1>1, <1>3, Zenon DEF IInv, Typed
    <2> QED BY <1>2, <1>3, <2>1, MatchMeansNext, Zenon DEF IsCollection
<1>5. ~Matches(k)
    BY MatchMeans, Zenon DEF MetaFilter, IInv
<1>6. CountedAt(k)' /\ (FaithfulAt(k) => FaithfulAt(k)') /\ \A d \in data : d.key = k => ~Live(d)'
    BY <1>1, <1>2, <1>3, <1>4, <1>5, Zenon DEF CountedAt, FaithfulAt, Live, Past
<1> QED BY <1>1, <1>3, <1>4, <1>6, MetaStep, Zenon

\* The database handle becomes known.
LEMMA OpenSafe ==
    ASSUME IInv, OpenFinished, kind' = kind
    PROVE  IInv' /\ (Kept => Kept')
<1>1. /\ clock' = clock /\ meta' = meta /\ data' = data /\ next_generation' = next_generation
      /\ filter' = filter /\ expect' = expect
    BY Zenon DEF OpenFinished
<1>2. meta' \in [Keys -> Metas] /\ expect' \in [Keys -> Expectations]
    BY <1>1, Zenon DEF IInv, Typed
<1> QED BY <1>1, <1>2, KeyAssumption, MetaStep, Zenon

-----------------------------------------------------------------------------
(* The steps of a compaction. *)

\* Such a step moves the filter, which no command reads.
LEMMA FilterStep ==
    ASSUME IInv, kind' = kind, clock' = clock, meta' = meta, expect' = expect, data' = data,
           next_generation' = next_generation, filter' \in Filters
    PROVE  /\ Typed' /\ Versions' /\ Counted' /\ (Faithful => Faithful')
           /\ \A e : Live(e)' <=> Live(e)
<1>1. Typed' BY Zenon DEF IInv, Typed
<1>2. Versions' BY Zenon DEF IInv, Versions, IsCollection, NextVersion
<1>3. Counted' BY Zenon DEF IInv, Counted, CountedAt, IsCollection, Present, Entry
<1>4. /\ \A k : Matches(k)' <=> Matches(k)
      /\ \A k \in Keys : Present(k)' = Present(k) /\ \A etime : Past(etime)' <=> Past(etime)
    BY Zenon DEF Matches, check_type_state, is_stale, Past, Present, Entry
<1>5. Faithful => Faithful' BY <1>4, Zenon DEF Faithful, FaithfulAt, Past
<1>6. \A e : Live(e)' <=> Live(e) BY <1>4, Zenon DEF Live
<1> QED BY <1>1, <1>2, <1>3, <1>5, <1>6, Zenon

LEMMA IdleTyped == IdleFilter \in Filters
BY Zenon DEF IdleFilter, Filters

\* A compaction starts with an empty cache.
LEMMA StartSafe ==
    ASSUME IInv, NEW input \in SUBSET data, StartCompaction(input), kind' = kind
    PROVE  IInv' /\ (Kept => Kept')
<1> DEFINE garbage == {e \in input : ~Live(e)}
<1>1. /\ clock' = clock /\ meta' = meta /\ data' = data /\ next_generation' = next_generation
      /\ expect' = expect /\ (db = "open" \/ kind \in FaultyKinds)
      /\ filter' = [IdleFilter EXCEPT !.running = TRUE, !.db = (db = "open"), !.input = input,
                                      !.garbage = garbage]
    BY Zenon DEF StartCompaction
<1>2. input \subseteq Entries /\ garbage \subseteq input BY Zenon DEF IInv, Typed
<1> HIDE DEF garbage
<1>3. /\ filter' \in Filters /\ filter'.input = input /\ filter'.removed = {}
      /\ filter'.garbage = garbage /\ filter'.cur_key = NoKey /\ filter'.db = (db = "open")
    BY <1>1, <1>2, Zenon DEF IdleFilter, Filters
<1>4. /\ Typed' /\ Versions' /\ Counted' /\ (Faithful => Faithful')
      /\ \A e : Live(e)' <=> Live(e)
    BY <1>1, <1>3, FilterStep, Zenon
<1>5. \A e \in input : e.key # NoKey
    BY <1>2, KeyAssumption, Zenon DEF Entries
<1>6. Collecting'
    <2>1. \A e \in garbage : ~Live(e) BY Zenon DEF garbage
    <2> QED BY <1>1, <1>2, <1>3, <1>4, <1>5, <2>1, Zenon DEF Collecting
<1>7. Sparing' BY <1>1, <1>3, <1>5, Zenon DEF Sparing
<1> QED BY <1>4, <1>6, <1>7, Zenon DEF IInv, Kept

\* A lookup shows that a dead entry is dead: a meta value with count 0 has a
\* version that no entry has.
LEMMA DeadIsDecided ==
    ASSUME IInv, NEW e \in data, ~Live(e), NEW f, f.meta_not_found = (meta[e.key].type # "collection"),
           meta[e.key].type = "collection" =>
               f.cur_meta_version = meta[e.key].version /\ f.cur_meta_etime = meta[e.key].etime
    PROVE  Decide(f, e)
<1>1. e.key \in Keys /\ e.version \in Nat /\ e.member \in Members /\ meta[e.key] \in Metas
      /\ e = Entry(e.key, e.version, e.member)
    BY Zenon DEF IInv, Typed, Entries, Entry
<1>2. SUFFICES ASSUME IsCollection(e.key), ~Past(meta[e.key].etime) PROVE Decide(f, e)
    BY Zenon DEF Decide, IsCollection
<1>3. e.version # meta[e.key].version
    <2> SUFFICES ASSUME e.version = meta[e.key].version PROVE FALSE BY Zenon
    <2>1. meta[e.key].count = 0 BY <1>1, <1>2, MatchMeans, Zenon DEF Live, IInv
    <2>2. IsFiniteSet(Present(e.key)) /\ Cardinality(Present(e.key)) <= 0
        BY <1>1, <1>2, <2>1, Zenon DEF IInv, Counted, CountedAt
    <2>3. Present(e.key) = {} BY <2>2, FS_EmptySet, FS_CardinalityType
    <2>4. e.member \in Present(e.key) BY <1>1, Zenon DEF Present
    <2> QED BY <2>3, <2>4, Zenon
<1>4. kind # "vector" => e.version <= meta[e.key].version
    BY <1>2, Zenon DEF IInv, Versions
<1> QED BY <1>1, <1>2, <1>3, <1>4 DEF Decide, IsCollection, Metas

\* What the filter has cached of a key spares a live entry.
LEMMA LiveIsSpared ==
    ASSUME IInv, InScope, NEW e \in data, Live(e), NEW f, f.meta_not_found = FALSE,
           \/ f.cur_meta_version = e.version
           \/ f.cur_meta_version = 0 /\ kind \in FaultyKinds,
           f.cur_meta_etime \in {0, meta[e.key].etime}
    PROVE  ~Decide(f, e)
<1>1. e.key \in Keys /\ e.version \in Nat BY Zenon DEF IInv, Typed, Entries
<1>2. ~Past(meta[e.key].etime) BY <1>1, MatchMeans, Zenon DEF Live, IInv
<1>3. ~Past(f.cur_meta_etime) BY <1>2, Zenon DEF Past
<1> QED BY <1>1, <1>3 DEF Decide, InScope

\* The filter removes an entry if it is dead, and keeps it if it is alive.
LEMMA FilterEntrySafe ==
    ASSUME IInv, NEW e \in filter.input, FilterEntry(e), kind' = kind
    PROVE  IInv' /\ (InScope /\ Kept => Kept')
<1> DEFINE f == IF e.key = filter.cur_key THEN filter ELSE ensure_meta_state(e.key)
<1>1. /\ clock' = clock /\ meta' = meta /\ data' = data /\ next_generation' = next_generation
      /\ expect' = expect /\ filter' = Decided(f, e)
    BY Zenon DEF FilterEntry
<1>2. filter \in Filters /\ filter.input \subseteq data /\ e \in data /\ e \in Entries
      /\ e.key \in Keys /\ meta[e.key] \in Metas
    BY Zenon DEF IInv, Typed, Collecting, Entries
<1>3. /\ f \in Filters /\ f.input = filter.input /\ f.removed = filter.removed
      /\ f.garbage = filter.garbage /\ f.running = filter.running /\ f.db = filter.db
      /\ f.cur_key = e.key
    BY <1>2, Zenon DEF ensure_meta_state, Filters, Metas
<1>4. e.key # filter.cur_key =>
        /\ f.meta_not_found = (meta[e.key].type # "collection")
        /\ meta[e.key].type = "collection" =>
               f.cur_meta_version = meta[e.key].version /\ f.cur_meta_etime = meta[e.key].etime
    BY <1>2, Zenon DEF ensure_meta_state, Filters
<1>5. e.key = filter.cur_key => f = filter
    BY Zenon
<1> HIDE DEF f
<1>6. /\ filter' \in Filters /\ filter'.input = filter.input \ {e}
      /\ filter'.removed = (IF Decide(f, e) THEN filter.removed \cup {e} ELSE filter.removed)
      /\ filter'.garbage = filter.garbage /\ filter'.running = filter.running
      /\ filter'.db = filter.db /\ filter'.cur_key = e.key
      /\ filter'.meta_not_found = f.meta_not_found
      /\ filter'.cur_meta_version = f.cur_meta_version
      /\ filter'.cur_meta_etime = f.cur_meta_etime
    BY <1>1, <1>2, <1>3, Zenon DEF Decided, Filters
<1>7. /\ Typed' /\ Versions' /\ Counted' /\ (Faithful => Faithful')
      /\ \A d : Live(d)' <=> Live(d)
    BY <1>1, <1>6, FilterStep, Zenon
<1>8. \A d \in filter.garbage \cap filter.input : d.key = e.key => Decide(f, d)
    <2> SUFFICES ASSUME NEW d \in filter.garbage \cap filter.input, d.key = e.key PROVE Decide(f, d)
        BY Zenon
    <2>1. ~Live(d) /\ d \in data BY Zenon DEF IInv, Collecting
    <2>2. CASE e.key = filter.cur_key BY <1>5, <2>2, Zenon DEF IInv, Collecting
    <2>3. CASE e.key # filter.cur_key BY <1>4, <2>1, <2>3, DeadIsDecided, Zenon
    <2> QED BY <2>2, <2>3, Zenon
<1>9. Collecting'
    <2>1. \A d : Decide(f, d) => Decide(filter, d)'
        BY <1>1, <1>6, Zenon DEF Decide, Past
    <2>2. filter'.garbage \subseteq filter'.input \cup filter'.removed
        BY <1>6, <1>8, Zenon DEF IInv, Collecting
    <2>3. \A d \in filter'.garbage \cap filter'.input : d.key = filter'.cur_key => Decide(filter, d)'
        BY <1>6, <1>8, <2>1, Zenon
    <2>4. filter'.input \subseteq data' /\ filter'.removed \subseteq data' /\ filter'.garbage \subseteq data'
        BY <1>1, <1>2, <1>6 DEF IInv, Collecting
    <2>5. \A d \in filter'.garbage : ~Live(d)'
        BY <1>6, <1>7, Zenon DEF IInv, Collecting
    <2> QED BY <2>2, <2>3, <2>4, <2>5, Zenon DEF Collecting
<1>10. ASSUME InScope, Sparing PROVE Sparing'
    <2>1. \A d \in filter.input : d.key = e.key /\ Live(d) =>
            /\ f.meta_not_found = FALSE
            /\ \/ f.cur_meta_version = d.version
               \/ f.cur_meta_version = 0 /\ kind \in FaultyKinds
            /\ f.cur_meta_etime \in {0, meta[d.key].etime}
        <3> SUFFICES ASSUME NEW d \in filter.input, d.key = e.key, Live(d)
                     PROVE  /\ f.meta_not_found = FALSE
                            /\ \/ f.cur_meta_version = d.version
                               \/ f.cur_meta_version = 0 /\ kind \in FaultyKinds
                            /\ f.cur_meta_etime \in {0, meta[d.key].etime}
            BY Zenon
        <3>1. CASE e.key = filter.cur_key BY <1>2, <1>5, <1>10, <3>1, Zenon DEF Sparing, Filters
        <3>2. CASE e.key # filter.cur_key
            <4>1. meta[e.key].type = "collection" /\ d.version = meta[e.key].version
                BY <1>2, MatchMeans, Zenon DEF Live, IInv, IsCollection
            <4> QED BY <1>4, <3>2, <4>1, Zenon
        <3> QED BY <3>1, <3>2, Zenon
    <2>2. Live(e) => ~Decide(f, e)
        BY <1>2, <1>10, <2>1, LiveIsSpared, Zenon
    <2>3. \A d \in filter'.removed : ~Live(d)'
        BY <1>6, <1>7, <1>10, <2>2, Zenon DEF Sparing
    <2>4. \A d \in filter'.input : d.key = filter'.cur_key /\ Live(d)' =>
            /\ ~filter'.meta_not_found
            /\ \/ filter'.cur_meta_version = d.version
               \/ filter'.cur_meta_version = 0 /\ kind' \in FaultyKinds
            /\ filter'.cur_meta_etime \in {0, meta'[d.key].etime}
        BY <1>1, <1>6, <1>7, <2>1
    <2>5. filter'.running => filter'.db \/ kind' \in FaultyKinds
        BY <1>6, <1>10, Zenon DEF Sparing
    <2> QED BY <2>3, <2>4, <2>5, Zenon DEF Sparing
<1> QED BY <1>7, <1>9, <1>10, Zenon DEF IInv, Kept

\* Without a meta value the filter keeps the entries of the key.
LEMMA FilterKeepsSafe ==
    ASSUME IInv, NEW e \in filter.input, FilterKeepsUnknown(e), kind' = kind
    PROVE  IInv' /\ (Kept => Kept')
<1> DEFINE garbage == {d \in filter.garbage : d.key # e.key}
<1>1. /\ clock' = clock /\ meta' = meta /\ data' = data /\ next_generation' = next_generation
      /\ expect' = expect /\ filter.running /\ (~filter.db \/ kind \in FaultyKinds)
    BY Zenon DEF FilterKeepsUnknown
<1>2. filter \in Filters /\ filter.input \subseteq data /\ e \in Entries /\ e.key \in Keys
    BY ZenonT(60) DEF IInv, Typed, Collecting, Entries
<1>3. /\ filter' \in Filters /\ filter'.input = filter.input \ {e}
      /\ filter'.removed = filter.removed /\ filter'.garbage = garbage
      /\ filter'.running = filter.running /\ filter'.db = filter.db /\ filter'.cur_key = e.key
      /\ filter'.meta_not_found = FALSE /\ filter'.cur_meta_version = 0
      /\ filter'.cur_meta_etime = 0
    BY <1>2, ZenonT(60) DEF FilterKeepsUnknown, meta_unavailable, Filters
<1>4. /\ Typed' /\ Versions' /\ Counted' /\ (Faithful => Faithful')
      /\ \A d : Live(d)' <=> Live(d)
    BY <1>1, <1>3, FilterStep, Zenon
<1>5. Collecting'
    BY <1>1, <1>3, <1>4, Zenon DEF IInv, Collecting
<1>6. Sparing => Sparing'
    BY <1>1, <1>3, <1>4, Zenon DEF Sparing
<1> QED BY <1>4, <1>5, <1>6, Zenon DEF IInv, Kept

LEMMA IdleSafe ==
    ASSUME filter' = IdleFilter
    PROVE  Collecting' /\ Sparing'
BY Zenon DEF IdleFilter, Collecting, Sparing

\* The result of a compaction lacks dead entries only.
LEMMA FinishSafe ==
    ASSUME IInv, FinishCompaction, kind' = kind
    PROVE  IInv' /\ (Kept => Kept')
<1>1. /\ clock' = clock /\ meta' = meta /\ next_generation' = next_generation /\ expect' = expect
      /\ data' = data \ filter.removed /\ filter' = IdleFilter
    BY Zenon DEF FinishCompaction
<1>2. Typed' BY <1>1, IdleTyped, Zenon DEF IInv, Typed
<1>3. Versions' BY <1>1, Zenon DEF IInv, Versions, IsCollection, NextVersion
<1>4. \A k \in Keys : Present(k)' \subseteq Present(k)
    BY <1>1, Zenon DEF Present, Entry
<1>5. Counted'
    <2> SUFFICES ASSUME NEW k \in Keys, IsCollection(k)
                 PROVE  IsFiniteSet(Present(k))' /\ Cardinality(Present(k))' <= meta[k].count
        BY <1>1, Zenon DEF Counted, CountedAt, IsCollection
    <2>1. IsFiniteSet(Present(k)) /\ Cardinality(Present(k)) <= meta[k].count
        BY Zenon DEF IInv, Counted, CountedAt
    <2>2. IsFiniteSet(Present(k))' /\ Cardinality(Present(k))' <= Cardinality(Present(k))
          /\ Cardinality(Present(k))' \in Nat /\ Cardinality(Present(k)) \in Nat
        BY <1>4, <2>1, FS_Subset, FS_CardinalityType, Zenon
    <2>3. meta[k].count \in Nat BY Zenon DEF IInv, Typed, Metas
    <2> QED BY <2>1, <2>2, <2>3
<1>6. ASSUME Kept PROVE Faithful'
    <2>1. \A k : Matches(k)' <=> Matches(k)
        BY <1>1, Zenon DEF Matches, check_type_state, is_stale, Past
    <2>2. \A k \in Keys : Matches(k) => Present(k)' = Present(k)
        <3> SUFFICES ASSUME NEW k \in Keys, Matches(k), NEW m \in Members,
                            Entry(k, meta[k].version, m) \in data
                     PROVE  Entry(k, meta[k].version, m) \notin filter.removed
            BY <1>1, Zenon DEF Present, Entry
        <3>1. Live(Entry(k, meta[k].version, m)) BY Zenon DEF Live, Entry
        <3> QED BY <1>6, <3>1, Zenon DEF Kept, Sparing
    <2> QED BY <1>1, <1>6, <2>1, <2>2, Zenon DEF Kept, Faithful, FaithfulAt, Past
<1> QED BY <1>1, <1>2, <1>3, <1>5, <1>6, IdleSafe, Zenon DEF IInv, Kept

\* A restart discards the compaction.
LEMMA RestartSafe ==
    ASSUME IInv, Restart, kind' = kind
    PROVE  IInv' /\ (Kept => Kept')
<1>1. /\ clock' = clock /\ meta' = meta /\ data' = data /\ next_generation' = next_generation
      /\ expect' = expect /\ filter' = IdleFilter
    BY Zenon DEF Restart
<1> QED BY <1>1, IdleTyped, IdleSafe, FilterStep, Zenon DEF IInv, Kept

-----------------------------------------------------------------------------
(* Every behaviour. *)

LEMMA InitSafe == Init => IInv /\ Kept
<1> SUFFICES ASSUME Init PROVE IInv /\ Kept BY Zenon
<1>1. NoMeta \in Metas /\ NoMeta.type = "none" BY Zenon DEF NoMeta, Metas
<1>2. Typed
    <2>1. \A k \in Keys : Deleted(k) \in Expectations BY Zenon DEF Deleted, Expectations
    <2> QED BY <1>1, <2>1, IdleTyped, KindAssumption, Zenon DEF Init, Typed, FirstInstant
<1>3. \A k \in Keys : meta[k] = NoMeta /\ ~IsCollection(k) /\ ~Matches(k) /\ expect[k].members = {}
    BY <1>1, <1>2, MatchMeans, Zenon DEF Init, IsCollection, Deleted
<1>4. Versions
    <2>1. data = {} BY Zenon DEF Init
    <2>2. 0 < next_generation /\ next_generation < clock BY DEF Init, FirstInstant
    <2> QED BY <1>3, <2>1, <2>2, Zenon DEF Versions
<1>5. Counted BY <1>3, Zenon DEF Counted, CountedAt
<1>6. Collecting /\ Sparing BY Zenon DEF Init, IdleFilter, Collecting, Sparing
<1>7. Faithful BY <1>1, <1>3, Zenon DEF Faithful, FaithfulAt
<1> QED BY <1>2, <1>4, <1>5, <1>6, <1>7, Zenon DEF IInv, Kept

LEMMA NextSafe == IInv /\ [Next]_vars => IInv' /\ (InScope /\ Kept => Kept')
<1> SUFFICES ASSUME IInv, [Next]_vars PROVE IInv' /\ (InScope /\ Kept => Kept')
    BY Zenon
<1>1. CASE UNCHANGED vars
    <2>1. filter' \in Filters BY <1>1, Zenon DEF IInv, Typed, vars
    <2>2. Collecting' BY <1>1, Zenon DEF vars, IInv, Collecting, Live, Matches, check_type_state, is_stale, Past, Decide
    <2>3. Sparing => Sparing' BY <1>1 DEF vars, Sparing, Live, Matches, check_type_state, is_stale, Past
    <2> QED BY <1>1, <2>1, <2>2, <2>3, FilterStep, Zenon DEF vars, IInv, Kept
<1>2. ASSUME kind' = kind, NEW k \in Keys, Command(k) PROVE IInv' /\ (InScope /\ Kept => Kept')
    <2>1. CASE \E m \in Members : Create(k, m) \/ Add(k, m) \/ Remove(k, m)
        BY <1>2, <2>1, CreateSafe, AddSafe, RemoveSafe, Zenon
    <2>2. CASE Del(k) BY <1>2, <2>2, DelSafe, Zenon
    <2>3. CASE SetString(k) BY <1>2, <2>3, SetStringSafe, Zenon
    <2>4. CASE \E ttl \in 1..MaxTtl : Expire(k, ttl)
        <3>1. PICK ttl \in 1..MaxTtl : set_key_etime(k, clock + ttl) BY <2>4, Zenon DEF Expire
        <3>2. clock + ttl \in Nat /\ clock + ttl > clock BY BoundAssumption DEF IInv, Typed
        <3> QED BY <1>2, <3>1, <3>2, RetimeSafe, Zenon
    <2>5. CASE Persist(k) BY <1>2, <2>5, RetimeSafe, Zenon DEF Persist
    <2> QED BY <1>2, <2>1, <2>2, <2>3, <2>4, <2>5, Zenon DEF Command
<1>3. ASSUME kind' = kind, Compaction PROVE IInv' /\ (InScope /\ Kept => Kept')
    <2>1. CASE \E k \in Keys : MetaFilter(k) BY <1>3, <2>1, MetaFilterSafe, Zenon
    <2>2. CASE \E input \in SUBSET data \ {{}} : StartCompaction(input) BY <1>3, <2>2, StartSafe, Zenon
    <2>3. CASE \E e \in filter.input : FilterEntry(e) \/ FilterKeepsUnknown(e)
        BY <1>3, <2>3, FilterEntrySafe, FilterKeepsSafe, Zenon
    <2>4. CASE FinishCompaction BY <1>3, <2>4, FinishSafe, Zenon
    <2> QED BY <1>3, <2>1, <2>2, <2>3, <2>4, Zenon DEF Compaction
<1> QED BY <1>1, <1>2, <1>3, RestartSafe, OpenSafe, TickSafe, Zenon DEF Next

\* A compaction of the data column family removes every entry of its input that
\* was dead when it started, unless it could not read the meta value of the
\* entry's key (DataCompactionFilter::filter).  No scope is assumed: EXPIRE and
\* PERSIST may hit a key whose meta value is cached, and every lookup may fail.
THEOREM GarbageIsCollected == Spec => []GarbageCollected
<1>1. IInv => GarbageCollected BY Zenon DEF IInv, Collecting, GarbageCollected
<1> QED BY <1>1, InitSafe, NextSafe, PTL DEF Spec

LEMMA KeptShows == IInv /\ Kept => MembersPreserved
<1> SUFFICES ASSUME IInv, Kept, NEW k \in Keys
             PROVE  /\ ReadMembers(k) = IF Past(expect[k].etime) THEN {} ELSE expect[k].members
                    /\ Matches(k) => meta[k].count = Cardinality(ReadMembers(k))
    BY Zenon DEF MembersPreserved
<1>1. FaithfulAt(k) BY Zenon DEF Kept, Faithful
<1>2. CASE Matches(k)
    <2>1. {e.member : e \in {f \in data : f.key = k /\ Live(f)}} = Present(k)
        <3>1. \A m \in Members : Entry(k, meta[k].version, m).key = k
                                 /\ Entry(k, meta[k].version, m).version = meta[k].version
                                 /\ Entry(k, meta[k].version, m).member = m
            BY Zenon DEF Entry
        <3>2. \A e \in data : e.member \in Members /\ e = Entry(e.key, e.version, e.member)
            BY DEF IInv, Typed, Entries, Entry
        <3> QED BY <1>2, <3>1, <3>2, Zenon DEF Present, Live
    <2>2. ~Past(expect[k].etime) BY <1>1, <1>2, MatchMeans, Zenon DEF FaithfulAt, IInv, Past
    <2> QED BY <1>1, <1>2, <2>1, <2>2, Zenon DEF ReadMembers, FaithfulAt
<1>3. CASE ~Matches(k) BY <1>1, <1>3, Zenon DEF ReadMembers, FaithfulAt
<1> QED BY <1>2, <1>3, Zenon

\* A client reads exactly the members it added since the key was last created,
\* deleted, overwritten or expired, and the count agrees with them: no
\* compaction takes a live member and no member of an earlier life of the key
\* comes back (DataCompactionFilter::filter, update_version).  The scope is
\* necessary: outside it, the compaction does take live members.
THEOREM MembersKept == InScope => (Spec => []MembersPreserved)
<1> SUFFICES ASSUME InScope PROVE Spec => []MembersPreserved BY Zenon
<1>1. Init => IInv /\ Kept BY InitSafe, Zenon
<1>2. (IInv /\ Kept) /\ [Next]_vars => (IInv /\ Kept)' BY NextSafe, Zenon
<1>3. IInv /\ Kept => MembersPreserved BY KeptShows, Zenon
<1> QED BY <1>1, <1>2, <1>3, PTL DEF Spec
=============================================================================
