-------------------------- MODULE RedisSetsProofs --------------------------
(***************************************************************************)
(* Every key holds the set its commands should have left there, and every   *)
(* read answers something between the members that were there all the time  *)
(* and those that were there at some time, for any keys, members, clients   *)
(* and argument lists.                                                      *)
(*                                                                          *)
(* The inductive invariant adds to SetsAsExpected the types and the order   *)
(* of the versions: nothing is stored under a version that is still to      *)
(* come, so that a set made under the version of this instant starts empty. *)
(* For the reads it says, at every program counter, what the members found  *)
(* so far have to do with what the keys held since the read started, and    *)
(* that the version a read has found is still the live one or is gone for   *)
(* good.                                                                    *)
(*                                                                          *)
(* What the lemmas need to know about numbers of members is a hypothesis of *)
(* theirs, Counting, until the last section proves it.                      *)
(***************************************************************************)
EXTENDS RedisSets, TLAPS

\* What the theorems are about.  Outside of it the code does something else:
\* SADD drops an argument that becomes the same String as an earlier one, SREM
\* counts an argument twice that is given twice, and SMOVE from a key to itself
\* loses the member.
InScope ==
    /\ \A args \in SaddArgs : \A i, j \in DOMAIN args :
           from_utf8_lossy[args[i]] = from_utf8_lossy[args[j]] => args[i] = args[j]
    /\ \A args \in SremArgs : IsInjective(args)
    /\ ~MayMoveToSelf

\* What the theorem about the reads is about besides: members are Strings, and no
\* *STORE command replaces a set beside the reads of another client.  Outside of it
\* SUNION and SINTER answer Strings that are no members, and a read that looks under
\* the version it has found after a *STORE command replaced it misses the members
\* that are in the new set as they were in the old one.
ReadScope ==
    /\ \A m \in Members : from_utf8_lossy[m] = m
    /\ Destinations = {} \/ \A b, c \in Clients : b = c

Metas ==
    [type : {"none", "set", "string"}, count : Nat, version : Nat, expired : BOOLEAN]

Stored == [key : Keys, version : Nat, member : Members]

\* What a client has found are members; where it stores them is a key.
Reading(r) ==
    /\ {"pc", "acc", "left", "dest"} \subseteq DOMAIN r
    /\ r.acc \subseteq Members
    /\ r.left \subseteq Members
    /\ r.dest \in Keys \cup {NoDestination}

StoreTyped ==
    /\ clock \in Nat
    /\ meta \in [Keys -> Metas]
    /\ expect \in [Keys -> SUBSET Members]
    /\ data \subseteq Stored

ClientsTyped == DOMAIN client = Clients /\ \A c \in Clients : Reading(client[c])

\* A meta value under which commands find a set.
LiveSet(mv) == mv.type = "set" /\ mv.count # 0 /\ ~mv.expired

\* What the entries d hold under a version.
Under(d, k, v) == {m \in Members : [key |-> k, version |-> v, member |-> m] \in d}

\* Members ms of the set of version w under j go, members ns of the set of
\* version u under i come.
Rewritten(j, w, ms, i, u, ns) ==
    data' = (data \ Entries(j, w, ms)) \cup Entries(i, u, ns)

\* A batch that changes one key only.
Rewrites(k, mv, ex, w, ms, u, ns) ==
    /\ clock' = clock + 1
    /\ meta' = [meta EXCEPT ![k] = mv]
    /\ Rewritten(k, w, ms, k, u, ns)
    /\ expect' = [expect EXCEPT ![k] = ex]

\* Versions are taken from the clock.
Versions ==
    /\ \A e \in data : e.version < clock
    /\ \A k \in Keys : meta[k].version < clock

ExactAt(k) ==
    /\ Contents(k) = expect[k]
    /\ Matches(k) => meta[k].count = Cardinality(expect[k])

Exact == \A k \in Keys : ExactAt(k)

StoreInv == StoreTyped /\ Versions /\ Exact

IInv == StoreInv /\ ClientsTyped /\ reply = 0

-----------------------------------------------------------------------------
(* Counting. *)

LeastExists == \A T \in SUBSET Nat : T # {} => \E x \in T : \A y \in T : x <= y

\* What the proofs need to know about numbers of members.  CountingHolds proves it, at
\* the end of this module: it takes the theorems on finite sets, and with those in
\* its context every step before would take several times as long.
Counting ==
    /\ LeastExists
    /\ \A S \in SUBSET Members : /\ Cardinality(S) \in Nat
                                 /\ Cardinality(S) < CountModulus
                                 /\ Cardinality(S) = 0 <=> S = {}
    /\ \A S, T \in SUBSET Members :
           S \cap T = {} => Cardinality(S \cup T) = Cardinality(S) + Cardinality(T)
    /\ \A S \in SUBSET Members : \A T \in SUBSET S :
           /\ Cardinality(S \ T) = Cardinality(S) - Cardinality(T)
           /\ Cardinality(T) <= Cardinality(S)
    /\ \A m \in Members : Cardinality({m}) = 1
    /\ \A args \in Seq(Members) : IsInjective(args) =>
           \A P \in SUBSET (DOMAIN args) : Cardinality(P) = Cardinality({args[i] : i \in P})

LEMMA Counted ==
    ASSUME Counting, NEW S, S \subseteq Members
    PROVE  /\ Cardinality(S) \in Nat
           /\ Cardinality(S) < CountModulus
           /\ Cardinality(S) = 0 <=> S = {}
BY Zenon DEF Counting

LEMMA EmptyCounted ==
    ASSUME Counting
    PROVE  Cardinality({}) = 0
BY Counted, Zenon

LEMMA CountAdded ==
    ASSUME Counting, NEW S, NEW T, S \subseteq Members, T \subseteq Members, S \cap T = {}
    PROVE  Cardinality(S \cup T) = Cardinality(S) + Cardinality(T)
BY Zenon DEF Counting

LEMMA CountTaken ==
    ASSUME Counting, NEW S, NEW T, S \subseteq Members, T \subseteq S
    PROVE  /\ Cardinality(S \ T) = Cardinality(S) - Cardinality(T)
           /\ Cardinality(T) <= Cardinality(S)
BY Zenon DEF Counting

LEMMA CountOne ==
    ASSUME Counting, NEW m \in Members
    PROVE  Cardinality({m}) = 1
BY Zenon DEF Counting

LEMMA CountPositions ==
    ASSUME Counting, NEW args \in Seq(Members), IsInjective(args), NEW P \in SUBSET (DOMAIN args)
    PROVE  Cardinality(P) = Cardinality({args[i] : i \in P})
BY Zenon DEF Counting

\* Every member that a SADD names is written: none is the same String as
\* another that comes before it.
LEMMA NothingDropped ==
    ASSUME Counting, InScope, NEW args \in SaddArgs
    PROVE  Deduplicated(args) = Range(args) /\ Range(args) \subseteq Members /\ Range(args) # {}
<1>1. args \in Seq(Members) /\ args # <<>>
    BY ArgsAssumption, Zenon
<1>2. DOMAIN args = 1..Len(args) /\ Len(args) \in Nat /\ Len(args) # 0
    BY <1>1
<1>3. Range(args) \subseteq Members /\ Range(args) # {}
    BY <1>1, <1>2 DEF Range
<1>4. ASSUME NEW m \in Range(args) PROVE m \in Deduplicated(args)
    <2> DEFINE at == {i \in 1..Len(args) : args[i] = m}
    <2>1. at \in SUBSET Nat /\ at # {}
        BY <1>2, <1>4 DEF Range
    <2>2. PICK i \in at : \A j \in at : i <= j
        BY <2>1, Zenon DEF Counting, LeastExists
    <2>3. ASSUME NEW j \in 1..(i - 1) PROVE from_utf8_lossy[args[j]] # from_utf8_lossy[args[i]]
        <3>1. i \in 1..Len(args) /\ args[i] = m BY <2>2, Zenon
        <3>2. j \in 1..Len(args) /\ j < i BY <1>2, <3>1
        <3>3. args[j] # m BY <2>2, <3>1, <3>2
        <3> QED BY <1>2, <3>1, <3>2, <3>3, Zenon DEF InScope
    <2> QED BY <1>2, <2>2, <2>3, Zenon DEF Deduplicated
<1>5. Deduplicated(args) \subseteq Range(args)
    BY Zenon DEF Deduplicated, Range
<1> QED BY <1>3, <1>4, <1>5, Zenon

-----------------------------------------------------------------------------
(* The store. *)

LEMMA EntryOf ==
    ASSUME NEW k, NEW v, NEW m, NEW j, NEW w, NEW ms
    PROVE  [key |-> k, version |-> v, member |-> m] \in Entries(j, w, ms)
           <=> (k = j /\ v = w /\ m \in ms)
BY Zenon DEF Entries

\* What a batch leaves under a version.
LEMMA MembersThen ==
    ASSUME NEW j, NEW w, NEW ms, NEW i, NEW u, NEW ns, Rewritten(j, w, ms, i, u, ns),
           NEW k, NEW v
    PROVE  Under(data', k, v) =
           {m \in Members : \/ m \in MembersOf(k, v) /\ ~(k = j /\ v = w /\ m \in ms)
                            \/ k = i /\ v = u /\ m \in ns}
BY EntryOf DEF MembersOf, Under, Rewritten

LEMMA MatchesIs ==
    ASSUME StoreTyped, NEW k \in Keys
    PROVE  /\ Matches(k) <=> LiveSet(meta[k])
           /\ WrongType(k) => ~Matches(k)
           /\ ~WrongType(k) /\ ~Matches(k) => Fresh(k)
           /\ Fresh(k) => ~Matches(k)
<1>1. meta[k] \in Metas BY Zenon DEF StoreTyped
<1> QED BY <1>1 DEF LiveSet, Matches, WrongType, Fresh, check_type_state, Metas, NoMeta

LEMMA MatchesThen ==
    ASSUME NEW k, meta'[k] \in Metas
    PROVE  Matches(k)' <=> LiveSet(meta'[k])
BY DEF LiveSet, Matches, check_type_state, Metas, NoMeta

\* Nothing is stored under the version of this instant.
LEMMA NothingAhead ==
    ASSUME Versions, StoreTyped, NEW k
    PROVE  MembersOf(k, clock) = {}
BY DEF Versions, StoreTyped, MembersOf

LEMMA StoreSame ==
    ASSUME StoreInv, UNCHANGED <<clock, meta, data, expect>>
    PROVE  StoreInv'
<1>1. StoreTyped' BY Zenon DEF StoreInv, StoreTyped
<1>2. Versions' BY Zenon DEF StoreInv, Versions
<1>3. ASSUME NEW k \in Keys PROVE ExactAt(k)'
    <2>1. ExactAt(k) BY Zenon DEF StoreInv, Exact
    <2>2. Contents(k)' = Contents(k) /\ Matches(k)' = Matches(k)
        BY Zenon DEF Contents, Matches, check_type_state, MembersOf
    <2> QED BY <2>1, <2>2, Zenon DEF ExactAt
<1> QED BY <1>1, <1>2, <1>3, Zenon DEF StoreInv, Exact

LEMMA MetaValues ==
    /\ NoMeta \in Metas
    /\ NoMeta.version = 0
    /\ NoMeta.type = "none"
    /\ \A n \in Nat, v \in Nat :
           /\ SetMeta(n, v) \in Metas
           /\ SetMeta(n, v).type = "set"
           /\ SetMeta(n, v).count = n
           /\ SetMeta(n, v).version = v
           /\ ~SetMeta(n, v).expired
BY Zenon DEF NoMeta, SetMeta, Metas

\* A step that changes only what is stored under the keys of K leaves the other
\* keys as they are expected to be.
LEMMA Framed ==
    ASSUME StoreInv, NEW K \in SUBSET Keys,
           clock' \in Nat, clock <= clock',
           meta' \in [Keys -> Metas], expect' \in [Keys -> SUBSET Members],
           \A k \in Keys \ K : meta'[k] = meta[k] /\ expect'[k] = expect[k],
           \A k \in K : meta'[k].version < clock',
           data' \subseteq Stored,
           \A e \in data \ data' : e.key \in K,
           \A e \in data' \ data : e.key \in K /\ e.version < clock',
           \A k \in K : ExactAt(k)'
    PROVE  StoreInv'
<1>1. StoreTyped'
    BY Zenon DEF StoreTyped
<1>2. Versions'
    <2>1. ASSUME NEW e \in data' PROVE e.version < clock'
        <3>1. CASE e \in data
            <4>1. e.version \in Nat /\ e.version < clock /\ clock \in Nat
                BY <3>1, Zenon DEF StoreInv, StoreTyped, Versions, Stored
            <4> QED BY <4>1
        <3> QED BY <3>1, Zenon
    <2>2. ASSUME NEW k \in Keys PROVE meta'[k].version < clock'
        <3>1. CASE k \notin K
            <4>1. meta[k].version \in Nat /\ meta[k].version < clock /\ clock \in Nat
                BY Zenon DEF StoreInv, StoreTyped, Versions, Metas
            <4> QED BY <3>1, <4>1
        <3> QED BY <3>1, Zenon
    <2> QED BY <2>1, <2>2, Zenon DEF Versions
<1>3. ASSUME NEW k \in Keys, k \notin K PROVE ExactAt(k)'
    <2>1. meta'[k] = meta[k] /\ expect'[k] = expect[k] BY <1>3, Zenon
    <2>2. \A v, m : [key |-> k, version |-> v, member |-> m] \in data'
                    <=> [key |-> k, version |-> v, member |-> m] \in data
        BY <1>3
    <2>3. MembersOf(k, meta[k].version)' = MembersOf(k, meta[k].version)
        BY <2>1, <2>2, Zenon DEF MembersOf
    <2>4. Matches(k)' <=> Matches(k)
        BY <2>1, Zenon DEF Matches, check_type_state
    <2>5. ExactAt(k) BY Zenon DEF StoreInv, Exact
    <2> QED BY <2>1, <2>3, <2>4, <2>5, Zenon DEF ExactAt, Contents
<1> QED BY <1>1, <1>2, <1>3, Zenon DEF StoreInv, Exact

\* The set that a live meta value stands for once a batch on its key is
\* written.
LEMMA OneKey ==
    ASSUME StoreInv, NEW k \in Keys, NEW mv \in Metas, NEW ex \in SUBSET Members,
           NEW w, NEW ms, NEW u \in Nat, NEW ns \in SUBSET Members,
           Rewrites(k, mv, ex, w, ms, u, ns),
           mv.version <= clock, u <= clock,
           LiveSet(mv) => mv.count = Cardinality(ex) /\ ex = Under(data', k, mv.version),
           ~LiveSet(mv) => ex = {}
    PROVE  StoreInv'
<1>1. /\ clock \in Nat /\ clock' \in Nat /\ clock <= clock'
      /\ meta' \in [Keys -> Metas] /\ expect' \in [Keys -> SUBSET Members]
      /\ meta'[k] = mv /\ expect'[k] = ex
    BY DEF StoreInv, StoreTyped, Rewrites
<1>2. \A j \in Keys \ {k} : meta'[j] = meta[j] /\ expect'[j] = expect[j]
    BY Zenon DEF StoreInv, StoreTyped, Rewrites
<1>3. mv.version < clock' /\ u < clock'
    BY <1>1 DEF Metas, Rewrites
<1>4. /\ data' \subseteq Stored
      /\ \A e \in data \ data' : e.key = k
      /\ \A e \in data' \ data : e.key = k /\ e.version < clock'
    BY <1>3, Zenon DEF StoreInv, StoreTyped, Entries, Stored, Rewrites, Rewritten
<1>5. ExactAt(k)'
    <2>1. Matches(k)' <=> LiveSet(mv)
        BY <1>1, MatchesThen, Zenon
    <2>2. Contents(k)' = IF Matches(k)' THEN Under(data', k, mv.version) ELSE {}
        BY <1>1, Zenon DEF Contents, MembersOf, Under
    <2> QED BY <1>1, <2>1, <2>2, Zenon DEF ExactAt
<1> DEFINE K == {k}
<1>6. /\ K \in SUBSET Keys
      /\ \A j \in Keys \ K : meta'[j] = meta[j] /\ expect'[j] = expect[j]
      /\ \A j \in K : meta'[j].version < clock' /\ ExactAt(j)'
      /\ \A e \in data \ data' : e.key \in K
      /\ \A e \in data' \ data : e.key \in K /\ e.version < clock'
    BY <1>1, <1>2, <1>3, <1>4, <1>5, Zenon
<1> HIDE DEF K
<1> QED BY <1>1, <1>4, <1>6, Framed, Zenon

LEMMA ExpectedNow ==
    ASSUME Counting, StoreInv, NEW k \in Keys
    PROVE  /\ meta[k] \in Metas /\ clock \in Nat
           /\ meta[k].version \in Nat /\ meta[k].version < clock
           /\ meta[k].count \in Nat
           /\ expect[k] \subseteq Members
           /\ Matches(k) => /\ expect[k] = MembersOf(k, meta[k].version)
                            /\ meta[k].count = Cardinality(expect[k])
                            /\ meta[k].type = "set" /\ ~meta[k].expired
                            /\ expect[k] # {}
           /\ ~Matches(k) => expect[k] = {}
<1>1. /\ meta[k] \in Metas /\ clock \in Nat /\ expect[k] \subseteq Members
      /\ meta[k].version < clock
    BY Zenon DEF StoreInv, StoreTyped, Versions
<1>2. meta[k].version \in Nat /\ meta[k].count \in Nat
    BY <1>1, Zenon DEF Metas
<1>3. ExactAt(k) BY Zenon DEF StoreInv, Exact
<1>4. ~Matches(k) => expect[k] = {}
    BY <1>3, Zenon DEF ExactAt, Contents
<1>5. Matches(k) => /\ expect[k] = MembersOf(k, meta[k].version)
                    /\ meta[k].count = Cardinality(expect[k])
    BY <1>3, Zenon DEF ExactAt, Contents
<1>6. Matches(k) => meta[k].type = "set" /\ ~meta[k].expired /\ meta[k].count # 0
    BY MatchesIs, Zenon DEF StoreInv, LiveSet
<1>7. Matches(k) => expect[k] # {}
    BY <1>5, <1>6, EmptyCounted, Zenon
<1> QED BY <1>1, <1>2, <1>4, <1>5, <1>6, <1>7, Zenon

\* The meta value of a set that loses some of its members.
LEMMA ShrunkIs ==
    ASSUME Counting, StoreInv, NEW k \in Keys, Matches(k), NEW gone \in SUBSET expect[k]
    PROVE  IF gone = expect[k] THEN Shrunk(k, Cardinality(gone)) = NoMeta
           ELSE /\ Shrunk(k, Cardinality(gone)) \in Metas
                /\ Shrunk(k, Cardinality(gone)).type = "set"
                /\ Shrunk(k, Cardinality(gone)).count = Cardinality(expect[k] \ gone)
                /\ Shrunk(k, Cardinality(gone)).count # 0
                /\ Shrunk(k, Cardinality(gone)).version = meta[k].version
                /\ ~Shrunk(k, Cardinality(gone)).expired
<1> DEFINE left == Cardinality(expect[k] \ gone)
           n == Cardinality(gone)
<1>1. /\ meta[k] \in Metas /\ meta[k].count = Cardinality(expect[k])
      /\ meta[k].type = "set" /\ ~meta[k].expired /\ expect[k] \subseteq Members
    BY ExpectedNow, Zenon
<1>2. left = Cardinality(expect[k]) - n
    BY <1>1, CountTaken, Zenon
<1>3. left \in Nat /\ left < CountModulus /\ (left = 0 <=> expect[k] \ gone = {})
    BY <1>1, Counted, Zenon
<1>4. left = 0 <=> gone = expect[k]
    BY <1>3, Zenon
<1>5. CountModulus \in Nat BY CountAssumption, Zenon
<1> HIDE DEF left, n
<1>6. left % CountModulus = left
    BY <1>3, <1>5
<1>7. (meta[k].count - n) % CountModulus = left
    BY <1>1, <1>2, <1>6, Zenon
<1>8. Shrunk(k, n) = IF left = 0 THEN NoMeta ELSE [meta[k] EXCEPT !.count = left]
    BY <1>7, Zenon DEF Shrunk
<1>9. left # 0 => /\ Shrunk(k, n) \in Metas
                  /\ Shrunk(k, n).type = "set"
                  /\ Shrunk(k, n).count = left
                  /\ Shrunk(k, n).version = meta[k].version
                  /\ ~Shrunk(k, n).expired
    BY <1>1, <1>3, <1>8, Zenon DEF Metas
<1> QED BY <1>4, <1>8, <1>9, Zenon DEF left, n

-----------------------------------------------------------------------------
(* The commands. *)

LEMMA SaddStep ==
    ASSUME Counting, InScope, IInv, NEW k \in Keys, NEW args \in SaddArgs, sadd(k, args)
    PROVE  StoreInv' /\ reply' = 0
<1> DEFINE version == IF Fresh(k) THEN clock ELSE meta[k].version
           count == IF Fresh(k) THEN 0 ELSE meta[k].count
           added == Range(args) \ expect[k]
<1>1. StoreInv BY Zenon DEF IInv
<1>2. Deduplicated(args) = Range(args) /\ Range(args) \subseteq Members /\ Range(args) # {}
    BY NothingDropped, Zenon
<1>3. ~WrongType(k) BY Zenon DEF sadd
<1>4. Fresh(k) <=> ~Matches(k) BY <1>1, <1>3, MatchesIs, Zenon DEF StoreInv
<1>5. /\ clock \in Nat /\ version \in Nat /\ version <= clock
      /\ expect[k] \subseteq Members
      /\ expect[k] = MembersOf(k, version)
      /\ count = Cardinality(expect[k])
      /\ Fresh(k) => expect[k] = {}
    <2>1. CASE Fresh(k)
        <3>1. MembersOf(k, clock) = {} BY <1>1, NothingAhead, Zenon DEF StoreInv
        <3>2. Cardinality({}) = 0 BY EmptyCounted, Zenon
        <3>3. expect[k] = {} /\ clock \in Nat BY <1>1, <1>4, <2>1, ExpectedNow, Zenon
        <3> QED BY <2>1, <3>1, <3>2, <3>3
    <2>2. CASE ~Fresh(k)
        BY <1>1, <1>4, <2>2, ExpectedNow
    <2> QED BY <2>1, <2>2, Zenon
<1>6. added = IF Fresh(k) THEN Deduplicated(args) ELSE Deduplicated(args) \ MembersOf(k, version)
    BY <1>2, <1>5, Zenon
<1>7. /\ IF added = {} THEN UNCHANGED <<clock, meta, data>>
         ELSE Batch([meta EXCEPT ![k] = SetMeta(count + Cardinality(added), version)],
                    {}, Entries(k, version, added))
      /\ expect' = [expect EXCEPT ![k] = @ \cup Range(args)]
      /\ reply' = Cardinality(added) - Cardinality(added)
    BY <1>6, Zenon DEF sadd, Reply, initial_meta_value
<1>8. Cardinality(added) \in Nat /\ (Cardinality(added) = 0 <=> added = {}) /\ added \in SUBSET Members
    BY <1>2, Counted, Zenon
<1>9. expect[k] \cup Range(args) = expect[k] \cup added BY Zenon
<1>10. Cardinality(expect[k] \cup added) = Cardinality(expect[k]) + Cardinality(added)
    BY <1>5, <1>8, CountAdded, Zenon
<1>11. Cardinality(expect[k]) \in Nat BY <1>5, Counted, Zenon
<1> HIDE DEF version, count, added
<1>12. CASE added = {}
    <2>1. UNCHANGED <<clock, meta, data>> BY <1>7, <1>12, Zenon
    <2>2. expect' = expect
        BY <1>1, <1>7, <1>9, <1>12, Zenon DEF StoreInv, StoreTyped
    <2>3. StoreInv' BY <1>1, <2>1, <2>2, StoreSame, Zenon
    <2> QED BY <1>7, <1>8, <2>3
<1>13. CASE added # {}
    <2> DEFINE mv == SetMeta(count + Cardinality(added), version)
               ex == expect[k] \cup added
    <2>1. Rewrites(k, mv, ex, version, {}, version, added)
        BY <1>7, <1>9, <1>13, Zenon DEF Batch, Entries, Rewrites, Rewritten
    <2>2. /\ mv \in Metas /\ mv.type = "set" /\ ~mv.expired /\ mv.version = version
          /\ mv.count = Cardinality(ex) /\ mv.count # 0
        BY <1>5, <1>8, <1>10, <1>11, <1>13, MetaValues
    <2>3. ex \in SUBSET Members BY <1>5, <1>8, Zenon
    <2>4. ex = Under(data', k, version)
        <3>1. Rewritten(k, version, {}, k, version, added) BY <2>1, Zenon DEF Rewrites
        <3>2. Under(data', k, version) =
                {m \in Members : \/ m \in MembersOf(k, version) /\ ~(k = k /\ version = version /\ m \in {})
                                 \/ k = k /\ version = version /\ m \in added}
            BY <3>1, MembersThen
        <3> QED BY <1>5, <1>8, <3>2, Zenon
    <2>5. LiveSet(mv) BY <2>2, Zenon DEF LiveSet
    <2>6. ex = Under(data', k, mv.version) BY <2>2, <2>4, Zenon
    <2> HIDE DEF mv, ex
    <2>9. StoreInv' BY <1>1, <1>5, <1>8, <2>1, <2>2, <2>3, <2>5, <2>6, OneKey
    <2> QED BY <2>9, <1>7, <1>8
<1> QED BY <1>12, <1>13, Zenon

\* A set loses the members gone in one batch.
LEMMA MembersGo ==
    ASSUME Counting, StoreInv, NEW k \in Keys, Matches(k), NEW gone \in SUBSET expect[k],
           Batch([meta EXCEPT ![k] = Shrunk(k, Cardinality(gone))],
                 Entries(k, meta[k].version, gone), {}),
           expect' = [expect EXCEPT ![k] = expect[k] \ gone]
    PROVE  StoreInv'
<1> DEFINE mv == Shrunk(k, Cardinality(gone))
           ex == expect[k] \ gone
           v == meta[k].version
<1>1. /\ clock \in Nat /\ v \in Nat /\ v < clock
      /\ expect[k] \subseteq Members /\ expect[k] = MembersOf(k, v)
    BY ExpectedNow, Zenon
<1>2. Rewrites(k, mv, ex, v, gone, 0, {})
    BY Zenon DEF Batch, Entries, Rewrites, Rewritten
<1>3. ex \in SUBSET Members BY <1>1, Zenon
<1>4. /\ mv \in Metas
      /\ mv.version <= clock
      /\ LiveSet(mv) => mv.version = v /\ mv.count = Cardinality(ex)
      /\ ~LiveSet(mv) => ex = {}
    <2>1. CASE gone = expect[k]
        <3>1. mv = NoMeta BY <2>1, ShrunkIs, Zenon
        <3>2. ex = {} BY <2>1, Zenon
        <3> HIDE DEF mv, ex
        <3> QED BY <1>1, <3>1, <3>2, MetaValues DEF LiveSet
    <2>2. CASE gone # expect[k]
        <3>1. /\ mv \in Metas /\ mv.type = "set" /\ mv.count = Cardinality(ex)
              /\ mv.count # 0 /\ mv.version = v /\ ~mv.expired
            BY <2>2, ShrunkIs
        <3> HIDE DEF mv, ex, v
        <3> QED BY <1>1, <3>1 DEF LiveSet
    <2> QED BY <2>1, <2>2, Zenon
<1>5. ex = Under(data', k, v)
    <2>1. Rewritten(k, v, gone, k, 0, {}) BY <1>2, Zenon DEF Rewrites
    <2>2. Under(data', k, v) =
            {m \in Members : \/ m \in MembersOf(k, v) /\ ~(k = k /\ v = v /\ m \in gone)
                             \/ k = k /\ v = 0 /\ m \in {}}
        BY <2>1, MembersThen
    <2> QED BY <1>1, <2>2, Zenon
<1>6. LiveSet(mv) => ex = Under(data', k, mv.version)
    BY <1>4, <1>5, Zenon
<1>7. {} \in SUBSET Members /\ 0 \in Nat /\ 0 <= clock BY <1>1
<1> HIDE DEF mv, ex, v
<1> QED BY <1>1, <1>2, <1>3, <1>4, <1>6, <1>7, OneKey, ZenonT(30)

LEMMA SremStep ==
    ASSUME Counting, InScope, IInv, NEW k \in Keys, NEW args \in SremArgs, srem(k, args)
    PROVE  StoreInv' /\ reply' = 0
<1> DEFINE v == meta[k].version
           found == {i \in DOMAIN args : args[i] \in MembersOf(k, v)}
           gone == {args[i] : i \in found}
<1>1. StoreInv BY Zenon DEF IInv
<1>2. args \in Seq(Members) /\ IsInjective(args)
    BY ArgsAssumption, Zenon DEF InScope
<1>3. Cardinality(found) = Cardinality(gone)
    <2>1. found \in SUBSET (DOMAIN args) BY Zenon
    <2> HIDE DEF found
    <2> QED BY <1>2, <2>1, CountPositions, Zenon
<1>4. gone = Range(args) \cap MembersOf(k, v)
    BY Zenon DEF Range
<1>5. expect' = [expect EXCEPT ![k] = expect[k] \ Range(args)]
    BY Zenon DEF srem
<1>6. CASE Matches(k)
    <2>1. expect[k] = MembersOf(k, v) /\ expect[k] \subseteq Members
        BY <1>1, <1>6, ExpectedNow, Zenon
    <2>2. gone \in SUBSET expect[k] /\ gone = Range(args) \cap expect[k]
        BY <1>4, <2>1, Zenon
    <2>3. Cardinality(gone) \in Nat /\ (Cardinality(gone) = 0 <=> gone = {})
        BY <2>1, <2>2, Counted, Zenon
    <2>4. /\ IF Cardinality(gone) = 0 THEN UNCHANGED <<clock, meta, data>>
             ELSE Batch([meta EXCEPT ![k] = Shrunk(k, Cardinality(gone))], Entries(k, v, gone), {})
          /\ reply' = Cardinality(gone) - Cardinality(Range(args) \cap expect[k])
        BY <1>3, <1>6, Zenon DEF srem, Reply
    <2>5. reply' = 0
        <3>1. Cardinality(Range(args) \cap expect[k]) = Cardinality(gone) BY <2>2, Zenon
        <3> HIDE DEF gone
        <3>2. reply' = Cardinality(gone) - Cardinality(gone) BY <2>4, <3>1, Zenon
        <3>3. Cardinality(gone) \in Nat BY <2>3, Zenon
        <3> QED BY <3>2, <3>3
    <2>6. expect' = [expect EXCEPT ![k] = expect[k] \ gone]
        <3>1. expect[k] \ Range(args) = expect[k] \ gone BY <2>2, Zenon
        <3> QED BY <1>5, <3>1, Zenon
    <2>7. CASE gone = {}
        <3>1. expect' = expect BY <1>1, <2>6, <2>7, Zenon DEF StoreInv, StoreTyped
        <3>2. UNCHANGED <<clock, meta, data>> BY <2>3, <2>4, <2>7, Zenon
        <3> QED BY <1>1, <2>5, <3>1, <3>2, StoreSame, Zenon
    <2>8. CASE gone # {}
        <3>1. Batch([meta EXCEPT ![k] = Shrunk(k, Cardinality(gone))],
                    Entries(k, meta[k].version, gone), {})
            BY <2>3, <2>4, <2>8, Zenon
        <3> HIDE DEF gone
        <3> QED BY <1>1, <1>6, <2>2, <2>5, <2>6, <3>1, MembersGo, ZenonT(30)
    <2> QED BY <2>7, <2>8, Zenon
<1>7. CASE ~Matches(k)
    <2>1. expect[k] = {} BY <1>1, <1>7, ExpectedNow, Zenon
    <2>2. UNCHANGED <<clock, meta, data>> BY <1>7, Zenon DEF srem
    <2>3. reply' = 0 - Cardinality(Range(args) \cap expect[k]) BY <1>7, Zenon DEF srem, Reply
    <2>4. reply' = 0
        <3>1. Cardinality(Range(args) \cap expect[k]) = 0 BY <2>1, EmptyCounted, Zenon
        <3> QED BY <2>3, <3>1
    <2>5. expect' = expect BY <1>1, <1>5, <2>1, Zenon DEF StoreInv, StoreTyped
    <2> QED BY <1>1, <2>2, <2>4, <2>5, StoreSame, Zenon
<1> QED BY <1>6, <1>7, Zenon

LEMMA SpopStep ==
    ASSUME Counting, IInv, NEW k \in Keys, NEW n, NEW popped, spop(k, n, popped)
    PROVE  StoreInv' /\ reply' = 0
<1>1. StoreInv BY Zenon DEF IInv
<1>2. /\ Matches(k)
      /\ popped \subseteq MembersOf(k, meta[k].version)
      /\ Batch([meta EXCEPT ![k] = Shrunk(k, Cardinality(popped))],
               Entries(k, meta[k].version, popped), {})
      /\ expect' = [expect EXCEPT ![k] = expect[k] \ popped]
      /\ reply' = Cardinality(popped) - Cardinality({m \in popped : m \in expect[k]})
    BY Zenon DEF spop, Reply
<1>3. expect[k] = MembersOf(k, meta[k].version) /\ expect[k] \subseteq Members
    BY <1>1, <1>2, ExpectedNow, Zenon
<1>4. popped \in SUBSET expect[k] BY <1>2, <1>3, Zenon
<1>5. StoreInv' BY <1>1, <1>2, <1>4, MembersGo, Zenon
<1>6. {m \in popped : m \in expect[k]} = popped BY <1>4, Zenon
<1>7. Cardinality(popped) \in Nat BY <1>3, <1>4, Counted, Zenon
<1>8. Cardinality({m \in popped : m \in expect[k]}) = Cardinality(popped) BY <1>6, Zenon
<1>9. reply' = 0 BY <1>2, <1>7, <1>8
<1> QED BY <1>5, <1>9, Zenon

\* DEL and SET leave no set under the key.
LEMMA NoSetLeft ==
    ASSUME StoreInv, NEW k \in Keys, NEW mv \in Metas, ~LiveSet(mv), mv.version <= clock,
           Batch([meta EXCEPT ![k] = mv], {}, {}),
           expect' = [expect EXCEPT ![k] = {}]
    PROVE  StoreInv'
<1>1. Rewrites(k, mv, {}, 0, {}, 0, {})
    BY Zenon DEF Batch, Entries, Rewrites, Rewritten
<1>2. {} \in SUBSET Members /\ 0 \in Nat /\ 0 <= clock
    BY DEF StoreInv, StoreTyped
<1> QED BY <1>1, <1>2, OneKey, Zenon

LEMMA DelStep ==
    ASSUME IInv, NEW k \in Keys, del_key(k)
    PROVE  StoreInv' /\ reply' = 0
<1> DEFINE mv == IF meta[k].type = "string" THEN NoMeta ELSE SetMeta(0, clock)
<1>1. StoreInv /\ clock \in Nat BY Zenon DEF IInv, StoreInv, StoreTyped
<1>2. /\ Batch([meta EXCEPT ![k] = mv], {}, {})
      /\ expect' = [expect EXCEPT ![k] = {}]
      /\ reply' = 0
    BY DEF del_key, initial_meta_value, Reply
<1>3. mv \in Metas /\ ~LiveSet(mv) /\ mv.version <= clock
    BY <1>1, MetaValues DEF LiveSet
<1> HIDE DEF mv
<1> QED BY <1>1, <1>2, <1>3, NoSetLeft, Zenon

LEMMA SetStep ==
    ASSUME IInv, NEW k \in Keys, set(k)
    PROVE  StoreInv' /\ reply' = 0
<1> DEFINE mv == [NoMeta EXCEPT !.type = "string"]
<1>1. StoreInv /\ clock \in Nat /\ reply = 0 BY Zenon DEF IInv, StoreInv, StoreTyped
<1>2. /\ Batch([meta EXCEPT ![k] = mv], {}, {})
      /\ expect' = [expect EXCEPT ![k] = {}]
      /\ reply' = reply
    BY Zenon DEF set
<1>3. mv \in Metas /\ ~LiveSet(mv) /\ mv.version <= clock
    <2>1. mv \in Metas BY Zenon DEF NoMeta, Metas
    <2>2. mv.type = "string" /\ mv.version = 0 BY Zenon DEF NoMeta
    <2> HIDE DEF mv
    <2> QED BY <1>1, <2>1, <2>2 DEF LiveSet
<1> HIDE DEF mv
<1> QED BY <1>1, <1>2, <1>3, NoSetLeft, Zenon

LEMMA LapseStep ==
    ASSUME Counting, IInv, NEW k \in Keys, Lapse(k)
    PROVE  StoreInv' /\ reply' = 0
<1>1. StoreInv /\ reply = 0 BY Zenon DEF IInv
<1>2. /\ clock' = clock /\ data' = data /\ reply' = reply
      /\ meta' = [meta EXCEPT ![k] = [meta[k] EXCEPT !.expired = TRUE]]
      /\ expect' = [expect EXCEPT ![k] = {}]
    BY Zenon DEF Lapse
<1> DEFINE K == {k}
<1>3. /\ clock \in Nat /\ meta[k] \in Metas /\ meta[k].version < clock
    BY <1>1, ExpectedNow, Zenon
<1>4. /\ meta' \in [Keys -> Metas] /\ expect' \in [Keys -> SUBSET Members]
      /\ meta'[k].expired /\ meta'[k].version = meta[k].version /\ expect'[k] = {}
      /\ meta'[k] \in Metas
    BY <1>1, <1>2, <1>3, Zenon DEF StoreInv, StoreTyped, Metas
<1>5. ExactAt(k)'
    <2>1. ~Matches(k)' BY <1>4, MatchesThen, Zenon DEF LiveSet
    <2> QED BY <1>4, <2>1, Zenon DEF ExactAt, Contents
<1>6. /\ K \in SUBSET Keys
      /\ \A j \in Keys \ K : meta'[j] = meta[j] /\ expect'[j] = expect[j]
      /\ \A j \in K : meta'[j].version < clock' /\ ExactAt(j)'
      /\ data' \subseteq Stored
      /\ \A e \in data \ data' : e.key \in K
      /\ \A e \in data' \ data : e.key \in K /\ e.version < clock'
      /\ clock' \in Nat /\ clock <= clock'
    BY <1>1, <1>2, <1>3, <1>4, <1>5 DEF StoreInv, StoreTyped
<1> HIDE DEF K
<1> QED BY <1>1, <1>2, <1>4, <1>6, Framed, ZenonT(30)

LEMMA SmoveStep ==
    ASSUME Counting, InScope, IInv, NEW s \in Keys, NEW d \in Keys, NEW m \in Members, smove(s, d, m)
    PROVE  StoreInv' /\ reply' = 0
<1> DEFINE v == meta[s].version
           version == IF Fresh(d) THEN clock ELSE meta[d].version
           there == m \in MembersOf(d, version)
           gone == {m}
           sourceMeta == Shrunk(s, 1)
           destMeta == IF Fresh(d) THEN SetMeta(1, version) ELSE [meta[d] EXCEPT !.count = meta[d].count + 1]
<1>1. StoreInv BY Zenon DEF IInv
<1>2. s # d BY Zenon DEF smove, InScope
<1>3. /\ Matches(s) /\ m \in MembersOf(s, v) /\ ~WrongType(d)
      /\ IF there
         THEN Batch([meta EXCEPT ![s] = sourceMeta], Entries(s, v, gone), {})
         ELSE Batch([[meta EXCEPT ![s] = sourceMeta] EXCEPT ![d] = destMeta],
                    Entries(s, v, gone), Entries(d, version, gone))
      /\ expect' = [expect EXCEPT ![s] = @ \ gone, ![d] = @ \cup gone]
      /\ reply' = 1 - (IF m \in expect[s] THEN 1 ELSE 0)
    BY <1>2, Zenon DEF smove, Reply, initial_meta_value
<1>4. /\ expect[s] = MembersOf(s, v) /\ expect[s] \subseteq Members
      /\ meta[s] \in Metas /\ v \in Nat /\ v < clock /\ clock \in Nat
    BY <1>1, <1>3, ExpectedNow, Zenon
<1>5. gone \in SUBSET expect[s] /\ gone \subseteq Members /\ Cardinality(gone) = 1 /\ reply' = 0
    <2>1. m \in expect[s] BY <1>3, <1>4, Zenon
    <2>2. Cardinality(gone) = 1 BY CountOne, Zenon
    <2>3. reply' = 0 BY <1>3, <2>1
    <2> QED BY <2>1, <2>2, <2>3, Zenon
<1>6. Fresh(d) <=> ~Matches(d) BY <1>1, <1>3, MatchesIs, Zenon DEF StoreInv
<1>7. /\ version \in Nat /\ version <= clock
      /\ expect[d] \subseteq Members
      /\ expect[d] = MembersOf(d, version)
      /\ Fresh(d) => expect[d] = {}
    <2>1. CASE Fresh(d)
        <3>1. MembersOf(d, clock) = {} BY <1>1, NothingAhead, Zenon DEF StoreInv
        <3>2. expect[d] = {} BY <1>1, <1>6, <2>1, ExpectedNow, Zenon
        <3> QED BY <1>4, <2>1, <3>1, <3>2
    <2>2. CASE ~Fresh(d)
        <3>1. version = meta[d].version BY <2>2, Zenon
        <3>2. Matches(d) BY <1>6, <2>2, Zenon
        <3> HIDE DEF version
        <3>3. /\ meta[d].version \in Nat /\ meta[d].version < clock /\ clock \in Nat
              /\ expect[d] \subseteq Members /\ expect[d] = MembersOf(d, meta[d].version)
            BY <1>1, <3>2, ExpectedNow, Zenon
        <3> QED BY <2>2, <3>1, <3>3
    <2> QED BY <2>1, <2>2, Zenon
<1>8. CASE there
    <2>1. Batch([meta EXCEPT ![s] = Shrunk(s, Cardinality(gone))],
                Entries(s, meta[s].version, gone), {})
        BY <1>3, <1>5, <1>8, Zenon
    <2>2. expect' = [expect EXCEPT ![s] = expect[s] \ gone]
        <3>1. expect[d] \cup gone = expect[d] BY <1>7, <1>8, Zenon
        <3>2. expect \in [Keys -> SUBSET Members] BY <1>1, Zenon DEF StoreInv, StoreTyped
        <3> HIDE DEF gone
        <3> QED BY <1>2, <1>3, <3>1, <3>2, Zenon
    <2> HIDE DEF gone
    <2> QED BY <1>1, <1>3, <1>5, <2>1, <2>2, MembersGo, Zenon
<1>9. CASE ~there
    <2>1. /\ clock' = clock + 1
          /\ meta' = [meta EXCEPT ![s] = sourceMeta, ![d] = destMeta]
          /\ Rewritten(s, v, gone, d, version, gone)
        BY <1>3, <1>9, Zenon DEF Batch, Rewritten
    <2>2. /\ sourceMeta \in Metas /\ sourceMeta.version <= clock
          /\ LiveSet(sourceMeta) => /\ sourceMeta.version = v
                                    /\ sourceMeta.count = Cardinality(expect[s] \ gone)
          /\ ~LiveSet(sourceMeta) => expect[s] \ gone = {}
        <3>1. sourceMeta = Shrunk(s, Cardinality(gone)) BY <1>5, Zenon
        <3> HIDE DEF sourceMeta, gone
        <3>2. CASE gone = expect[s]
            <4>1. sourceMeta = NoMeta BY <1>1, <1>3, <1>5, <3>1, <3>2, ShrunkIs, ZenonT(30)
            <4>2. expect[s] \ gone = {} BY <3>2, Zenon
            <4> QED BY <1>4, <4>1, <4>2, MetaValues DEF LiveSet
        <3>3. CASE gone # expect[s]
            <4>1. /\ sourceMeta \in Metas /\ sourceMeta.type = "set"
                  /\ sourceMeta.count = Cardinality(expect[s] \ gone) /\ sourceMeta.count # 0
                  /\ sourceMeta.version = v /\ ~sourceMeta.expired
                BY <1>1, <1>3, <1>5, <3>1, <3>3, ShrunkIs, ZenonT(30)
            <4> HIDE DEF v
            <4> QED BY <1>4, <4>1 DEF LiveSet
        <3> QED BY <3>2, <3>3, Zenon
    <2>3. /\ destMeta \in Metas /\ LiveSet(destMeta) /\ destMeta.version = version
          /\ destMeta.count = Cardinality(expect[d] \cup gone)
        <3>1. Cardinality(expect[d] \cup gone) = Cardinality(expect[d]) + 1
            <4>1. expect[d] \cap gone = {} BY <1>7, <1>9, Zenon
            <4> HIDE DEF gone
            <4> QED BY <1>5, <1>7, <4>1, CountAdded, Zenon
        <3>2. CASE Fresh(d)
            <4>1. Cardinality(expect[d]) = 0 BY <1>7, <3>2, EmptyCounted, Zenon
            <4>2. Cardinality(expect[d] \cup gone) = 1 BY <3>1, <4>1
            <4>3. destMeta = SetMeta(1, version) BY <3>2, Zenon
            <4> HIDE DEF version, gone, destMeta
            <4>4. version \in Nat BY <1>7, Zenon
            <4>5. /\ destMeta \in Metas /\ destMeta.type = "set" /\ destMeta.count = 1
                  /\ destMeta.version = version /\ ~destMeta.expired
                BY <4>3, <4>4, MetaValues
            <4> QED BY <4>2, <4>5 DEF LiveSet
        <3>3. CASE ~Fresh(d)
            <4>1. /\ meta[d] \in Metas /\ meta[d].count \in Nat
                  /\ meta[d].count = Cardinality(expect[d])
                  /\ meta[d].type = "set" /\ ~meta[d].expired
                BY <1>1, <1>6, <3>3, ExpectedNow, Zenon
            <4>2. destMeta = [meta[d] EXCEPT !.count = meta[d].count + 1] /\ version = meta[d].version
                BY <3>3, Zenon
            <4> HIDE DEF version, gone, destMeta
            <4> QED BY <3>1, <4>1, <4>2 DEF LiveSet, Metas
        <3> QED BY <3>2, <3>3, Zenon
    <2>4. /\ expect[s] \ gone = Under(data', s, v)
          /\ expect[d] \cup gone = Under(data', d, version)
        <3> HIDE DEF v, version, gone
        <3>1. Under(data', s, v) =
                {x \in Members : \/ x \in MembersOf(s, v) /\ ~(s = s /\ v = v /\ x \in gone)
                                 \/ s = d /\ v = version /\ x \in gone}
            BY <2>1, MembersThen
        <3>2. Under(data', d, version) =
                {x \in Members : \/ x \in MembersOf(d, version) /\ ~(d = s /\ version = v /\ x \in gone)
                                 \/ d = d /\ version = version /\ x \in gone}
            BY <2>1, MembersThen
        <3> QED BY <1>2, <1>4, <1>5, <1>7, <3>1, <3>2
    <2> HIDE DEF v, version, gone, sourceMeta, destMeta
    <2>5. /\ meta' \in [Keys -> Metas] /\ expect' \in [Keys -> SUBSET Members]
          /\ meta'[s] = sourceMeta /\ meta'[d] = destMeta
          /\ expect'[s] = expect[s] \ gone /\ expect'[d] = expect[d] \cup gone
        BY <1>1, <1>2, <1>3, <1>4, <1>5, <1>7, <2>1, <2>2, <2>3 DEF StoreInv, StoreTyped
    <2>6. ExactAt(s)'
        <3>1. Matches(s)' <=> LiveSet(sourceMeta) BY <2>2, <2>5, MatchesThen, Zenon
        <3>2. Contents(s)' = IF Matches(s)' THEN Under(data', s, sourceMeta.version) ELSE {}
            BY <2>5, Zenon DEF Contents, MembersOf, Under
        <3> QED BY <2>2, <2>4, <2>5, <3>1, <3>2, Zenon DEF ExactAt
    <2>7. ExactAt(d)'
        <3>1. Matches(d)' <=> LiveSet(destMeta) BY <2>3, <2>5, MatchesThen, Zenon
        <3>2. Contents(d)' = IF Matches(d)' THEN Under(data', d, destMeta.version) ELSE {}
            BY <2>5, Zenon DEF Contents, MembersOf, Under
        <3> QED BY <2>3, <2>4, <2>5, <3>1, <3>2 DEF ExactAt
    <2> DEFINE K == {s, d}
    <2>8. /\ K \in SUBSET Keys
          /\ \A j \in Keys \ K : meta'[j] = meta[j] /\ expect'[j] = expect[j]
        BY <1>1, <1>3, <2>1, Zenon DEF StoreInv, StoreTyped
    <2>9. sourceMeta.version < clock' /\ version < clock' /\ clock' \in Nat /\ clock <= clock'
        <3>1. sourceMeta.version \in Nat BY <2>2, Zenon DEF Metas
        <3> QED BY <1>4, <1>7, <2>1, <2>2, <3>1
    <2>10. \A j \in K : meta'[j].version < clock' /\ ExactAt(j)'
        BY <2>3, <2>5, <2>6, <2>7, <2>9
    <2>11. /\ data' \subseteq Stored
           /\ \A e \in data \ data' : e.key \in K
           /\ \A e \in data' \ data : e.key \in K /\ e.version < clock'
        BY <1>1, <1>5, <1>7, <2>1, <2>9 DEF StoreInv, StoreTyped, Entries, Stored, Rewritten
    <2> HIDE DEF K
    <2>12. StoreInv' BY <1>1, <2>5, <2>8, <2>9, <2>10, <2>11, Framed, Zenon
    <2> QED BY <1>5, <2>12, Zenon
<1> QED BY <1>8, <1>9, Zenon

LEMMA StoreStep ==
    ASSUME Counting, IInv, NEW c \in Clients, clear_and_store_set(c)
    PROVE  StoreInv' /\ reply' = 0
<1> DEFINE d == client[c].dest
           acc == client[c].acc
           v == meta[d].version
           ms == IF Matches(d) THEN Contents(d) ELSE {}
           mv == IF acc = {} THEN NoMeta ELSE SetMeta(Cardinality(acc), clock)
<1>1. StoreInv /\ clock \in Nat BY Zenon DEF IInv, StoreInv, StoreTyped
<1>2. d \in Keys /\ acc \in SUBSET Members
    BY Zenon DEF IInv, ClientsTyped, Reading, clear_and_store_set
<1>3. Cardinality(acc) \in Nat /\ (Cardinality(acc) = 0 <=> acc = {})
    BY <1>2, Counted, Zenon
<1>4. /\ Batch([meta EXCEPT ![d] = mv], Entries(d, v, ms), Entries(d, clock, acc))
      /\ expect' = [expect EXCEPT ![d] = acc]
      /\ reply' = Cardinality(acc) - Cardinality(acc)
    BY Zenon DEF clear_and_store_set, initial_meta_value, Reply
<1>5. Rewrites(d, mv, acc, v, ms, clock, acc)
    BY <1>4, Zenon DEF Batch, Rewrites, Rewritten
<1>6. v \in Nat /\ v < clock BY <1>1, <1>2, ExpectedNow, Zenon
<1>7. MembersOf(d, clock) = {} BY <1>1, NothingAhead, Zenon DEF StoreInv
<1> HIDE DEF d, acc, v, ms
<1>8. /\ mv \in Metas /\ mv.version <= clock
      /\ LiveSet(mv) => mv.version = clock /\ mv.count = Cardinality(acc)
      /\ ~LiveSet(mv) => acc = {}
    <2>1. CASE acc = {}
        <3>1. mv = NoMeta BY <2>1, Zenon
        <3> HIDE DEF mv
        <3> QED BY <1>1, <2>1, <3>1, MetaValues DEF LiveSet
    <2>2. CASE acc # {}
        <3>1. mv = SetMeta(Cardinality(acc), clock) BY <2>2, Zenon
        <3> HIDE DEF mv
        <3> QED BY <1>1, <1>3, <2>2, <3>1, MetaValues DEF LiveSet
    <2> QED BY <2>1, <2>2, Zenon
<1>9. acc = Under(data', d, clock)
    <2>1. Rewritten(d, v, ms, d, clock, acc) BY <1>5, Zenon DEF Rewrites
    <2>2. Under(data', d, clock) =
            {x \in Members : \/ x \in MembersOf(d, clock) /\ ~(d = d /\ clock = v /\ x \in ms)
                             \/ d = d /\ clock = clock /\ x \in acc}
        BY <2>1, MembersThen
    <2> QED BY <1>2, <1>7, <2>2, Zenon
<1>10. LiveSet(mv) => acc = Under(data', d, mv.version)
    BY <1>8, <1>9, Zenon
<1> HIDE DEF mv
<1>11. clock <= clock BY <1>1
<1>12. StoreInv' BY <1>1, <1>2, <1>5, <1>8, <1>10, <1>11, OneKey
<1> QED BY <1>3, <1>4, <1>12

-----------------------------------------------------------------------------
(* The reads. *)

LEMMA StringsAreMembers ==
    ASSUME NEW S, S \subseteq Members
    PROVE  Strings(S) \subseteq Members
BY LossyAssumption, Zenon DEF Strings

LEMMA IdleReads == Reading(Idle)
BY Zenon DEF Reading, Idle

LEMMA AnswerReads ==
    ASSUME NEW r, Reading(r), NEW S, S \subseteq Members
    PROVE  Reading(Answer(r, S))
BY Zenon DEF Reading, Answer

LEMMA NextMemberReads ==
    ASSUME NEW r, Reading(r)
    PROVE  Reading(NextMember(r))
<1>1. Strings(r.acc) \subseteq Members BY StringsAreMembers, Zenon DEF Reading
<1>2. Reading(Answer(r, Strings(r.acc))) BY <1>1, AnswerReads, Zenon
<1>3. Reading([Answer(r, Strings(r.acc)) EXCEPT !.left = {}]) BY <1>2, Zenon DEF Reading
<1>4. \A first : Reading([r EXCEPT !.pc = "lookup", !.i = first]) BY Zenon DEF Reading
<1> QED BY <1>3, <1>4, Zenon DEF NextMember

LEMMA NextKeyReads ==
    ASSUME NEW r, Reading(r)
    PROVE  Reading(NextKey(r))
<1>1. \A n : Reading([r EXCEPT !.pc = "meta", !.cur = n]) BY Zenon DEF Reading
<1>2. Reading([r EXCEPT !.pc = "result"]) BY Zenon DEF Reading
<1> QED BY <1>1, <1>2, Zenon DEF NextKey

LEMMA ComparedReads ==
    ASSUME NEW r, Reading(r), NEW present
    PROVE  Reading(Compared(r, present))
<1> DEFINE m == Current(r)
           both == [r EXCEPT !.left = @ \ {m}, !.acc = @ \ {m}]
           left == [r EXCEPT !.left = @ \ {m}]
<1> HIDE DEF m
<1>1. Reading(both) /\ Reading(left) BY Zenon DEF Reading
<1>2. \A n : Reading([r EXCEPT !.pc = "lookup", !.i = n]) BY Zenon DEF Reading
<1> HIDE DEF both, left
<1>3. Reading(NextMember(both)) /\ Reading(NextMember(left)) BY <1>1, NextMemberReads, Zenon
<1> QED BY <1>2, <1>3, Zenon DEF Compared, both, left, m

\* A read changes nothing but the client that takes it.
LEMMA ReadStep ==
    ASSUME IInv, NEW c \in Clients, NEW r, Reading(r), Step(c, r)
    PROVE  IInv'
<1>1. StoreInv' BY StoreSame, Zenon DEF IInv, Step
<1>2. reply' = 0 BY Zenon DEF IInv, Step
<1>3. ClientsTyped'
    <2>1. client' = [client EXCEPT ![c] = r] BY Zenon DEF Step
    <2> QED BY <2>1, Zenon DEF IInv, ClientsTyped
<1> QED BY <1>1, <1>2, <1>3, Zenon DEF IInv

LEMMA FailedReads ==
    ASSUME NEW k, NEW r, Reading(r)
    PROVE  Reading(Failed(k, r))
BY IdleReads, Zenon DEF Failed

LEMMA ReadSteps ==
    ASSUME IInv, NEW c \in Clients, Read(c), ~clear_and_store_set(c)
    PROVE  IInv'
<1> DEFINE r == client[c]
<1>1. Reading(r) BY Zenon DEF IInv, ClientsTyped
<1> HIDE DEF r
<1>2. ASSUME NEW op, NEW keys, NEW dest \in Destinations \cup {NoDestination},
             Start(c, op, keys, dest)
      PROVE  IInv'
    <2> DEFINE next == [Idle EXCEPT
                           !.pc = IF op = "inter" /\ Len(keys) > 1 THEN "size" ELSE "meta",
                           !.op = op, !.keys = keys, !.dest = dest, !.i = 1, !.cur = 1]
    <2>1. Reading(next) BY ArgsAssumption, Zenon DEF Reading, Idle
    <2>2. Step(c, next) BY <1>2, Zenon DEF Start
    <2> HIDE DEF next
    <2> QED BY <2>1, <2>2, ReadStep, Zenon
<1>3. ASSUME size(c) PROVE IInv'
    <2> DEFINE k == r.keys[r.i]
               smaller == r.size = 0 \/ meta[k].count < r.size
               best == [r EXCEPT !.cur = IF smaller THEN r.i ELSE @,
                                 !.size = IF smaller THEN meta[k].count ELSE @]
               next == IF Fresh(k) THEN Answer(r, {})
                       ELSE IF r.i < Len(r.keys) THEN [best EXCEPT !.i = @ + 1]
                       ELSE [best EXCEPT !.pc = "meta"]
    <2>1. Reading(best) BY <1>1, Zenon DEF Reading
    <2>2. Reading(Answer(r, {})) BY <1>1, AnswerReads, Zenon
    <2>3. Step(c, Failed(k, next)) BY <1>3, Zenon DEF size, r
    <2> HIDE DEF best
    <2>4. Reading([best EXCEPT !.i = @ + 1]) /\ Reading([best EXCEPT !.pc = "meta"])
        BY <2>1, Zenon DEF Reading
    <2>5. Reading(next) BY <2>2, <2>4, Zenon
    <2> HIDE DEF next, k
    <2> QED BY <2>3, <2>5, FailedReads, ReadStep, Zenon
<1>4. ASSUME smembers_meta(c) PROVE IInv'
    <2> DEFINE k == r.keys[r.cur]
               next == IF ~Fresh(k) THEN [r EXCEPT !.pc = "iterate", !.version = meta[k].version]
                       ELSE IF r.op = "union" THEN NextKey(r)
                       ELSE Answer(r, {})
    <2>1. Reading([r EXCEPT !.pc = "iterate", !.version = meta[k].version])
        BY <1>1, Zenon DEF Reading
    <2>2. Reading(NextKey(r)) /\ Reading(Answer(r, {})) BY <1>1, NextKeyReads, AnswerReads, Zenon
    <2>3. Step(c, Failed(k, next)) BY <1>4, Zenon DEF smembers_meta, r
    <2>4. Reading(next) BY <2>1, <2>2, Zenon
    <2> HIDE DEF next, k
    <2> QED BY <2>3, <2>4, FailedReads, ReadStep
<1>5. ASSUME smembers_iterate(c) PROVE IInv'
    <2> DEFINE found == MembersOf(r.keys[r.cur], r.version)
               members == IF r.op = "diff" THEN found ELSE Strings(found)
               more == [r EXCEPT !.acc = @ \cup members]
               all == [r EXCEPT !.left = members, !.acc = members]
               next == IF r.op = "union" THEN NextKey(more) ELSE NextMember(all)
    <2>1. members \subseteq Members
        <3>1. found \subseteq Members BY Zenon DEF MembersOf
        <3> HIDE DEF found
        <3> QED BY <3>1, StringsAreMembers, Zenon
    <2>2. Step(c, next) BY <1>5, Zenon DEF smembers_iterate, r
    <2> HIDE DEF members
    <2>3. Reading(more) /\ Reading(all) BY <1>1, <2>1, Zenon DEF Reading
    <2> HIDE DEF more, all
    <2>4. Reading(next) BY <2>3, NextKeyReads, NextMemberReads, Zenon
    <2> HIDE DEF next
    <2> QED BY <2>2, <2>4, ReadStep, Zenon
<1>6. ASSUME sismember_meta(c) PROVE IInv'
    <2> DEFINE k == r.keys[r.i]
               next == IF Fresh(k) THEN Compared(r, FALSE)
                       ELSE [r EXCEPT !.pc = "get", !.version = meta[k].version]
    <2>1. Reading([r EXCEPT !.pc = "get", !.version = meta[k].version])
        BY <1>1, Zenon DEF Reading
    <2>2. Reading(Compared(r, FALSE)) BY <1>1, ComparedReads, Zenon
    <2>3. Step(c, Failed(k, next)) BY <1>6, Zenon DEF sismember_meta, r
    <2>4. Reading(next) BY <2>1, <2>2, Zenon
    <2> HIDE DEF next, k
    <2> QED BY <2>3, <2>4, FailedReads, ReadStep, Zenon
<1>7. ASSUME sismember_get(c) PROVE IInv'
    <2> DEFINE next == Compared(r, Current(r) \in MembersOf(r.keys[r.i], r.version))
    <2>1. Step(c, next) BY <1>7, Zenon DEF sismember_get, r
    <2>2. Reading(next) BY <1>1, ComparedReads, Zenon
    <2> HIDE DEF next
    <2> QED BY <2>1, <2>2, ReadStep, Zenon
<1>8. ASSUME Return(c) PROVE IInv'
    BY <1>8, IdleReads, ReadStep, Zenon DEF Return
<1> QED BY <1>2, <1>3, <1>4, <1>5, <1>6, <1>7, <1>8 DEF Read

\* A command that writes leaves the clients alone; a *STORE command ends.
LEMMA WriteSteps ==
    ASSUME Counting, InScope, IInv, Write
    PROVE  IInv'
<1>1. StoreInv' /\ reply' = 0
    BY SaddStep, SremStep, SpopStep, SmoveStep, DelStep, SetStep, LapseStep DEF Write
<1>2. client' = client
    <2>1. \A k, args : sadd(k, args) => client' = client BY Zenon DEF sadd
    <2>2. \A k, args : srem(k, args) => client' = client BY Zenon DEF srem
    <2>3. \A k, n, popped : spop(k, n, popped) => client' = client BY Zenon DEF spop
    <2>4. \A k, d, m : smove(k, d, m) => client' = client BY DEF smove
    <2>5. \A k : del_key(k) => client' = client BY Zenon DEF del_key
    <2>6. \A k : set(k) => client' = client BY Zenon DEF set
    <2>7. \A k : Lapse(k) => client' = client BY Zenon DEF Lapse
    <2> QED BY <2>1, <2>2, <2>3, <2>4, <2>5, <2>6, <2>7 DEF Write
<1> QED BY <1>1, <1>2, Zenon DEF IInv, ClientsTyped

LEMMA StoreSteps ==
    ASSUME Counting, IInv, NEW c \in Clients, clear_and_store_set(c)
    PROVE  IInv'
<1>1. StoreInv' /\ reply' = 0 BY StoreStep, Zenon
<1>2. client' = [client EXCEPT ![c] = Idle] BY Zenon DEF clear_and_store_set
<1>3. ClientsTyped' BY <1>2, IdleReads, Zenon DEF IInv, ClientsTyped
<1> QED BY <1>1, <1>3, Zenon DEF IInv

LEMMA InitHolds == Init => IInv
<1> SUFFICES ASSUME Init PROVE IInv BY Zenon
<1>1. StoreTyped BY MetaValues, Zenon DEF Init, StoreTyped
<1>2. Versions BY MetaValues DEF Init, Versions
<1>3. ASSUME NEW k \in Keys PROVE ExactAt(k)
    <2>1. meta[k].type = "none" /\ expect[k] = {} BY MetaValues, Zenon DEF Init
    <2>2. ~Matches(k) BY <1>1, <2>1, MatchesIs, Zenon DEF LiveSet
    <2> QED BY <2>1, <2>2, Zenon DEF ExactAt, Contents
<1>4. ClientsTyped BY IdleReads, Zenon DEF Init, ClientsTyped
<1>5. reply = 0 BY Zenon DEF Init
<1> QED BY <1>1, <1>2, <1>3, <1>4, <1>5, Zenon DEF IInv, StoreInv, Exact

LEMMA InvKept ==
    ASSUME Counting, InScope, IInv, [Next]_vars
    PROVE  IInv'
<1>1. CASE Write BY <1>1, WriteSteps, Zenon
<1>2. ASSUME NEW c \in Clients, Read(c) PROVE IInv'
    BY <1>2, ReadSteps, StoreSteps, Zenon
<1>3. CASE UNCHANGED vars
    <2>1. StoreInv' BY <1>3, StoreSame, Zenon DEF IInv, vars
    <2> QED BY <1>3, <2>1, Zenon DEF IInv, ClientsTyped, vars
<1> QED BY <1>1, <1>2, <1>3, Zenon DEF Next

-----------------------------------------------------------------------------
(* Where a read stands.  In the following r is the record of a client and w  *)
(* its view: the members that the keys held always and ever since the read   *)
(* started.                                                                  *)

\* The fields of a read.
Going(r) ==
    /\ DOMAIN r = {"pc", "op", "keys", "dest", "i", "cur", "size", "version", "acc", "left"}
    /\ r.op \in {"union", "inter", "diff"}
    /\ r.keys \in Seq(Keys)
    /\ r.cur \in 1..Len(r.keys)
    /\ r.i \in 1..Len(r.keys)
    /\ r.acc \subseteq Members
    /\ r.left \subseteq r.acc
    /\ r.dest \in Destinations \cup {NoDestination}

\* The keys that SINTER and SDIFF compare a member with.
Against(r) == IF r.op = "diff" THEN 2..Len(r.keys) ELSE 1..Len(r.keys)

\* The comparison of m with a key must have come out well, and can have.
Sure(r, w, m, j) ==
    IF r.op = "diff" THEN m \notin w.ever[r.keys[j]] ELSE m \in w.always[r.keys[j]]
May(r, w, m, j) ==
    IF r.op = "diff" THEN m \notin w.always[r.keys[j]] ELSE m \in w.ever[r.keys[j]]

\* SINTER and SDIFF hold what is left of the members of their first key, and have
\* compared those that are not in left.
Between(r, w) ==
    /\ r.acc \subseteq w.ever[r.keys[r.cur]]
    /\ \A m \in w.always[r.keys[r.cur]] :
           (\A j \in Against(r) : Sure(r, w, m, j)) => m \in r.acc
    /\ \A m \in r.acc \ r.left : \A j \in Against(r) : May(r, w, m, j)

\* SUNION has the members of the keys before cur.
Gathered(r, w) ==
    /\ r.pc \in {"meta", "iterate", "result"}
    /\ \A m \in r.acc : \E j \in DOMAIN r.keys : m \in w.ever[r.keys[j]]
    /\ \A j \in DOMAIN r.keys :
           j < r.cur \/ r.pc = "result" => w.always[r.keys[j]] \subseteq r.acc

\* SINTER and SDIFF have compared the current member with the keys before i.
Sifted(r, w) ==
    /\ r.pc \in {"size", "meta", "iterate", "lookup", "get", "result"}
    /\ r.op = "diff" => r.cur = 1 /\ r.pc # "size"
    /\ r.pc \in {"size", "meta", "iterate"} => r.left = {}
    /\ r.pc \in {"lookup", "get", "result"} => Between(r, w)
    /\ r.pc \in {"lookup", "get"} =>
           /\ r.left # {}
           /\ r.i \in Against(r)
           /\ \A j \in Against(r) : j < r.i => May(r, w, Current(r), j)
    /\ r.pc = "result" => r.left = {}

Sofar(r, w) == IF r.op = "union" THEN Gathered(r, w) ELSE Sifted(r, w)

\* What the entries d hold under the live version of a key.
Now(d, metas, k) == IF LiveSet(metas[k]) THEN Under(d, k, metas[k].version) ELSE {}

\* The view of a key has not been narrower than its contents.
Bounds(d, metas, w, k) ==
    w.always[k] \subseteq Now(d, metas, k) /\ Now(d, metas, k) \subseteq w.ever[k]

\* The version of a key that a read has found: its entries were members at some
\* time, and it is the live one unless the key was without a set in between.
Found(d, metas, now, w, k, v) ==
    /\ v \in Nat /\ v < now
    /\ Under(d, k, v) \subseteq w.ever[k]
    /\ (LiveSet(metas[k]) /\ metas[k].version = v) \/ w.always[k] = {}

Tracked(d, metas, now, r, w) ==
    /\ \A k \in Range(r.keys) : Bounds(d, metas, w, k)
    /\ r.pc = "iterate" => Found(d, metas, now, w, r.keys[r.cur], r.version)
    /\ r.pc = "get" => Found(d, metas, now, w, r.keys[r.i], r.version)

ReadAt(d, metas, now, r, w) ==
    r.pc # "idle" => Going(r) /\ Sofar(r, w) /\ Tracked(d, metas, now, r, w)

ReadsInv ==
    /\ DOMAIN client = Clients
    /\ \A c \in Clients : ReadAt(data, meta, clock, client[c], seen[c])

-----------------------------------------------------------------------------
(* Steps of a read. *)

\* The keys between i and the next one to compare with are the one whose members
\* the read holds.
Skips(r, i, next) ==
    /\ next # 0 => next \in (i + 1)..Len(r.keys)
    /\ \A j \in (i + 1)..Len(r.keys) : next = 0 \/ j < next =>
           r.op # "diff" /\ r.keys[j] = r.keys[r.cur]

LEMMA OtherFacts ==
    ASSUME LeastExists, NEW r, Len(r.keys) \in Nat, NEW i \in Nat
    PROVE  Skips(r, i, Other(r, i))
<1> DEFINE n == Len(r.keys)
           later == {j \in (i + 1)..n : r.keys[j] # r.keys[r.cur] \/ r.op = "diff"}
           first == CHOOSE j \in later : \A k \in later : j <= k
<1>1. Other(r, i) = IF later = {} THEN 0 ELSE first
    BY Zenon DEF Other
<1>2. later \in SUBSET Nat /\ 0 \notin later /\ later \subseteq (i + 1)..n
    OBVIOUS
<1>3. \A j \in (i + 1)..n : j \notin later => r.op # "diff" /\ r.keys[j] = r.keys[r.cur]
    BY Zenon
<1>4. CASE later = {}
    <2>1. Other(r, i) = 0 BY <1>1, <1>4, Zenon
    <2>2. \A j \in (i + 1)..n : j \notin later BY <1>4, Zenon
    <2> HIDE DEF later
    <2> QED BY <1>3, <2>1, <2>2, Zenon DEF Skips
<1>5. CASE later # {}
    <2> HIDE DEF later
    <2>1. \E j \in later : \A k \in later : j <= k
        BY <1>2, <1>5, Zenon DEF LeastExists
    <2>2. first \in later /\ \A k \in later : first <= k
        BY <2>1, Zenon
    <2>3. Other(r, i) = first BY <1>1, <1>5, Zenon
    <2> HIDE DEF first
    <2>4. first \in Nat /\ first # 0 /\ first \in (i + 1)..n BY <1>2, <2>2, Zenon
    <2>5. \A j \in (i + 1)..n : j < first => j \notin later
        <3> TAKE j \in (i + 1)..n
        <3>1. j \in later => first <= j BY <2>2, Zenon
        <3>2. j < first /\ first <= j => FALSE BY <2>4
        <3> QED BY <3>1, <3>2, Zenon
    <2> QED BY <1>3, <2>3, <2>4, <2>5, Zenon DEF Skips
<1> QED BY <1>4, <1>5, Zenon
\* What most steps leave as it is in the record of a read.
SameRead(q, r) ==
    DOMAIN q = DOMAIN r /\ q.op = r.op /\ q.keys = r.keys /\ q.cur = r.cur /\ q.dest = r.dest

LEMMA StringsSame ==
    ASSUME ReadScope, NEW S, S \subseteq Members
    PROVE  Strings(S) = S
BY Zenon DEF ReadScope, Strings

LEMMA GoingOn ==
    ASSUME NEW r, NEW q, Going(r), SameRead(q, r), q.acc \subseteq Members, q.left \subseteq q.acc,
           q.i \in 1..Len(r.keys)
    PROVE  Going(q)
BY Zenon DEF Going, SameRead

LEMMA NextMemberIs ==
    ASSUME ReadScope, NEW r, Going(r)
    PROVE  /\ SameRead(NextMember(r), r)
           /\ NextMember(r).acc = r.acc
           /\ LET first == Other(r, IF r.op = "diff" THEN 1 ELSE 0)
              IN  IF r.left = {} \/ first = 0
                  THEN /\ NextMember(r).pc = "result"
                       /\ NextMember(r).left = {}
                       /\ NextMember(r).i = r.i
                  ELSE /\ NextMember(r).pc = "lookup"
                       /\ NextMember(r).left = r.left
                       /\ NextMember(r).i = first
<1> DEFINE first == Other(r, IF r.op = "diff" THEN 1 ELSE 0)
           answer == [[r EXCEPT !.pc = "result", !.acc = r.acc] EXCEPT !.left = {}]
           lookup == [r EXCEPT !.pc = "lookup", !.i = first]
<1>1. Strings(r.acc) = r.acc
    BY StringsSame, Zenon DEF Going
<1>2. NextMember(r) = IF r.left = {} \/ first = 0 THEN answer ELSE lookup
    BY <1>1, Zenon DEF NextMember, Answer
<1>3. SameRead(answer, r) /\ answer.acc = r.acc /\ answer.pc = "result" /\ answer.left = {}
      /\ answer.i = r.i
    BY Zenon DEF Going, SameRead
<1> HIDE DEF first
<1>4. SameRead(lookup, r) /\ lookup.acc = r.acc /\ lookup.pc = "lookup" /\ lookup.left = r.left
      /\ lookup.i = first
    BY Zenon DEF Going, SameRead
<1> HIDE DEF answer, lookup
<1> QED BY <1>2, <1>3, <1>4, Zenon DEF first

\* A member that SINTER holds was in the key whose members it holds.
LEMMA SkippedMay ==
    ASSUME NEW r, NEW w, Between(r, w), NEW m \in r.acc, NEW j,
           r.op # "diff", r.keys[j] = r.keys[r.cur]
    PROVE  May(r, w, m, j)
BY Zenon DEF Between, May

\* The definitions above look at these fields only.
LEMMA SameTests ==
    ASSUME NEW r, NEW q, NEW w, SameRead(q, r)
    PROVE  /\ Against(q) = Against(r)
           /\ \A m, j : Sure(q, w, m, j) <=> Sure(r, w, m, j)
           /\ \A m, j : May(q, w, m, j) <=> May(r, w, m, j)
BY Zenon DEF SameRead, Against, Sure, May

LEMMA AgainstFacts ==
    ASSUME NEW r, Going(r)
    PROVE  /\ Len(r.keys) \in Nat
           /\ Against(r) = ((IF r.op = "diff" THEN 1 ELSE 0) + 1)..Len(r.keys)
           /\ Against(r) \subseteq 1..Len(r.keys)
           /\ (IF r.op = "diff" THEN 1 ELSE 0) \in Nat
<1>1. Len(r.keys) \in Nat BY DEF Going
<1> QED BY <1>1 DEF Against

LEMMA NextMemberSofar ==
    ASSUME LeastExists, ReadScope, NEW r, NEW w, Going(r), r.op # "union", Between(r, w),
           r.op = "diff" => r.cur = 1
    PROVE  /\ Going(NextMember(r)) /\ Sofar(NextMember(r), w)
           /\ NextMember(r).pc \in {"lookup", "result"}
           /\ NextMember(r).keys = r.keys
<1> DEFINE q == NextMember(r)
           base == IF r.op = "diff" THEN 1 ELSE 0
           first == Other(r, base)
<1>1. /\ SameRead(q, r) /\ q.acc = r.acc
      /\ r.left = {} \/ first = 0 => q.pc = "result" /\ q.left = {} /\ q.i = r.i
      /\ r.left # {} /\ first # 0 => q.pc = "lookup" /\ q.left = r.left /\ q.i = first
    BY NextMemberIs, Zenon
<1>2. /\ Len(r.keys) \in Nat /\ Against(r) = (base + 1)..Len(r.keys)
      /\ Against(r) \subseteq 1..Len(r.keys) /\ base \in Nat
    BY AgainstFacts, Zenon
<1> HIDE DEF q, base
<1>3. Skips(r, base, first)
    BY <1>2, OtherFacts, Zenon
<1> HIDE DEF first
<1>4. /\ first # 0 => first \in Against(r)
      /\ \A j \in Against(r) : first = 0 \/ j < first => r.op # "diff" /\ r.keys[j] = r.keys[r.cur]
    BY <1>2, <1>3, Zenon DEF Skips
<1>5. \A m \in r.acc, j \in Against(r) : first = 0 \/ j < first => May(r, w, m, j)
    BY <1>4, SkippedMay, Zenon
<1>6. /\ Against(q) = Against(r)
      /\ \A m, j : Sure(q, w, m, j) <=> Sure(r, w, m, j)
      /\ \A m, j : May(q, w, m, j) <=> May(r, w, m, j)
    BY <1>1, SameTests, Zenon
<1>7. r.left \subseteq r.acc /\ r.acc \subseteq Members /\ r.i \in 1..Len(r.keys)
    BY Zenon DEF Going
<1>8. q.op = r.op /\ q.keys = r.keys /\ q.cur = r.cur
    BY <1>1, Zenon DEF SameRead
<1>9. CASE r.left = {} \/ first = 0
    <2>1. q.pc = "result" /\ q.left = {} /\ q.i = r.i BY <1>1, <1>9, Zenon
    <2>2. Going(q) BY <1>1, <1>7, <2>1, GoingOn, Zenon
    <2>3. \A m \in r.acc : \A j \in Against(r) : May(r, w, m, j)
        BY <1>5, <1>9, Zenon DEF Between
    <2>4. Between(q, w)
        BY <1>1, <1>6, <1>8, <2>3, Zenon DEF Between
    <2>5. Sifted(q, w)
        BY <1>8, <2>1, <2>4, Zenon DEF Sifted
    <2> QED BY <1>8, <2>1, <2>2, <2>5, Zenon DEF Sofar, q
<1>10. CASE r.left # {} /\ first # 0
    <2>1. q.pc = "lookup" /\ q.left = r.left /\ q.i = first BY <1>1, <1>10, Zenon
    <2>2. first \in Against(r) /\ first \in 1..Len(r.keys) BY <1>2, <1>4, <1>10, Zenon
    <2>3. Going(q) BY <1>1, <1>7, <2>1, <2>2, GoingOn, Zenon
    <2>4. Between(q, w)
        BY <1>1, <1>6, <1>8, <2>1, Zenon DEF Between
    <2>5. Current(q) \in r.acc
        BY <1>7, <1>10, <2>1, Zenon DEF Current
    <2>6. \A j \in Against(q) : j < q.i => May(q, w, Current(q), j)
        BY <1>5, <1>6, <2>1, <2>5, Zenon
    <2>7. Sifted(q, w)
        BY <1>6, <1>8, <1>10, <2>1, <2>2, <2>4, <2>6, Zenon DEF Sifted
    <2> QED BY <1>8, <2>1, <2>3, <2>7, Zenon DEF Sofar, q
<1> QED BY <1>9, <1>10, Zenon

\* The answer of a lookup of the current member under keys[i].
Tested(r, w, present) ==
    IF present THEN Current(r) \in w.ever[r.keys[r.i]] ELSE Current(r) \notin w.always[r.keys[r.i]]

LEMMA ComparedSofar ==
    ASSUME LeastExists, ReadScope, NEW r, NEW w, Going(r), r.op # "union", Sifted(r, w),
           r.pc \in {"lookup", "get"}, NEW present \in BOOLEAN, Tested(r, w, present)
    PROVE  /\ Going(Compared(r, present)) /\ Sofar(Compared(r, present), w)
           /\ Compared(r, present).pc \in {"lookup", "result"}
           /\ Compared(r, present).keys = r.keys
<1> DEFINE m == Current(r)
           drop == present = (r.op = "diff")
           next == Other(r, r.i)
           both == [r EXCEPT !.left = r.left \ {m}, !.acc = r.acc \ {m}]
           lookup == [r EXCEPT !.pc = "lookup", !.i = next]
           rest == [r EXCEPT !.left = r.left \ {m}]
<1>1. Compared(r, present) = IF drop THEN NextMember(both)
                             ELSE IF next # 0 THEN lookup ELSE NextMember(rest)
    BY Zenon DEF Compared
<1>2. /\ Between(r, w) /\ r.left # {} /\ r.i \in Against(r) /\ (r.op = "diff" => r.cur = 1)
      /\ \A j \in Against(r) : j < r.i => May(r, w, m, j)
    BY Zenon DEF Sifted
<1>3. m \in r.left /\ m \in r.acc /\ r.left \subseteq r.acc /\ r.acc \subseteq Members
      /\ r.i \in 1..Len(r.keys)
    BY <1>2, Zenon DEF Going, Current
<1>4. Len(r.keys) \in Nat /\ Against(r) \subseteq 1..Len(r.keys) /\ r.i \in Nat
    <2>1. Len(r.keys) \in Nat /\ Against(r) \subseteq 1..Len(r.keys) BY AgainstFacts, Zenon
    <2> QED BY <1>3, <2>1
<1> HIDE DEF m
<1>5. /\ SameRead(both, r) /\ both.acc = r.acc \ {m} /\ both.left = r.left \ {m} /\ both.i = r.i
      /\ SameRead(rest, r) /\ rest.acc = r.acc /\ rest.left = r.left \ {m} /\ rest.i = r.i
    BY Zenon DEF Going, SameRead
<1> HIDE DEF next
<1>6. /\ SameRead(lookup, r) /\ lookup.acc = r.acc /\ lookup.left = r.left /\ lookup.i = next
      /\ lookup.pc = "lookup"
    BY Zenon DEF Going, SameRead
<1> HIDE DEF both, rest, lookup
<1>7. Skips(r, r.i, next)
    BY <1>4, OtherFacts, Zenon DEF next
<1>8. /\ next # 0 => next \in (r.i + 1)..Len(r.keys)
      /\ \A j \in (r.i + 1)..Len(r.keys) : next = 0 \/ j < next =>
             r.op # "diff" /\ r.keys[j] = r.keys[r.cur]
    BY <1>7, Zenon DEF Skips
<1>9. /\ both.op = r.op /\ both.keys = r.keys /\ both.cur = r.cur
      /\ rest.op = r.op /\ rest.keys = r.keys /\ rest.cur = r.cur
      /\ lookup.op = r.op /\ lookup.keys = r.keys /\ lookup.cur = r.cur
    BY <1>5, <1>6, Zenon DEF SameRead
<1>10. Going(both) /\ Going(rest)
    <2>1. both.acc \subseteq Members /\ both.left \subseteq both.acc BY <1>3, <1>5, Zenon
    <2>2. rest.acc \subseteq Members /\ rest.left \subseteq rest.acc BY <1>3, <1>5, Zenon
    <2> QED BY <1>3, <1>5, <2>1, <2>2, GoingOn, Zenon
<1>11. CASE drop
    <2>1. ~Sure(r, w, m, r.i)
        BY <1>11, Zenon DEF Tested, Sure, m
    <2>2. /\ Against(both) = Against(r)
          /\ \A x, j : Sure(both, w, x, j) <=> Sure(r, w, x, j)
          /\ \A x, j : May(both, w, x, j) <=> May(r, w, x, j)
        BY <1>5, SameTests, Zenon
    <2>3. \A x \in w.always[r.keys[r.cur]] :
              (\A j \in Against(r) : Sure(r, w, x, j)) => x \in r.acc /\ x # m
        BY <1>2, <2>1, Zenon DEF Between
    <2>4. Between(both, w)
        BY <1>2, <1>5, <1>9, <2>2, <2>3, Zenon DEF Between
    <2>5. Compared(r, present) = NextMember(both) BY <1>1, <1>11, Zenon
    <2> QED BY <1>2, <1>9, <1>10, <2>4, <2>5, NextMemberSofar, Zenon
<1>12. CASE ~drop
    <2>1. May(r, w, m, r.i)
        BY <1>12, Zenon DEF Tested, May, m
    <2>2. \A j \in Against(r) : next = 0 \/ j < next => May(r, w, m, j)
        <3> TAKE j \in Against(r)
        <3>1. j < r.i \/ j = r.i \/ j \in (r.i + 1)..Len(r.keys) BY <1>4
        <3> QED BY <1>2, <1>3, <1>8, <2>1, <3>1, SkippedMay, Zenon
    <2>3. CASE next # 0
        <3>1. Compared(r, present) = lookup BY <1>1, <1>12, <2>3, Zenon
        <3>2. next \in 1..Len(r.keys) /\ next \in Against(r)
            BY <1>2, <1>4, <1>8, <2>3 DEF Against
        <3>3. Going(lookup) BY <1>3, <1>6, <3>2, GoingOn, Zenon
        <3>4. /\ Against(lookup) = Against(r)
              /\ \A x, j : Sure(lookup, w, x, j) <=> Sure(r, w, x, j)
              /\ \A x, j : May(lookup, w, x, j) <=> May(r, w, x, j)
            BY <1>6, SameTests, Zenon
        <3>5. Between(lookup, w)
            BY <1>2, <1>6, <1>9, <3>4, Zenon DEF Between
        <3>6. Current(lookup) = m BY <1>6, Zenon DEF Current, m
        <3>7. Sifted(lookup, w)
            BY <1>2, <1>6, <1>9, <2>2, <3>2, <3>4, <3>5, <3>6, Zenon DEF Sifted
        <3> QED BY <1>6, <1>9, <3>1, <3>3, <3>7, Zenon DEF Sofar
    <2>4. CASE next = 0
        <3>1. Compared(r, present) = NextMember(rest) BY <1>1, <1>12, <2>4, Zenon
        <3>2. /\ Against(rest) = Against(r)
              /\ \A x, j : Sure(rest, w, x, j) <=> Sure(r, w, x, j)
              /\ \A x, j : May(rest, w, x, j) <=> May(r, w, x, j)
            BY <1>5, SameTests, Zenon
        <3>3. \A x \in rest.acc \ rest.left : \A j \in Against(r) : May(r, w, x, j)
            BY <1>2, <1>5, <2>2, <2>4, Zenon DEF Between
        <3>4. Between(rest, w)
            BY <1>2, <1>5, <1>9, <3>2, <3>3, Zenon DEF Between
        <3> QED BY <1>2, <1>9, <1>10, <3>1, <3>4, NextMemberSofar, Zenon
    <2> QED BY <2>3, <2>4, Zenon
<1> QED BY <1>11, <1>12, Zenon

-----------------------------------------------------------------------------
(* The view of a read. *)

LEMMA NowIs ==
    ASSUME NEW k \in Keys, meta \in [Keys -> Metas]
    PROVE  Contents(k) = Now(data, meta, k) /\ (Fresh(k) => Now(data, meta, k) = {})
           /\ (~Fresh(k) /\ ~WrongType(k) => LiveSet(meta[k]))
<1>1. meta[k] \in Metas BY Zenon
<1>2. (Matches(k) <=> LiveSet(meta[k])) /\ (Fresh(k) => ~Matches(k))
      /\ (~Fresh(k) /\ ~WrongType(k) => Matches(k))
    BY <1>1 DEF LiveSet, Matches, Fresh, WrongType, check_type_state, Metas, NoMeta
<1> QED BY <1>2, Zenon DEF Contents, Now, MembersOf, Under

LEMMA NowThen ==
    ASSUME NEW k \in Keys, meta' \in [Keys -> Metas]
    PROVE  Contents(k)' = Now(data', meta', k)
<1>1. meta'[k] \in Metas BY Zenon
<1>2. Matches(k)' <=> LiveSet(meta'[k])
    BY <1>1 DEF LiveSet, Matches, check_type_state, Metas, NoMeta
<1> QED BY <1>2, Zenon DEF Contents, Now, MembersOf, Under

\* The view u of the keys after a step that leaves them the contents of d and metas.
Narrowed(d, metas, keys, w, u) ==
    \A k \in Range(keys) :
        u.always[k] = w.always[k] \cap Now(d, metas, k) /\ u.ever[k] = w.ever[k] \cup Now(d, metas, k)

LEMMA Observed ==
    ASSUME Observe, meta' \in [Keys -> Metas], NEW c \in Clients, client'[c].pc # "idle",
           Range(client'[c].keys) \subseteq Keys
    PROVE  IF client[c].pc = "idle"
           THEN \A k \in Range(client'[c].keys) : /\ seen'[c].always[k] = Now(data', meta', k)
                                                  /\ seen'[c].ever[k] = Now(data', meta', k)
           ELSE Narrowed(data', meta', client'[c].keys, seen[c], seen'[c])
<1> DEFINE now == [k \in Keys |-> IF k \in Range(client'[c].keys) THEN Contents(k)' ELSE {}]
<1>1. \A k \in Range(client'[c].keys) : k \in Keys /\ now[k] = Now(data', meta', k)
    BY NowThen, Zenon
<1>2. seen'[c] = IF client[c].pc = "idle" THEN [always |-> now, ever |-> now]
                 ELSE [always |-> [k \in Keys |-> seen[c].always[k] \cap now[k]],
                       ever   |-> [k \in Keys |-> seen[c].ever[k] \cup now[k]]]
    BY Zenon DEF Observe
<1> HIDE DEF now
<1>3. CASE client[c].pc = "idle"
    <2>1. seen'[c] = [always |-> now, ever |-> now] BY <1>2, <1>3, Zenon
    <2>2. seen'[c].always = now /\ seen'[c].ever = now BY <2>1
    <2> QED BY <1>1, <1>3, <2>2, Zenon
<1>4. CASE client[c].pc # "idle"
    <2> DEFINE always == [k \in Keys |-> seen[c].always[k] \cap now[k]]
               ever == [k \in Keys |-> seen[c].ever[k] \cup now[k]]
    <2>1. seen'[c] = [always |-> always, ever |-> ever] BY <1>2, <1>4, Zenon
    <2> HIDE DEF always, ever
    <2>2. seen'[c].always = always /\ seen'[c].ever = ever BY <2>1
    <2> QED BY <1>1, <1>4, <2>2, Zenon DEF Narrowed, always, ever
<1> QED BY <1>3, <1>4, Zenon

LEMMA KeysOf ==
    ASSUME NEW r, Going(r)
    PROVE  /\ DOMAIN r.keys = 1..Len(r.keys) /\ Range(r.keys) \subseteq Keys
           /\ \A j \in 1..Len(r.keys) : r.keys[j] \in Range(r.keys)
           /\ r.keys[r.cur] \in Range(r.keys) /\ r.keys[r.i] \in Range(r.keys)
           /\ \A j \in Against(r) : r.keys[j] \in Range(r.keys)
<1>1. r.keys \in Seq(Keys) /\ r.cur \in 1..Len(r.keys) /\ r.i \in 1..Len(r.keys)
    BY Zenon DEF Going
<1>2. DOMAIN r.keys = 1..Len(r.keys) /\ \A j \in 1..Len(r.keys) : r.keys[j] \in Keys
    BY <1>1
<1>3. \A j \in Against(r) : j \in 1..Len(r.keys) BY AgainstFacts, Zenon
<1> QED BY <1>1, <1>2, <1>3, Zenon DEF Range

\* What a read has established, a wider view leaves true.
LEMMA SofarWider ==
    ASSUME NEW r, NEW w, NEW u, Going(r), Sofar(r, w), NEW d, NEW metas,
           Narrowed(d, metas, r.keys, w, u)
    PROVE  Sofar(r, u)
<1>1. \A k \in Range(r.keys) : u.always[k] \subseteq w.always[k] /\ w.ever[k] \subseteq u.ever[k]
    BY Zenon DEF Narrowed
<1>2. /\ DOMAIN r.keys = 1..Len(r.keys)
      /\ \A j \in 1..Len(r.keys) : r.keys[j] \in Range(r.keys)
      /\ r.keys[r.cur] \in Range(r.keys) /\ r.keys[r.i] \in Range(r.keys)
      /\ \A j \in Against(r) : r.keys[j] \in Range(r.keys)
    BY KeysOf, Zenon
<1>3. \A m : \A j \in Against(r) : /\ Sure(r, u, m, j) => Sure(r, w, m, j)
                                   /\ May(r, w, m, j) => May(r, u, m, j)
    BY <1>1, <1>2, Zenon DEF Sure, May
<1>4. Between(r, w) => Between(r, u)
    <2> HAVE Between(r, w)
    <2>1. r.acc \subseteq u.ever[r.keys[r.cur]]
        BY <1>1, <1>2, Zenon DEF Between
    <2>2. \A m \in u.always[r.keys[r.cur]] :
              (\A j \in Against(r) : Sure(r, u, m, j)) => m \in r.acc
        <3> TAKE m \in u.always[r.keys[r.cur]]
        <3> HAVE \A j \in Against(r) : Sure(r, u, m, j)
        <3>1. \A j \in Against(r) : Sure(r, w, m, j) BY <1>3, Zenon
        <3>2. m \in w.always[r.keys[r.cur]] BY <1>1, <1>2, Zenon
        <3> QED BY <3>1, <3>2, Zenon DEF Between
    <2>3. \A m \in r.acc \ r.left : \A j \in Against(r) : May(r, u, m, j)
        BY <1>3, Zenon DEF Between
    <2> QED BY <2>1, <2>2, <2>3, Zenon DEF Between
<1>5. Sifted(r, w) => Sifted(r, u)
    <2> HAVE Sifted(r, w)
    <2>1. r.pc \in {"lookup", "get"} =>
              \A j \in Against(r) : j < r.i => May(r, u, Current(r), j)
        BY <1>3, Zenon DEF Sifted
    <2> QED BY <1>4, <2>1, Zenon DEF Sifted
<1>6. Gathered(r, w) => Gathered(r, u)
    BY <1>1, <1>2, Zenon DEF Gathered
<1> QED BY <1>5, <1>6, Zenon DEF Sofar

\* What a write may do to the entries and the meta value of a key: only a live
\* version that stays live gets entries, and a live version goes by leaving the
\* key without a set.
Changes(d, metas, now, e, metas2, k) ==
    /\ \A v \in Nat : v < now => Under(e, k, v) \subseteq Under(d, k, v) \cup Now(e, metas2, k)
    /\ LiveSet(metas[k]) => \/ LiveSet(metas2[k]) /\ metas2[k].version = metas[k].version
                            \/ Now(e, metas2, k) = {}

LEMMA FoundStays ==
    ASSUME NEW d, NEW metas, NEW now \in Nat, NEW e, NEW metas2, NEW now2 \in Nat, now <= now2,
           NEW k, NEW v, NEW w, NEW u, Changes(d, metas, now, e, metas2, k),
           Found(d, metas, now, w, k, v),
           u.always[k] = w.always[k] \cap Now(e, metas2, k),
           u.ever[k] = w.ever[k] \cup Now(e, metas2, k)
    PROVE  Found(e, metas2, now2, u, k, v)
<1>1. v \in Nat /\ v < now BY Zenon DEF Found
<1>2. v < now2 BY <1>1
<1>3. Under(e, k, v) \subseteq u.ever[k]
    BY <1>1, Zenon DEF Found, Changes
<1>4. (LiveSet(metas2[k]) /\ metas2[k].version = v) \/ u.always[k] = {}
    BY Zenon DEF Found, Changes
<1> QED BY <1>1, <1>2, <1>3, <1>4, Zenon DEF Found

\* A write beside a read.
LEMMA ReadBeside ==
    ASSUME NEW d, NEW metas, NEW now \in Nat, NEW e, NEW metas2, NEW now2 \in Nat, now <= now2,
           \A k \in Keys : Changes(d, metas, now, e, metas2, k),
           NEW r, NEW w, NEW u, Going(r), Sofar(r, w), Tracked(d, metas, now, r, w),
           Narrowed(e, metas2, r.keys, w, u)
    PROVE  Sofar(r, u) /\ Tracked(e, metas2, now2, r, u)
<1>1. Sofar(r, u) BY SofarWider, Zenon
<1>2. Range(r.keys) \subseteq Keys /\ r.keys[r.cur] \in Range(r.keys) /\ r.keys[r.i] \in Range(r.keys)
    BY KeysOf, Zenon
<1>3. \A k \in Range(r.keys) : Bounds(e, metas2, u, k)
    BY Zenon DEF Narrowed, Bounds
<1>4. ASSUME NEW k \in Range(r.keys), NEW v, Found(d, metas, now, w, k, v)
      PROVE  Found(e, metas2, now2, u, k, v)
    <2>1. Changes(d, metas, now, e, metas2, k) BY <1>2, <1>4, Zenon
    <2>2. /\ u.always[k] = w.always[k] \cap Now(e, metas2, k)
          /\ u.ever[k] = w.ever[k] \cup Now(e, metas2, k)
        BY <1>4, Zenon DEF Narrowed
    <2> QED BY <1>4, <2>1, <2>2, FoundStays, Zenon
<1> QED BY <1>1, <1>2, <1>3, <1>4, Zenon DEF Tracked

-----------------------------------------------------------------------------
(* The steps of the clients. *)

LEMMA ChangesNothing ==
    ASSUME NEW d, NEW metas, NEW now, NEW k
    PROVE  Changes(d, metas, now, d, metas, k)
BY Zenon DEF Changes

\* A step of another actor.
LEMMA BesideKeeps ==
    ASSUME ReadsInv, Observe, clock \in Nat, clock' \in Nat, clock <= clock',
           meta' \in [Keys -> Metas],
           \A k \in Keys : Changes(data, meta, clock, data', meta', k),
           NEW c \in Clients, client'[c] = client[c]
    PROVE  ReadAt(data', meta', clock', client'[c], seen'[c])
<1> SUFFICES ASSUME client'[c].pc # "idle"
             PROVE  /\ Going(client'[c]) /\ Sofar(client'[c], seen'[c])
                    /\ Tracked(data', meta', clock', client'[c], seen'[c])
    BY Zenon DEF ReadAt
<1>1. /\ client[c].pc # "idle" /\ Going(client[c]) /\ Sofar(client[c], seen[c])
      /\ Tracked(data, meta, clock, client[c], seen[c])
    BY Zenon DEF ReadsInv, ReadAt
<1>2. Range(client'[c].keys) \subseteq Keys
    BY <1>1, KeysOf, Zenon
<1>3. Narrowed(data', meta', client[c].keys, seen[c], seen'[c])
    BY <1>1, <1>2, Observed, Zenon
<1>4. /\ Sofar(client[c], seen'[c]) /\ Tracked(data', meta', clock', client[c], seen'[c])
    BY <1>1, <1>3, ReadBeside, Zenon
<1> QED BY <1>1, <1>4, Zenon

\* The record r of a client becomes q.
Advances(r, q, w) ==
    q.pc # "idle" => /\ r.pc # "idle" /\ q.keys = r.keys
                     /\ Going(q) /\ Sofar(q, w) /\ Tracked(data, meta, clock, q, w)

LEMMA StepKeeps ==
    ASSUME ReadsInv, StoreTyped, NEW c \in Clients, NEW q, Step(c, q),
           Advances(client[c], q, seen[c])
    PROVE  ReadsInv'
<1>1. /\ client' = [client EXCEPT ![c] = q] /\ Observe
      /\ clock' = clock /\ meta' = meta /\ data' = data
    BY Zenon DEF Step
<1>2. /\ clock \in Nat /\ clock' \in Nat /\ meta' \in [Keys -> Metas]
      /\ \A k \in Keys : Changes(data, meta, clock, data', meta', k)
    BY <1>1, ChangesNothing, Zenon DEF StoreTyped
<1>3. clock <= clock' BY <1>1, <1>2
<1>4. DOMAIN client' = Clients /\ client'[c] = q /\ \A b \in Clients : b # c => client'[b] = client[b]
    BY <1>1, Zenon DEF ReadsInv
<1>5. ASSUME NEW b \in Clients, b # c
      PROVE  ReadAt(data', meta', clock', client'[b], seen'[b])
    BY <1>1, <1>2, <1>3, <1>4, <1>5, BesideKeeps, Zenon
<1>6. ReadAt(data', meta', clock', client'[c], seen'[c])
    <2> SUFFICES ASSUME q.pc # "idle"
                 PROVE  Going(q) /\ Sofar(q, seen'[c]) /\ Tracked(data', meta', clock', q, seen'[c])
        BY <1>4, Zenon DEF ReadAt
    <2>1. /\ client[c].pc # "idle" /\ Going(q) /\ Sofar(q, seen[c])
          /\ Tracked(data, meta, clock, q, seen[c])
        BY Zenon DEF Advances
    <2>2. Range(client'[c].keys) \subseteq Keys BY <1>4, <2>1, KeysOf, Zenon
    <2>3. Narrowed(data', meta', q.keys, seen[c], seen'[c])
        BY <1>1, <1>2, <1>4, <2>1, <2>2, Observed, Zenon
    <2> QED BY <1>2, <1>3, <2>1, <2>3, ReadBeside, Zenon
<1> QED BY <1>4, <1>5, <1>6, Zenon DEF ReadsInv

LEMMA IdleAdvances ==
    ASSUME NEW r, NEW w
    PROVE  Advances(r, Idle, w)
BY Zenon DEF Advances, Idle

LEMMA FailedAdvances ==
    ASSUME NEW r, NEW w, NEW k, NEW q, ~WrongType(k) => Advances(r, q, w)
    PROVE  Advances(r, Failed(k, q), w)
BY IdleAdvances, Zenon DEF Failed

\* The entries of the version that a read has found.
LEMMA FoundHas ==
    ASSUME NEW d, NEW metas, NEW now, NEW w, NEW k, NEW v, Found(d, metas, now, w, k, v),
           Bounds(d, metas, w, k)
    PROVE  w.always[k] \subseteq Under(d, k, v) /\ Under(d, k, v) \subseteq w.ever[k]
<1>1. CASE LiveSet(metas[k]) /\ metas[k].version = v
    BY <1>1, Zenon DEF Found, Bounds, Now
<1>2. CASE w.always[k] = {}
    BY <1>2, Zenon DEF Found
<1> QED BY <1>1, <1>2, Zenon DEF Found

\* The version that a read finds in the meta value of a set.
LEMMA FindsLive ==
    ASSUME StoreTyped, Versions, NEW k \in Keys, NEW w, Bounds(data, meta, w, k),
           ~Fresh(k), ~WrongType(k)
    PROVE  Found(data, meta, clock, w, k, meta[k].version)
<1>1. meta \in [Keys -> Metas] /\ meta[k].version \in Nat /\ meta[k].version < clock
    BY Zenon DEF StoreTyped, Versions, Metas
<1>2. LiveSet(meta[k]) BY <1>1, NowIs, Zenon
<1> QED BY <1>1, <1>2, Zenon DEF Found, Bounds, Now

LEMMA FindsNone ==
    ASSUME StoreTyped, NEW k \in Keys, NEW w, Bounds(data, meta, w, k), Fresh(k)
    PROVE  w.always[k] = {}
<1>1. Now(data, meta, k) = {} BY NowIs, Zenon DEF StoreTyped
<1> QED BY <1>1, Zenon DEF Bounds

LEMMA StartKeeps ==
    ASSUME ReadsInv, StoreTyped, NEW c \in Clients, NEW op \in {"union", "inter", "diff"},
           NEW keys \in Queries, NEW dest \in Destinations \cup {NoDestination},
           Start(c, op, keys, dest)
    PROVE  ReadsInv'
<1> DEFINE pc == IF op = "inter" /\ Len(keys) > 1 THEN "size" ELSE "meta"
           q == [Idle EXCEPT !.pc = pc, !.op = op, !.keys = keys, !.dest = dest, !.i = 1, !.cur = 1]
<1>1. client[c].pc = "idle" /\ Step(c, q)
    BY Zenon DEF Start
<1>2. /\ client' = [client EXCEPT ![c] = q] /\ Observe
      /\ clock' = clock /\ meta' = meta /\ data' = data
    BY <1>1, Zenon DEF Step
<1>3. /\ clock \in Nat /\ clock' \in Nat /\ meta' \in [Keys -> Metas]
      /\ \A k \in Keys : Changes(data, meta, clock, data', meta', k)
    BY <1>2, ChangesNothing, Zenon DEF StoreTyped
<1>4. clock <= clock' BY <1>2, <1>3
<1>5. DOMAIN client' = Clients /\ client'[c] = q /\ \A b \in Clients : b # c => client'[b] = client[b]
    BY <1>2, Zenon DEF ReadsInv
<1>6. ASSUME NEW b \in Clients, b # c
      PROVE  ReadAt(data', meta', clock', client'[b], seen'[b])
    BY <1>2, <1>3, <1>4, <1>5, <1>6, BesideKeeps, Zenon
<1>7. /\ DOMAIN q = {"pc", "op", "keys", "dest", "i", "cur", "size", "version", "acc", "left"}
      /\ q.pc = pc /\ q.op = op /\ q.keys = keys /\ q.dest = dest /\ q.i = 1 /\ q.cur = 1
      /\ q.acc = {} /\ q.left = {}
    BY Zenon DEF Idle
<1>8. keys \in Seq(Keys) /\ 1 \in 1..Len(keys)
    BY ArgsAssumption
<1>9. /\ pc \in {"size", "meta"} /\ (op # "inter" => pc = "meta")
    BY Zenon
<1> HIDE DEF q, pc
<1>10. Going(q)
    BY <1>7, <1>8, Zenon DEF Going
<1>11. Sofar(q, seen'[c])
    <2>1. \A j \in DOMAIN keys : ~(j < 1) BY <1>8
    <2>2. op = "union" => Gathered(q, seen'[c])
        BY <1>7, <1>9, <2>1, Zenon DEF Gathered
    <2>3. op # "union" => Sifted(q, seen'[c])
        BY <1>7, <1>9, Zenon DEF Sifted
    <2> QED BY <1>7, <2>2, <2>3, Zenon DEF Sofar
<1>12. Tracked(data', meta', clock', q, seen'[c])
    <2>1. Range(client'[c].keys) \subseteq Keys BY <1>5, <1>10, KeysOf, Zenon
    <2>2. q.pc # "idle" /\ q.pc # "iterate" /\ q.pc # "get" BY <1>7, <1>9, Zenon
    <2>3. \A k \in Range(q.keys) : /\ seen'[c].always[k] = Now(data', meta', k)
                                   /\ seen'[c].ever[k] = Now(data', meta', k)
        BY <1>1, <1>2, <1>3, <1>5, <2>1, <2>2, Observed, Zenon
    <2> QED BY <2>2, <2>3, Zenon DEF Tracked, Bounds
<1>13. ReadAt(data', meta', clock', client'[c], seen'[c])
    BY <1>5, <1>10, <1>11, <1>12, Zenon DEF ReadAt
<1> QED BY <1>5, <1>6, <1>13, Zenon DEF ReadsInv

\* What is known of a read that is in progress.
LEMMA ReadNow ==
    ASSUME ReadsInv, NEW c \in Clients, client[c].pc # "idle"
    PROVE  /\ Going(client[c]) /\ Sofar(client[c], seen[c])
           /\ Tracked(data, meta, clock, client[c], seen[c])
           /\ client[c].keys[client[c].cur] \in Keys /\ client[c].keys[client[c].i] \in Keys
           /\ Bounds(data, meta, seen[c], client[c].keys[client[c].cur])
           /\ Bounds(data, meta, seen[c], client[c].keys[client[c].i])
<1>1. /\ Going(client[c]) /\ Sofar(client[c], seen[c])
      /\ Tracked(data, meta, clock, client[c], seen[c])
    BY Zenon DEF ReadsInv, ReadAt
<1>2. /\ Range(client[c].keys) \subseteq Keys
      /\ client[c].keys[client[c].cur] \in Range(client[c].keys)
      /\ client[c].keys[client[c].i] \in Range(client[c].keys)
    BY <1>1, KeysOf, Zenon
<1> QED BY <1>1, <1>2, Zenon DEF Tracked

\* A read that goes on without having found a version.
LEMMA TrackedOn ==
    ASSUME NEW d, NEW metas, NEW now, NEW r, NEW q, NEW w, Tracked(d, metas, now, r, w),
           q.keys = r.keys, q.pc \notin {"iterate", "get"}
    PROVE  Tracked(d, metas, now, q, w)
BY Zenon DEF Tracked

LEMMA SizeKeeps ==
    ASSUME ReadsInv, StoreTyped, NEW c \in Clients, size(c)
    PROVE  ReadsInv'
<1> DEFINE r == client[c]
           w == seen[c]
           k == r.keys[r.i]
           smaller == r.size = 0 \/ meta[k].count < r.size
           cur == IF smaller THEN r.i ELSE r.cur
           best == [r EXCEPT !.cur = cur, !.size = IF smaller THEN meta[k].count ELSE @]
           more == [best EXCEPT !.i = r.i + 1]
           done == [best EXCEPT !.pc = "meta"]
           answer == [r EXCEPT !.pc = "result", !.acc = {}]
           q == IF Fresh(k) THEN answer ELSE IF r.i < Len(r.keys) THEN more ELSE done
<1>1. r.pc = "size"
    BY Zenon DEF size
<1>2. /\ Going(r) /\ Sofar(r, w) /\ Tracked(data, meta, clock, r, w)
      /\ k \in Keys /\ Bounds(data, meta, w, k)
    BY <1>1, ReadNow, Zenon
<1>3. r.op = "inter" /\ r.left = {} /\ Sifted(r, w)
    <2>1. r.op # "union" BY <1>1, <1>2, Zenon DEF Sofar, Gathered
    <2>2. Sifted(r, w) BY <1>2, <2>1, Zenon DEF Sofar
    <2> QED BY <1>1, <1>2, <2>1, <2>2, Zenon DEF Sifted, Going
<1>4. /\ r.cur \in 1..Len(r.keys) /\ r.i \in 1..Len(r.keys) /\ Len(r.keys) \in Nat
      /\ DOMAIN r = {"pc", "op", "keys", "dest", "i", "cur", "size", "version", "acc", "left"}
      /\ r.acc \subseteq Members /\ r.keys \in Seq(Keys)
      /\ r.dest \in Destinations \cup {NoDestination}
    BY <1>2, AgainstFacts, Zenon DEF Going
<1>5. Step(c, Failed(k, q))
    <2>1. best = [r EXCEPT !.cur = IF smaller THEN r.i ELSE @,
                           !.size = IF smaller THEN meta[k].count ELSE @]
        BY Zenon
    <2>2. more = [best EXCEPT !.i = @ + 1]
        BY <1>4, Zenon
    <2> HIDE DEF best, more
    <2> QED BY <2>1, <2>2, Zenon DEF size, Answer
<1>6. /\ DOMAIN best = DOMAIN r /\ best.pc = r.pc /\ best.op = r.op /\ best.keys = r.keys
      /\ best.dest = r.dest /\ best.i = r.i /\ best.cur = cur /\ best.acc = r.acc
      /\ best.left = r.left
    <2> HIDE DEF smaller, cur
    <2> QED BY <1>4, Zenon
<1>7. cur \in 1..Len(r.keys)
    BY <1>4, Zenon
<1> HIDE DEF best, cur, smaller
<1>8. ASSUME Fresh(k) PROVE Advances(r, q, w)
    <2>1. q = answer BY <1>8, Zenon
    <2>2. /\ SameRead(answer, r) /\ answer.pc = "result" /\ answer.acc = {}
          /\ answer.left = {} /\ answer.i = r.i
        BY <1>3, <1>4, Zenon DEF SameRead
    <2>3. w.always[k] = {} BY <1>2, <1>8, FindsNone, Zenon
    <2> HIDE DEF answer, q
    <2>4. Going(answer) BY <1>2, <1>4, <2>2, GoingOn, Zenon
    <2>5. answer.op = "inter" /\ answer.keys = r.keys BY <1>3, <2>2, Zenon DEF SameRead
    <2>6. Between(answer, w)
        <3>1. r.i \in Against(answer) BY <1>4, <2>5, Zenon DEF Against
        <3>2. \A m : ~Sure(answer, w, m, r.i) BY <2>3, <2>5, Zenon DEF Sure
        <3> QED BY <2>2, <3>1, <3>2, Zenon DEF Between
    <2>7. Sofar(answer, w) BY <2>2, <2>5, <2>6, Zenon DEF Sofar, Sifted
    <2>8. Tracked(data, meta, clock, answer, w) BY <1>2, <2>2, <2>5, TrackedOn, Zenon
    <2>9. Advances(r, answer, w) BY <1>1, <2>2, <2>4, <2>5, <2>7, <2>8, Zenon DEF Advances
    <2> QED BY <2>1, <2>9, Zenon
<1>9. ASSUME ~Fresh(k) /\ r.i < Len(r.keys) PROVE Advances(r, q, w)
    <2>1. q = more BY <1>9, Zenon
    <2>2. /\ DOMAIN more = DOMAIN r /\ more.pc = "size" /\ more.op = "inter"
          /\ more.keys = r.keys /\ more.dest = r.dest /\ more.i = r.i + 1 /\ more.cur = cur
          /\ more.acc = r.acc /\ more.left = {}
        BY <1>1, <1>3, <1>4, <1>6, Zenon
    <2>3. r.i + 1 \in 1..Len(r.keys) BY <1>4, <1>9
    <2> HIDE DEF more, q
    <2>4. Going(more) BY <1>4, <1>7, <2>2, <2>3, Zenon DEF Going
    <2>5. Sofar(more, w) BY <2>2, Zenon DEF Sofar, Sifted
    <2>6. Tracked(data, meta, clock, more, w) BY <1>2, <2>2, TrackedOn, Zenon
    <2>7. Advances(r, more, w) BY <1>1, <2>2, <2>4, <2>5, <2>6, Zenon DEF Advances
    <2> QED BY <2>1, <2>7, Zenon
<1>10. ASSUME ~Fresh(k) /\ ~(r.i < Len(r.keys)) PROVE Advances(r, q, w)
    <2>1. q = done BY <1>10, Zenon
    <2>2. /\ DOMAIN done = DOMAIN r /\ done.pc = "meta" /\ done.op = "inter"
          /\ done.keys = r.keys /\ done.dest = r.dest /\ done.i = r.i /\ done.cur = cur
          /\ done.acc = r.acc /\ done.left = {}
        BY <1>3, <1>4, <1>6, Zenon
    <2> HIDE DEF done, q
    <2>4. Going(done) BY <1>4, <1>7, <2>2, Zenon DEF Going
    <2>5. Sofar(done, w) BY <2>2, Zenon DEF Sofar, Sifted
    <2>6. Tracked(data, meta, clock, done, w) BY <1>2, <2>2, TrackedOn, Zenon
    <2>7. Advances(r, done, w) BY <1>1, <2>2, <2>4, <2>5, <2>6, Zenon DEF Advances
    <2> QED BY <2>1, <2>7, Zenon
<1>11. Advances(r, q, w)
    BY <1>8, <1>9, <1>10, Zenon
<1> HIDE DEF q, k
<1>12. Advances(r, Failed(k, q), w)
    BY <1>11, FailedAdvances, Zenon
<1> QED BY <1>5, <1>12, StepKeeps, Zenon

\* SUNION has the members of all keys up to cur.
LEMMA NextKeySofar ==
    ASSUME NEW r, NEW w, Going(r), r.op = "union", r.pc # "idle",
           \A m \in r.acc : \E j \in DOMAIN r.keys : m \in w.ever[r.keys[j]],
           \A j \in DOMAIN r.keys : j < r.cur => w.always[r.keys[j]] \subseteq r.acc,
           w.always[r.keys[r.cur]] \subseteq r.acc
    PROVE  /\ Going(NextKey(r)) /\ Sofar(NextKey(r), w)
           /\ NextKey(r).pc \in {"meta", "result"}
           /\ NextKey(r).keys = r.keys
<1> DEFINE more == [r EXCEPT !.pc = "meta", !.cur = r.cur + 1]
           done == [r EXCEPT !.pc = "result"]
<1>1. /\ r.cur \in 1..Len(r.keys) /\ r.i \in 1..Len(r.keys) /\ Len(r.keys) \in Nat
      /\ DOMAIN r = {"pc", "op", "keys", "dest", "i", "cur", "size", "version", "acc", "left"}
      /\ r.acc \subseteq Members /\ r.left \subseteq r.acc /\ r.keys \in Seq(Keys)
      /\ r.dest \in Destinations \cup {NoDestination}
    BY AgainstFacts, Zenon DEF Going
<1>2. DOMAIN r.keys = 1..Len(r.keys) BY KeysOf, Zenon
<1>3. NextKey(r) = IF r.cur < Len(r.keys) THEN more ELSE done
    BY Zenon DEF NextKey
<1>4. \A j \in DOMAIN r.keys : j < r.cur + 1 => j < r.cur \/ j = r.cur
    BY <1>1, <1>2
<1>5. CASE r.cur < Len(r.keys)
    <2>1. NextKey(r) = more BY <1>3, <1>5, Zenon
    <2>2. /\ DOMAIN more = DOMAIN r /\ more.pc = "meta" /\ more.op = "union"
          /\ more.keys = r.keys /\ more.dest = r.dest /\ more.i = r.i /\ more.cur = r.cur + 1
          /\ more.acc = r.acc /\ more.left = r.left
        BY <1>1, Zenon
    <2>3. r.cur + 1 \in 1..Len(r.keys) BY <1>1, <1>5
    <2> HIDE DEF more
    <2>4. Going(more) BY <1>1, <2>2, <2>3, Zenon DEF Going
    <2>5. Gathered(more, w) BY <1>4, <2>2, Zenon DEF Gathered
    <2> QED BY <2>1, <2>2, <2>4, <2>5, Zenon DEF Sofar
<1>6. CASE ~(r.cur < Len(r.keys))
    <2>1. NextKey(r) = done BY <1>3, <1>6, Zenon
    <2>2. /\ DOMAIN done = DOMAIN r /\ done.pc = "result" /\ done.op = "union"
          /\ done.keys = r.keys /\ done.dest = r.dest /\ done.i = r.i /\ done.cur = r.cur
          /\ done.acc = r.acc /\ done.left = r.left
        BY <1>1, Zenon
    <2>3. \A j \in DOMAIN r.keys : j < r.cur + 1 BY <1>1, <1>2, <1>6
    <2> HIDE DEF done
    <2>4. Going(done) BY <1>1, <2>2, Zenon DEF Going
    <2>5. Gathered(done, w) BY <1>4, <2>2, <2>3, Zenon DEF Gathered
    <2> QED BY <2>1, <2>2, <2>4, <2>5, Zenon DEF Sofar
<1> QED BY <1>5, <1>6, Zenon

LEMMA MetaKeeps ==
    ASSUME ReadsInv, StoreTyped, Versions, NEW c \in Clients, smembers_meta(c)
    PROVE  ReadsInv'
<1> DEFINE r == client[c]
           w == seen[c]
           k == r.keys[r.cur]
           found == [r EXCEPT !.pc = "iterate", !.version = meta[k].version]
           answer == [r EXCEPT !.pc = "result", !.acc = {}]
           q == IF ~Fresh(k) THEN found ELSE IF r.op = "union" THEN NextKey(r) ELSE answer
<1>1. r.pc = "meta" /\ Step(c, Failed(k, q))
    BY Zenon DEF smembers_meta, Answer
<1>2. /\ Going(r) /\ Sofar(r, w) /\ Tracked(data, meta, clock, r, w)
      /\ k \in Keys /\ Bounds(data, meta, w, k)
    BY <1>1, ReadNow, Zenon
<1>3. /\ r.i \in 1..Len(r.keys) /\ r.acc \subseteq Members /\ r.left \subseteq r.acc
      /\ DOMAIN r = {"pc", "op", "keys", "dest", "i", "cur", "size", "version", "acc", "left"}
    BY <1>2, Zenon DEF Going
<1>4. ASSUME ~Fresh(k), ~WrongType(k) PROVE Advances(r, q, w)
    <2>1. q = found BY <1>4, Zenon
    <2>2. /\ SameRead(found, r) /\ found.pc = "iterate" /\ found.version = meta[k].version
          /\ found.acc = r.acc /\ found.left = r.left /\ found.i = r.i
        BY <1>3, Zenon DEF SameRead
    <2>3. Found(data, meta, clock, w, k, meta[k].version) BY <1>2, <1>4, FindsLive, Zenon
    <2> HIDE DEF found, q
    <2>4. Going(found) BY <1>2, <1>3, <2>2, GoingOn, Zenon
    <2>5. found.op = r.op /\ found.keys = r.keys /\ found.cur = r.cur BY <2>2, Zenon DEF SameRead
    <2>6. Sofar(found, w)
        <3>1. Gathered(r, w) => Gathered(found, w) BY <1>1, <2>2, <2>5, Zenon DEF Gathered
        <3>2. Sifted(r, w) => Sifted(found, w) BY <1>1, <2>2, <2>5, Zenon DEF Sifted
        <3> QED BY <1>2, <2>5, <3>1, <3>2, Zenon DEF Sofar
    <2>7. Tracked(data, meta, clock, found, w) BY <1>2, <2>2, <2>3, <2>5, Zenon DEF Tracked
    <2>8. Advances(r, found, w) BY <1>1, <2>4, <2>5, <2>6, <2>7, Zenon DEF Advances
    <2> QED BY <2>1, <2>8, Zenon
<1>5. ASSUME Fresh(k), r.op = "union" PROVE Advances(r, q, w)
    <2>1. q = NextKey(r) BY <1>5, Zenon
    <2>2. w.always[k] = {} BY <1>2, <1>5, FindsNone, Zenon
    <2>3. Gathered(r, w) BY <1>2, <1>5, Zenon DEF Sofar
    <2>4. /\ Going(NextKey(r)) /\ Sofar(NextKey(r), w)
          /\ NextKey(r).pc \in {"meta", "result"} /\ NextKey(r).keys = r.keys
        <3>1. /\ \A m \in r.acc : \E j \in DOMAIN r.keys : m \in w.ever[r.keys[j]]
              /\ \A j \in DOMAIN r.keys : j < r.cur => w.always[r.keys[j]] \subseteq r.acc
            BY <2>3, Zenon DEF Gathered
        <3>2. w.always[r.keys[r.cur]] \subseteq r.acc BY <2>2, Zenon
        <3> QED BY <1>1, <1>2, <1>5, <3>1, <3>2, NextKeySofar, Zenon
    <2>5. Tracked(data, meta, clock, NextKey(r), w) BY <1>2, <2>4, TrackedOn, Zenon
    <2>6. Advances(r, NextKey(r), w) BY <1>1, <2>4, <2>5, Zenon DEF Advances
    <2> QED BY <2>1, <2>6, Zenon
<1>6. ASSUME Fresh(k), r.op # "union" PROVE Advances(r, q, w)
    <2>1. q = answer BY <1>6, Zenon
    <2>2. w.always[k] = {} BY <1>2, <1>6, FindsNone, Zenon
    <2>3. Sifted(r, w) BY <1>2, <1>6, Zenon DEF Sofar
    <2>4. r.left = {} BY <1>1, <2>3, Zenon DEF Sifted
    <2>5. /\ SameRead(answer, r) /\ answer.pc = "result" /\ answer.acc = {}
          /\ answer.left = {} /\ answer.i = r.i
        BY <1>3, <2>4, Zenon DEF SameRead
    <2> HIDE DEF answer, q
    <2>6. Going(answer) BY <1>2, <1>3, <2>5, GoingOn, Zenon
    <2>7. answer.op = r.op /\ answer.keys = r.keys /\ answer.cur = r.cur BY <2>5, Zenon DEF SameRead
    <2>8. Between(answer, w) BY <2>2, <2>5, <2>7, Zenon DEF Between
    <2>9. Sofar(answer, w) BY <1>6, <2>3, <2>5, <2>7, <2>8, Zenon DEF Sofar, Sifted
    <2>10. Tracked(data, meta, clock, answer, w) BY <1>2, <2>5, <2>7, TrackedOn, Zenon
    <2>11. Advances(r, answer, w) BY <1>1, <2>6, <2>7, <2>9, <2>10, Zenon DEF Advances
    <2> QED BY <2>1, <2>11, Zenon
<1>7. ~WrongType(k) => Advances(r, q, w)
    BY <1>4, <1>5, <1>6, Zenon
<1> HIDE DEF q, k
<1>8. Advances(r, Failed(k, q), w)
    BY <1>7, FailedAdvances, Zenon
<1> QED BY <1>1, <1>8, StepKeeps, Zenon

LEMMA IterateKeeps ==
    ASSUME LeastExists, ReadScope, ReadsInv, StoreTyped, NEW c \in Clients, smembers_iterate(c)
    PROVE  ReadsInv'
<1> DEFINE r == client[c]
           w == seen[c]
           k == r.keys[r.cur]
           members == Under(data, k, r.version)
           more == [r EXCEPT !.acc = r.acc \cup members]
           all == [r EXCEPT !.left = members, !.acc = members]
           q == IF r.op = "union" THEN NextKey(more) ELSE NextMember(all)
<1>1. members \subseteq Members /\ Strings(members) = members
    <2>1. members \subseteq Members BY Zenon DEF Under
    <2> QED BY <2>1, StringsSame, Zenon
<1>2. r.pc = "iterate" /\ Step(c, q)
    <2>1. MembersOf(k, r.version) = members BY Zenon DEF MembersOf, Under
    <2> HIDE DEF members
    <2> QED BY <1>1, <2>1, Zenon DEF smembers_iterate
<1>3. /\ Going(r) /\ Sofar(r, w) /\ Tracked(data, meta, clock, r, w)
      /\ k \in Keys /\ Bounds(data, meta, w, k)
    BY <1>2, ReadNow, Zenon
<1>4. w.always[k] \subseteq members /\ members \subseteq w.ever[k]
    <2>1. Found(data, meta, clock, w, k, r.version) BY <1>2, <1>3, Zenon DEF Tracked
    <2> QED BY <1>3, <2>1, FoundHas, Zenon
<1>5. /\ r.i \in 1..Len(r.keys) /\ r.acc \subseteq Members /\ r.left \subseteq r.acc
      /\ r.cur \in 1..Len(r.keys) /\ DOMAIN r.keys = 1..Len(r.keys)
      /\ DOMAIN r = {"pc", "op", "keys", "dest", "i", "cur", "size", "version", "acc", "left"}
    BY <1>3, KeysOf, Zenon DEF Going
<1> HIDE DEF members
<1>6. ASSUME r.op = "union" PROVE Advances(r, q, w)
    <2>1. q = NextKey(more) BY <1>6, Zenon
    <2>2. Gathered(r, w) BY <1>3, <1>6, Zenon DEF Sofar
    <2>3. /\ SameRead(more, r) /\ more.pc = r.pc /\ more.acc = r.acc \cup members
          /\ more.left = r.left /\ more.i = r.i
        BY <1>5, Zenon DEF SameRead
    <2> HIDE DEF more
    <2>4. more.op = r.op /\ more.keys = r.keys /\ more.cur = r.cur BY <2>3, Zenon DEF SameRead
    <2>5. Going(more)
        <3>1. more.acc \subseteq Members /\ more.left \subseteq more.acc BY <1>1, <1>5, <2>3, Zenon
        <3> QED BY <1>3, <1>5, <2>3, <3>1, GoingOn, Zenon
    <2>6. /\ \A m \in more.acc : \E j \in DOMAIN more.keys : m \in w.ever[more.keys[j]]
          /\ \A j \in DOMAIN more.keys : j < more.cur => w.always[more.keys[j]] \subseteq more.acc
          /\ w.always[more.keys[more.cur]] \subseteq more.acc
        BY <1>4, <1>5, <2>2, <2>3, <2>4, Zenon DEF Gathered
    <2>7. /\ Going(NextKey(more)) /\ Sofar(NextKey(more), w)
          /\ NextKey(more).pc \in {"meta", "result"} /\ NextKey(more).keys = r.keys
        BY <1>2, <1>6, <2>3, <2>4, <2>5, <2>6, NextKeySofar, Zenon
    <2>8. Tracked(data, meta, clock, NextKey(more), w) BY <1>3, <2>7, TrackedOn, Zenon
    <2>9. Advances(r, NextKey(more), w) BY <1>2, <2>7, <2>8, Zenon DEF Advances
    <2> QED BY <2>1, <2>9, Zenon
<1>7. ASSUME r.op # "union" PROVE Advances(r, q, w)
    <2>1. q = NextMember(all) BY <1>7, Zenon
    <2>2. Sifted(r, w) BY <1>3, <1>7, Zenon DEF Sofar
    <2>3. SameRead(all, r) /\ all.acc = members /\ all.left = members /\ all.i = r.i
        BY <1>5, Zenon DEF SameRead
    <2> HIDE DEF all
    <2>4. all.op = r.op /\ all.keys = r.keys /\ all.cur = r.cur BY <2>3, Zenon DEF SameRead
    <2>5. Going(all) BY <1>1, <1>3, <1>5, <2>3, GoingOn, Zenon
    <2>6. Between(all, w) BY <1>4, <2>3, <2>4, Zenon DEF Between
    <2>7. all.op = "diff" => all.cur = 1 BY <2>2, <2>4, Zenon DEF Sifted
    <2>8. /\ Going(NextMember(all)) /\ Sofar(NextMember(all), w)
          /\ NextMember(all).pc \in {"lookup", "result"} /\ NextMember(all).keys = r.keys
        BY <1>7, <2>4, <2>5, <2>6, <2>7, NextMemberSofar, Zenon
    <2>9. Tracked(data, meta, clock, NextMember(all), w) BY <1>3, <2>8, TrackedOn, Zenon
    <2>10. Advances(r, NextMember(all), w) BY <1>2, <2>8, <2>9, Zenon DEF Advances
    <2> QED BY <2>1, <2>10, Zenon
<1> HIDE DEF q
<1> QED BY <1>2, <1>6, <1>7, StepKeeps, Zenon

\* A lookup of the current member that has an answer.
LEMMA ComparedAdvances ==
    ASSUME LeastExists, ReadScope, ReadsInv, NEW c \in Clients,
           client[c].pc \in {"lookup", "get"}, NEW present \in BOOLEAN,
           Tested(client[c], seen[c], present)
    PROVE  Advances(client[c], Compared(client[c], present), seen[c])
<1> DEFINE r == client[c]
           w == seen[c]
           q == Compared(r, present)
<1>1. Going(r) /\ Sofar(r, w) /\ Tracked(data, meta, clock, r, w)
    BY ReadNow, Zenon
<1>2. r.op # "union" /\ Sifted(r, w)
    BY <1>1, Zenon DEF Sofar, Gathered
<1> HIDE DEF r, w
<1>3. Going(q) /\ Sofar(q, w) /\ q.pc \in {"lookup", "result"} /\ q.keys = r.keys
    BY <1>1, <1>2, ComparedSofar, Zenon DEF r, w
<1> HIDE DEF q
<1>4. Tracked(data, meta, clock, q, w) BY <1>1, <1>3, TrackedOn, Zenon
<1>5. Advances(r, q, w) BY <1>3, <1>4, Zenon DEF Advances, r
<1> QED BY <1>5, Zenon DEF r, w, q

LEMMA LookupKeeps ==
    ASSUME LeastExists, ReadScope, ReadsInv, StoreTyped, Versions, NEW c \in Clients,
           sismember_meta(c)
    PROVE  ReadsInv'
<1> DEFINE r == client[c]
           w == seen[c]
           k == r.keys[r.i]
           get == [r EXCEPT !.pc = "get", !.version = meta[k].version]
           q == IF Fresh(k) THEN Compared(r, FALSE) ELSE get
<1>1. r.pc = "lookup" /\ Step(c, Failed(k, q))
    BY Zenon DEF sismember_meta
<1>2. /\ Going(r) /\ Sofar(r, w) /\ Tracked(data, meta, clock, r, w)
      /\ k \in Keys /\ Bounds(data, meta, w, k)
    BY <1>1, ReadNow, Zenon
<1>3. r.op # "union" /\ Sifted(r, w)
    BY <1>1, <1>2, Zenon DEF Sofar, Gathered
<1>4. ASSUME Fresh(k) PROVE Advances(r, q, w)
    <2>1. w.always[k] = {} BY <1>2, <1>4, FindsNone, Zenon
    <2>2. Tested(r, w, FALSE) BY <2>1, Zenon DEF Tested
    <2>3. Advances(r, Compared(r, FALSE), w) BY <1>1, <2>2, ComparedAdvances, Zenon
    <2> QED BY <1>4, <2>3, Zenon
<1>5. ASSUME ~Fresh(k), ~WrongType(k) PROVE Advances(r, q, w)
    <2>1. q = get BY <1>5, Zenon
    <2>2. /\ r.i \in 1..Len(r.keys) /\ r.acc \subseteq Members /\ r.left \subseteq r.acc
          /\ DOMAIN r = {"pc", "op", "keys", "dest", "i", "cur", "size", "version", "acc", "left"}
        BY <1>2, Zenon DEF Going
    <2>3. /\ SameRead(get, r) /\ get.pc = "get" /\ get.version = meta[k].version
          /\ get.acc = r.acc /\ get.left = r.left /\ get.i = r.i
        BY <2>2, Zenon DEF SameRead
    <2>4. Found(data, meta, clock, w, k, meta[k].version) BY <1>2, <1>5, FindsLive, Zenon
    <2> HIDE DEF get, q
    <2>5. Going(get) BY <1>2, <2>2, <2>3, GoingOn, Zenon
    <2>6. get.op = r.op /\ get.keys = r.keys /\ get.cur = r.cur BY <2>3, Zenon DEF SameRead
    <2>7. /\ Against(get) = Against(r)
          /\ \A m, j : Sure(get, w, m, j) <=> Sure(r, w, m, j)
          /\ \A m, j : May(get, w, m, j) <=> May(r, w, m, j)
        BY <2>3, SameTests, Zenon
    <2>8. Between(r, w) /\ r.left # {} /\ r.i \in Against(r) /\ (r.op = "diff" => r.cur = 1)
          /\ \A j \in Against(r) : j < r.i => May(r, w, Current(r), j)
        BY <1>1, <1>3, Zenon DEF Sifted
    <2>9. Between(get, w) BY <2>3, <2>6, <2>7, <2>8, Zenon DEF Between
    <2>10. Current(get) = Current(r) BY <2>3, Zenon DEF Current
    <2>11. Sifted(get, w) BY <2>3, <2>6, <2>7, <2>8, <2>9, <2>10, Zenon DEF Sifted
    <2>12. Sofar(get, w) BY <1>3, <2>6, <2>11, Zenon DEF Sofar
    <2>13. Tracked(data, meta, clock, get, w) BY <1>2, <2>3, <2>4, <2>6, Zenon DEF Tracked
    <2>14. Advances(r, get, w) BY <1>1, <2>5, <2>6, <2>12, <2>13, Zenon DEF Advances
    <2> QED BY <2>1, <2>14, Zenon
<1>6. ~WrongType(k) => Advances(r, q, w)
    BY <1>4, <1>5, Zenon
<1> HIDE DEF q, k
<1>7. Advances(r, Failed(k, q), w)
    BY <1>6, FailedAdvances, Zenon
<1> QED BY <1>1, <1>7, StepKeeps, Zenon

LEMMA GetKeeps ==
    ASSUME LeastExists, ReadScope, ReadsInv, StoreTyped, NEW c \in Clients, sismember_get(c)
    PROVE  ReadsInv'
<1> DEFINE r == client[c]
           w == seen[c]
           k == r.keys[r.i]
           present == Current(r) \in MembersOf(k, r.version)
<1>1. r.pc = "get" /\ Step(c, Compared(r, present))
    BY Zenon DEF sismember_get
<1>2. Tracked(data, meta, clock, r, w) /\ Bounds(data, meta, w, k)
    BY <1>1, ReadNow, Zenon
<1>3. Found(data, meta, clock, w, k, r.version)
    BY <1>1, <1>2, Zenon DEF Tracked
<1>4. /\ w.always[k] \subseteq Under(data, k, r.version)
      /\ Under(data, k, r.version) \subseteq w.ever[k]
    BY <1>2, <1>3, FoundHas, Zenon
<1>5. MembersOf(k, r.version) = Under(data, k, r.version)
    BY Zenon DEF MembersOf, Under
<1>6. Tested(r, w, present) /\ present \in BOOLEAN
    <2>1. present <=> Current(r) \in Under(data, k, r.version) BY <1>5, Zenon
    <2>2. present \in BOOLEAN OBVIOUS
    <2> HIDE DEF present
    <2> QED BY <1>4, <2>1, <2>2, Zenon DEF Tested
<1> HIDE DEF present
<1>7. Advances(r, Compared(r, present), w)
    BY <1>1, <1>6, ComparedAdvances, Zenon
<1> QED BY <1>1, <1>7, StepKeeps, Zenon

LEMMA ReturnKeeps ==
    ASSUME ReadsInv, StoreTyped, NEW c \in Clients, Return(c)
    PROVE  ReadsInv'
<1>1. Step(c, Idle) BY Zenon DEF Return
<1>2. Advances(client[c], Idle, seen[c]) BY IdleAdvances, Zenon
<1> QED BY <1>1, <1>2, StepKeeps, Zenon

\* No other client reads when a *STORE command writes.
LEMMA StoreKeeps ==
    ASSUME ReadScope, ReadsInv, NEW c \in Clients, clear_and_store_set(c)
    PROVE  ReadsInv'
<1>1. /\ client[c].pc = "result" /\ client[c].dest # NoDestination
      /\ client' = [client EXCEPT ![c] = Idle]
    BY Zenon DEF clear_and_store_set
<1>2. Destinations # {}
    <2>1. Going(client[c]) BY <1>1, Zenon DEF ReadsInv, ReadAt
    <2> QED BY <1>1, <2>1, Zenon DEF Going
<1>3. \A b \in Clients : b = c BY <1>2, Zenon DEF ReadScope
<1>4. DOMAIN client' = Clients /\ \A b \in Clients : client'[b].pc = "idle"
    BY <1>1, <1>3, Zenon DEF ReadsInv, Idle
<1> QED BY <1>4, Zenon DEF ReadsInv, ReadAt

-----------------------------------------------------------------------------
(* The commands that write, beside the reads. *)

\* A command keeps the version of a set for as long as there is one, and writes
\* entries under the version of this instant or a live one.
KeepsSets ==
    /\ \A k \in Keys : LiveSet(meta[k]) /\ LiveSet(meta'[k]) => meta'[k].version = meta[k].version
    /\ \A e \in data' \ data :
           e.version = clock \/ (LiveSet(meta'[e.key]) /\ meta'[e.key].version = e.version)

\* What a command that writes does to the clients and the clock.
RunsBeside == client' = client /\ Observe /\ clock' \in {clock, clock + 1}

\* A batch that only takes entries away.
LEMMA TakingKeeps ==
    ASSUME StoreTyped, NEW k \in Keys, NEW mv, NEW gone,
           Batch([meta EXCEPT ![k] = mv], gone, {}),
           LiveSet(mv) => mv.version = meta[k].version
    PROVE  KeepsSets /\ clock' = clock + 1
<1>1. clock' = clock + 1 /\ meta' = [meta EXCEPT ![k] = mv] /\ data' \subseteq data
    BY Zenon DEF Batch
<1>2. \A j \in Keys : LiveSet(meta'[j]) => meta'[j].version = meta[j].version
    BY <1>1, Zenon DEF StoreTyped
<1> QED BY <1>1, <1>2, Zenon DEF KeepsSets

LEMMA NoMetaIs == ~LiveSet(NoMeta)
BY DEF LiveSet, NoMeta

LEMMA ShrunkVersion ==
    ASSUME StoreTyped, NEW k \in Keys, NEW n
    PROVE  LiveSet(Shrunk(k, n)) => Shrunk(k, n).version = meta[k].version
<1> DEFINE count == (meta[k].count - n) % CountModulus
<1>1. [meta[k] EXCEPT !.count = count].version = meta[k].version
    BY Zenon DEF StoreTyped, Metas
<1>2. Shrunk(k, n) = NoMeta \/ Shrunk(k, n) = [meta[k] EXCEPT !.count = count]
    BY Zenon DEF Shrunk
<1> HIDE DEF count
<1> QED BY <1>1, <1>2, NoMetaIs, Zenon

LEMMA NothingKeeps ==
    ASSUME UNCHANGED <<clock, meta, data>>
    PROVE  KeepsSets /\ clock' = clock
BY Zenon DEF KeepsSets

LEMMA SaddBeside ==
    ASSUME Counting, StoreTyped, NEW k \in Keys, NEW args \in SaddArgs, sadd(k, args)
    PROVE  KeepsSets /\ RunsBeside
<1> DEFINE version == IF Fresh(k) THEN clock ELSE meta[k].version
           count == IF Fresh(k) THEN 0 ELSE meta[k].count
           added == IF Fresh(k) THEN Deduplicated(args)
                    ELSE Deduplicated(args) \ MembersOf(k, version)
           mv == SetMeta(count + Cardinality(added), version)
<1>1. /\ ~WrongType(k) /\ client' = client /\ Observe
      /\ IF added = {} THEN UNCHANGED <<clock, meta, data>>
         ELSE Batch([meta EXCEPT ![k] = mv], {}, Entries(k, version, added))
    BY Zenon DEF sadd, initial_meta_value
<1>2. Fresh(k) <=> ~LiveSet(meta[k]) BY <1>1, MatchesIs, Zenon
<1>3. Cardinality(added) \in Nat
    <2>1. args \in Seq(Members) BY ArgsAssumption, Zenon
    <2>2. \A i \in DOMAIN args : args[i] \in Members BY <2>1
    <2>3. Deduplicated(args) \subseteq Members BY <2>2, Zenon DEF Deduplicated
    <2>4. added \in SUBSET Members BY <2>3, Zenon
    <2> HIDE DEF added
    <2> QED BY <2>4, Counted, Zenon
<1> HIDE DEF added
<1>4. mv.type = "set" /\ ~mv.expired /\ mv.version = version /\ mv.count = count + Cardinality(added)
    BY Zenon DEF SetMeta
<1>5. ~Fresh(k) => LiveSet(mv) /\ version = meta[k].version
    <2> SUFFICES ASSUME ~Fresh(k) PROVE LiveSet(mv) /\ version = meta[k].version BY Zenon
    <2>1. count = meta[k].count /\ version = meta[k].version BY Zenon
    <2>2. meta[k].count \in Nat /\ meta[k].count # 0
        BY <1>2, Zenon DEF StoreTyped, Metas, LiveSet
    <2> HIDE DEF mv, count, version
    <2>3. mv.count # 0 BY <1>3, <1>4, <2>1, <2>2
    <2> QED BY <1>4, <2>1, <2>3, Zenon DEF LiveSet
<1>6. Fresh(k) => version = clock BY Zenon
<1> HIDE DEF mv, version, count
<1>7. CASE added = {}
    BY <1>1, <1>7, NothingKeeps, Zenon DEF RunsBeside
<1>8. CASE added # {}
    <2>1. /\ clock' = clock + 1 /\ meta' = [meta EXCEPT ![k] = mv]
          /\ data' = (data \ {}) \cup Entries(k, version, added)
        BY <1>1, <1>8, Zenon DEF Batch
    <2>2. meta'[k] = mv /\ \A j \in Keys : j # k => meta'[j] = meta[j]
        BY <2>1, Zenon DEF StoreTyped
    <2>3. \A j \in Keys : LiveSet(meta[j]) /\ LiveSet(meta'[j]) => meta'[j].version = meta[j].version
        BY <1>2, <1>4, <1>5, <2>2, Zenon
    <2>4. \A e \in data' \ data : e.key = k /\ e.version = version
        BY <2>1, Zenon DEF Entries
    <2>5. version = clock \/ (LiveSet(meta'[k]) /\ meta'[k].version = version)
        BY <1>4, <1>5, <1>6, <2>2, Zenon
    <2>6. \A e \in data' \ data :
            e.version = clock \/ (LiveSet(meta'[e.key]) /\ meta'[e.key].version = e.version)
        BY <2>4, <2>5, Zenon
    <2> QED BY <1>1, <2>1, <2>3, <2>6, Zenon DEF KeepsSets, RunsBeside
<1> QED BY <1>7, <1>8, Zenon

LEMMA SremBeside ==
    ASSUME StoreTyped, NEW k \in Keys, NEW args, srem(k, args)
    PROVE  KeepsSets /\ RunsBeside
<1>1. /\ client' = client /\ Observe
      /\ \/ UNCHANGED <<clock, meta, data>>
         \/ \E n, gone : Batch([meta EXCEPT ![k] = Shrunk(k, n)], gone, {})
    BY Zenon DEF srem
<1>2. ASSUME NEW n, NEW gone, Batch([meta EXCEPT ![k] = Shrunk(k, n)], gone, {})
      PROVE  KeepsSets /\ clock' = clock + 1
    BY <1>2, ShrunkVersion, TakingKeeps, Zenon
<1> QED BY <1>1, <1>2, NothingKeeps, Zenon DEF RunsBeside

LEMMA SpopBeside ==
    ASSUME StoreTyped, NEW k \in Keys, NEW n, NEW popped, spop(k, n, popped)
    PROVE  KeepsSets /\ RunsBeside
<1>1. /\ client' = client /\ Observe
      /\ \E x, gone : Batch([meta EXCEPT ![k] = Shrunk(k, x)], gone, {})
    BY Zenon DEF spop
<1>2. ASSUME NEW x, NEW gone, Batch([meta EXCEPT ![k] = Shrunk(k, x)], gone, {})
      PROVE  KeepsSets /\ clock' = clock + 1
    BY <1>2, ShrunkVersion, TakingKeeps, Zenon
<1> QED BY <1>1, <1>2, Zenon DEF RunsBeside

LEMMA SmoveBeside ==
    ASSUME InScope, StoreTyped, NEW s \in Keys, NEW d \in Keys, NEW m, smove(s, d, m)
    PROVE  KeepsSets /\ RunsBeside
<1> DEFINE version == IF Fresh(d) THEN clock ELSE meta[d].version
           sourceMeta == Shrunk(s, 1)
           destMeta == IF Fresh(d) THEN SetMeta(1, version) ELSE [meta[d] EXCEPT !.count = meta[d].count + 1]
<1>1. /\ s # d /\ ~WrongType(d) /\ client' = client /\ Observe
      /\ \/ Batch([meta EXCEPT ![s] = sourceMeta], Entries(s, meta[s].version, {m}), {})
         \/ Batch([[meta EXCEPT ![s] = sourceMeta] EXCEPT ![d] = destMeta],
                  Entries(s, meta[s].version, {m}), Entries(d, version, {m}))
    BY Zenon DEF smove, initial_meta_value, InScope
<1>2. Fresh(d) <=> ~LiveSet(meta[d]) BY <1>1, MatchesIs, Zenon
<1>3. LiveSet(sourceMeta) => sourceMeta.version = meta[s].version BY ShrunkVersion, Zenon
<1>4. /\ LiveSet(destMeta) /\ destMeta.version = version
      /\ LiveSet(meta[d]) => version = meta[d].version
    <2>1. CASE Fresh(d)
        <3>1. destMeta = SetMeta(1, clock) /\ version = clock BY <2>1, Zenon
        <3>2. LiveSet(SetMeta(1, clock)) /\ SetMeta(1, clock).version = clock
            BY DEF LiveSet, SetMeta
        <3> QED BY <1>2, <2>1, <3>1, <3>2, Zenon
    <2>2. CASE ~Fresh(d)
        <3>1. destMeta = [meta[d] EXCEPT !.count = meta[d].count + 1] /\ version = meta[d].version
            BY <2>2, Zenon
        <3>2. meta[d] \in Metas /\ LiveSet(meta[d]) BY <1>2, <2>2, Zenon DEF StoreTyped
        <3>3. /\ [meta[d] EXCEPT !.count = meta[d].count + 1].type = "set"
              /\ ~[meta[d] EXCEPT !.count = meta[d].count + 1].expired
              /\ [meta[d] EXCEPT !.count = meta[d].count + 1].version = meta[d].version
              /\ [meta[d] EXCEPT !.count = meta[d].count + 1].count = meta[d].count + 1
            BY <3>2, Zenon DEF Metas, LiveSet
        <3>4. meta[d].count + 1 # 0 BY <3>2 DEF Metas
        <3> HIDE DEF destMeta, version
        <3> QED BY <3>1, <3>3, <3>4, Zenon DEF LiveSet
    <2> QED BY <2>1, <2>2, Zenon
<1> HIDE DEF version, sourceMeta, destMeta
<1>5. CASE Batch([meta EXCEPT ![s] = sourceMeta], Entries(s, meta[s].version, {m}), {})
    BY <1>1, <1>3, <1>5, TakingKeeps, Zenon DEF RunsBeside
<1>6. CASE Batch([[meta EXCEPT ![s] = sourceMeta] EXCEPT ![d] = destMeta],
                 Entries(s, meta[s].version, {m}), Entries(d, version, {m}))
    <2>1. /\ clock' = clock + 1
          /\ meta' = [[meta EXCEPT ![s] = sourceMeta] EXCEPT ![d] = destMeta]
          /\ data' = (data \ Entries(s, meta[s].version, {m})) \cup Entries(d, version, {m})
        BY <1>6, Zenon DEF Batch
    <2>2. meta \in [Keys -> Metas] BY Zenon DEF StoreTyped
    <2>3. meta'[d] = destMeta /\ meta'[s] = sourceMeta BY <1>1, <2>1, <2>2, Zenon
    <2>4. \A j \in Keys : j # s /\ j # d => meta'[j] = meta[j] BY <2>1, <2>2, Zenon
    <2>5. \A j \in Keys : LiveSet(meta[j]) /\ LiveSet(meta'[j]) => meta'[j].version = meta[j].version
        BY <1>3, <1>4, <2>3, <2>4, Zenon
    <2>6. \A e \in data' \ data : e.key = d /\ e.version = version
        BY <2>1, Zenon DEF Entries
    <2>7. \A e \in data' \ data :
            e.version = clock \/ (LiveSet(meta'[e.key]) /\ meta'[e.key].version = e.version)
        BY <1>4, <2>3, <2>6, Zenon
    <2> QED BY <1>1, <2>1, <2>5, <2>7, Zenon DEF KeepsSets, RunsBeside
<1> QED BY <1>1, <1>5, <1>6, Zenon

LEMMA DelBeside ==
    ASSUME StoreTyped, NEW k \in Keys, del_key(k)
    PROVE  KeepsSets /\ RunsBeside
<1> DEFINE mv == IF meta[k].type = "string" THEN NoMeta ELSE SetMeta(0, clock)
<1>1. client' = client /\ Observe /\ Batch([meta EXCEPT ![k] = mv], {}, {})
    BY Zenon DEF del_key, initial_meta_value
<1>2. ~LiveSet(mv)
    <2>1. ~LiveSet(SetMeta(0, clock)) BY DEF LiveSet, SetMeta
    <2> QED BY <2>1, NoMetaIs, Zenon
<1> HIDE DEF mv
<1> QED BY <1>1, <1>2, TakingKeeps, Zenon DEF RunsBeside

LEMMA SetBeside ==
    ASSUME StoreTyped, NEW k \in Keys, set(k)
    PROVE  KeepsSets /\ RunsBeside
<1> DEFINE mv == [NoMeta EXCEPT !.type = "string"]
<1>1. client' = client /\ Observe /\ Batch([meta EXCEPT ![k] = mv], {}, {})
    BY Zenon DEF set
<1>2. ~LiveSet(mv) BY DEF LiveSet, NoMeta
<1> HIDE DEF mv
<1> QED BY <1>1, <1>2, TakingKeeps, Zenon DEF RunsBeside

LEMMA LapseBeside ==
    ASSUME StoreTyped, NEW k \in Keys, Lapse(k)
    PROVE  KeepsSets /\ RunsBeside
<1>1. /\ client' = client /\ Observe /\ clock' = clock /\ data' = data
      /\ meta' = [meta EXCEPT ![k] = [meta[k] EXCEPT !.expired = TRUE]]
    BY Zenon DEF Lapse
<1>2. meta \in [Keys -> Metas] BY Zenon DEF StoreTyped
<1>3. [meta[k] EXCEPT !.expired = TRUE].expired BY <1>2, Zenon DEF Metas
<1>4. \A j \in Keys : LiveSet(meta'[j]) => meta'[j] = meta[j]
    BY <1>1, <1>2, <1>3, Zenon DEF LiveSet
<1> QED BY <1>1, <1>4, Zenon DEF KeepsSets, RunsBeside

LEMMA WriteKeeps ==
    ASSUME InScope, Counting, ReadsInv, StoreTyped, StoreTyped', Write
    PROVE  ReadsInv'
<1>1. KeepsSets /\ RunsBeside
    BY SaddBeside, SremBeside, SpopBeside, SmoveBeside, DelBeside, SetBeside, LapseBeside, Zenon
       DEF Write
<1>2. ASSUME NEW k \in Keys PROVE Changes(data, meta, clock, data', meta', k)
    <2>1. ASSUME NEW v \in Nat, v < clock, NEW m \in Under(data', k, v), m \notin Under(data, k, v)
          PROVE  m \in Now(data', meta', k)
        <3> DEFINE e == [key |-> k, version |-> v, member |-> m]
        <3>1. e \in data' \ data /\ m \in Members BY <2>1, Zenon DEF Under
        <3>2. e.key = k /\ e.version = v BY Zenon
        <3> HIDE DEF e
        <3>3. v # clock BY <2>1 DEF StoreTyped
        <3>4. LiveSet(meta'[k]) /\ meta'[k].version = v
            BY <1>1, <3>1, <3>2, <3>3, Zenon DEF KeepsSets
        <3> QED BY <2>1, <3>4, Zenon DEF Now
    <2>2. \A v \in Nat : v < clock => Under(data', k, v) \subseteq Under(data, k, v) \cup Now(data', meta', k)
        BY <2>1, Zenon
    <2>3. LiveSet(meta[k]) => \/ LiveSet(meta'[k]) /\ meta'[k].version = meta[k].version
                              \/ Now(data', meta', k) = {}
        BY <1>1, Zenon DEF KeepsSets, Now
    <2> QED BY <2>2, <2>3, Zenon DEF Changes
<1>3. clock \in Nat /\ clock' \in Nat /\ clock <= clock'
    BY <1>1 DEF StoreTyped, RunsBeside
<1>4. Observe /\ client' = client /\ meta' \in [Keys -> Metas]
    BY <1>1, Zenon DEF RunsBeside, StoreTyped
<1>5. ASSUME NEW c \in Clients PROVE ReadAt(data', meta', clock', client'[c], seen'[c])
    BY <1>2, <1>3, <1>4, BesideKeeps, Zenon
<1> QED BY <1>4, <1>5, Zenon DEF ReadsInv

LEMMA SameKeeps ==
    ASSUME ReadsInv, UNCHANGED vars
    PROVE  ReadsInv'
BY Zenon DEF ReadsInv, vars

LEMMA InitReads == Init => ReadsInv
<1> SUFFICES ASSUME Init PROVE ReadsInv BY Zenon
<1>1. client = [c \in Clients |-> Idle] BY Zenon DEF Init
<1>2. Idle.pc = "idle" BY Zenon DEF Idle
<1>3. DOMAIN client = Clients /\ \A c \in Clients : client[c].pc = "idle" BY <1>1, <1>2, Zenon
<1> QED BY <1>3, Zenon DEF ReadsInv, ReadAt

LEMMA ReadKeeps ==
    ASSUME LeastExists, ReadScope, ReadsInv, StoreTyped, Versions, NEW c \in Clients, Read(c)
    PROVE  ReadsInv'
BY StartKeeps, SizeKeeps, MetaKeeps, IterateKeeps, LookupKeeps, GetKeeps, ReturnKeeps, StoreKeeps,
   Zenon DEF Read

LEMMA ReadsInvSuffices == ReadsInv => ReadsAreRegular
<1> SUFFICES ASSUME ReadsInv, NEW c \in Clients, client[c].pc = "result"
             PROVE  LET answer == client[c].acc
                    IN  CASE client[c].op = "union" ->
                                /\ InSome(Always(c), 1) \subseteq answer
                                /\ answer \subseteq InSome(Ever(c), 1)
                          [] client[c].op = "inter" ->
                                /\ InAll(Always(c)) \subseteq answer
                                /\ answer \subseteq InAll(Ever(c))
                          [] client[c].op = "diff" ->
                                /\ Always(c)[1] \ InSome(Ever(c), 2) \subseteq answer
                                /\ answer \subseteq Ever(c)[1] \ InSome(Always(c), 2)
    BY Zenon DEF ReadsAreRegular
<1> DEFINE r == client[c]
           w == seen[c]
           ks == r.keys
<1>1. Going(r) /\ Sofar(r, w) BY Zenon DEF ReadsInv, ReadAt
<1>10. Tracked(data, meta, clock, r, w) BY Zenon DEF ReadsInv, ReadAt
<1>2. /\ DOMAIN ks = 1..Len(ks) /\ Len(ks) \in Nat /\ 1 \in DOMAIN ks /\ r.cur \in DOMAIN ks
      /\ r.acc \subseteq Members
    BY <1>1 DEF Going
<1>3. /\ \A i \in DOMAIN ks : i >= 1
      /\ \A i : i \in DOMAIN ks /\ i >= 2 <=> i \in 2..Len(ks)
    BY <1>2
<1>4. /\ DOMAIN Always(c) = DOMAIN ks /\ DOMAIN Ever(c) = DOMAIN ks
      /\ \A i \in DOMAIN ks : Always(c)[i] = w.always[ks[i]] /\ Ever(c)[i] = w.ever[ks[i]]
    BY Zenon DEF Always, Ever
<1>5. ASSUME r.op = "union"
      PROVE  InSome(Always(c), 1) \subseteq r.acc /\ r.acc \subseteq InSome(Ever(c), 1)
    <2>1. Gathered(r, w) BY <1>1, <1>5, Zenon DEF Sofar
    <2>2. /\ \A m \in r.acc : \E j \in DOMAIN ks : m \in w.ever[ks[j]]
          /\ \A j \in DOMAIN ks : w.always[ks[j]] \subseteq r.acc
        BY <2>1, Zenon DEF Gathered
    <2> HIDE DEF ks, r, w
    <2>3. ASSUME NEW m \in InSome(Always(c), 1) PROVE m \in r.acc
        BY <1>4, <2>2, <2>3, Zenon DEF InSome
    <2>4. ASSUME NEW m \in r.acc PROVE m \in InSome(Ever(c), 1)
        BY <1>2, <1>3, <1>4, <2>2, <2>4, Zenon DEF InSome
    <2> QED BY <2>3, <2>4, Zenon
<1>6. ASSUME r.op # "union" PROVE Between(r, w) /\ r.left = {} /\ (r.op = "diff" => r.cur = 1)
    BY <1>1, <1>6, Zenon DEF Sofar, Sifted
<1>7. ASSUME r.op = "inter"
      PROVE  InAll(Always(c)) \subseteq r.acc /\ r.acc \subseteq InAll(Ever(c))
    <2>1. Between(r, w) /\ r.left = {} BY <1>6, <1>7, Zenon
    <2>2. Against(r) = DOMAIN ks BY <1>2, <1>7 DEF Against
    <2>3. \A m, j : (Sure(r, w, m, j) <=> m \in w.always[ks[j]]) /\ (May(r, w, m, j) <=> m \in w.ever[ks[j]])
        BY <1>7, Zenon DEF Sure, May
    <2>4. \A m \in w.always[ks[r.cur]] : (\A j \in DOMAIN ks : m \in w.always[ks[j]]) => m \in r.acc
        BY <2>1, <2>2, <2>3, Zenon DEF Between
    <2>5. \A m \in r.acc : \A j \in DOMAIN ks : m \in w.ever[ks[j]]
        BY <2>1, <2>2, <2>3, Zenon DEF Between
    <2> HIDE DEF ks, r, w
    <2>6. ASSUME NEW m \in InAll(Always(c)) PROVE m \in r.acc
        BY <1>2, <1>4, <2>4, <2>6, Zenon DEF InAll
    <2>7. ASSUME NEW m \in r.acc PROVE m \in InAll(Ever(c))
        BY <1>2, <1>4, <2>5, <2>7, Zenon DEF InAll
    <2> QED BY <2>6, <2>7, Zenon
<1>8. ASSUME r.op = "diff"
      PROVE  /\ Always(c)[1] \ InSome(Ever(c), 2) \subseteq r.acc
             /\ r.acc \subseteq Ever(c)[1] \ InSome(Always(c), 2)
    <2>1. Between(r, w) /\ r.left = {} /\ r.cur = 1 BY <1>6, <1>8, Zenon
    <2>2. Against(r) = 2..Len(ks) BY <1>8, Zenon DEF Against
    <2>3. \A m, j : (Sure(r, w, m, j) <=> m \notin w.ever[ks[j]]) /\ (May(r, w, m, j) <=> m \notin w.always[ks[j]])
        BY <1>8, Zenon DEF Sure, May
    <2>4. \A m \in w.always[ks[1]] : (\A j \in 2..Len(ks) : m \notin w.ever[ks[j]]) => m \in r.acc
        BY <2>1, <2>2, <2>3, Zenon DEF Between
    <2>5. /\ r.acc \subseteq w.ever[ks[1]]
          /\ \A m \in r.acc : \A j \in 2..Len(ks) : m \notin w.always[ks[j]]
        BY <2>1, <2>2, <2>3, Zenon DEF Between
    <2>6. w.always[ks[1]] \subseteq Members
        <3>1. Bounds(data, meta, w, ks[1]) BY <1>2, <1>10, Zenon DEF Tracked, Range
        <3> QED BY <3>1, Zenon DEF Bounds, Now, Under
    <2> HIDE DEF ks, r, w
    <2>7. ASSUME NEW m \in Always(c)[1] \ InSome(Ever(c), 2) PROVE m \in r.acc
        BY <1>2, <1>3, <1>4, <2>4, <2>6, <2>7, Zenon DEF InSome
    <2>8. ASSUME NEW m \in r.acc PROVE m \in Ever(c)[1] \ InSome(Always(c), 2)
        <3>1. m \in Ever(c)[1] BY <1>2, <1>4, <2>5, <2>8, Zenon
        <3>2. ASSUME NEW i \in DOMAIN Always(c), i >= 2, m \in Always(c)[i] PROVE FALSE
            <4>1. i \in DOMAIN ks /\ m \in w.always[ks[i]] BY <1>4, <3>2, Zenon
            <4>2. i \in 2..Len(ks) BY <1>3, <3>2, <4>1, Zenon
            <4> QED BY <2>5, <2>8, <4>1, <4>2, Zenon
        <3> QED BY <3>1, <3>2, Zenon DEF InSome
    <2> QED BY <2>7, <2>8, Zenon
<1>9. r.op \in {"union", "inter", "diff"} BY <1>1, Zenon DEF Going
<1> QED BY <1>5, <1>7, <1>8, <1>9, ZenonT(30)

-----------------------------------------------------------------------------
(* Numbers of members, and the theorems. *)

INSTANCE DataLemmas

LEMMA FiniteCounted ==
    ASSUME NEW S, S \subseteq Members
    PROVE  /\ IsFiniteSet(S)
           /\ Cardinality(S) \in Nat
           /\ Cardinality(S) < CountModulus
           /\ Cardinality(S) = 0 <=> S = {}
<1>1. IsFiniteSet(S) /\ Cardinality(S) <= Cardinality(Members)
    BY CountAssumption, FS_Subset, Zenon
<1>2. Cardinality(S) \in Nat /\ Cardinality(Members) \in Nat
    BY <1>1, CountAssumption, FS_CardinalityType, Zenon
<1>3. Cardinality(S) = 0 <=> S = {}
    BY <1>1, FS_EmptySet, Zenon
<1> QED BY <1>1, <1>2, <1>3, CountAssumption

LEMMA FiniteAdded ==
    ASSUME NEW S, NEW T, S \subseteq Members, T \subseteq Members, S \cap T = {}
    PROVE  Cardinality(S \cup T) = Cardinality(S) + Cardinality(T)
<1>1. /\ IsFiniteSet(S) /\ IsFiniteSet(T)
      /\ Cardinality(S) \in Nat /\ Cardinality(T) \in Nat
    <2>1. IsFiniteSet(S) /\ Cardinality(S) \in Nat BY FiniteCounted, Zenon
    <2>2. IsFiniteSet(T) /\ Cardinality(T) \in Nat BY FiniteCounted, Zenon
    <2> QED BY <2>1, <2>2, Zenon
<1>2. Cardinality(S \cup T) = Cardinality(S) + Cardinality(T) - Cardinality(S \cap T)
    BY <1>1, FS_Union, Zenon
<1>3. Cardinality(S \cap T) = 0
    BY FS_EmptySet, Zenon
<1> QED BY <1>1, <1>2, <1>3

LEMMA FiniteTaken ==
    ASSUME NEW S, NEW T, S \subseteq Members, T \subseteq S
    PROVE  /\ Cardinality(S \ T) = Cardinality(S) - Cardinality(T)
           /\ Cardinality(T) <= Cardinality(S)
<1>1. IsFiniteSet(S) /\ T \in SUBSET S
    BY FiniteCounted, Zenon
<1>2. Cardinality(S \ T) = Cardinality(S) - Cardinality(S \cap T)
    BY <1>1, FS_Difference, Zenon
<1>3. S \cap T = T BY Zenon
<1>4. Cardinality(T) <= Cardinality(S)
    BY <1>1, FS_Subset, Zenon
<1> QED BY <1>2, <1>3, <1>4, Zenon

\* The positions of an argument list without repetitions are as many as the
\* arguments there.
LEMMA FinitePositions ==
    ASSUME NEW args \in Seq(Members), IsInjective(args), NEW P \in SUBSET (DOMAIN args)
    PROVE  Cardinality(P) = Cardinality({args[i] : i \in P})
<1> DEFINE T == {args[i] : i \in P}
           f == [i \in P |-> args[i]]
<1>1. DOMAIN args = 1..Len(args) /\ Len(args) \in Nat
    OBVIOUS
<1>2. IsFiniteSet(P)
    <2>1. IsFiniteSet(1..Len(args)) BY <1>1, FS_Interval
    <2>2. P \in SUBSET (1..Len(args)) BY <1>1, Zenon
    <2> QED BY <2>1, <2>2, FS_Subset, Zenon
<1>3. f \in [P -> T] /\ (\A t \in T : \E i \in P : f[i] = t)
    BY Zenon
<1>4. f \in Surjection(P, T)
    BY <1>3, Zenon DEF Surjection
<1>5. f \in Injection(P, T)
    BY <1>3, Zenon DEF Injection, IsInjective
<1> HIDE DEF f, T
<1>6. Cardinality(T) = Cardinality(P)
    BY <1>2, <1>4, <1>5, FS_Surjection, Zenon
<1> QED BY <1>6, Zenon DEF T

LEMMA CountingHolds == Counting
<1>1. LeastExists BY LeastNat, Zenon DEF LeastExists
<1>2. \A m \in Members : Cardinality({m}) = 1 BY FS_Singleton, Zenon
<1>3. \A S \in SUBSET Members : /\ Cardinality(S) \in Nat
                                /\ Cardinality(S) < CountModulus
                                /\ Cardinality(S) = 0 <=> S = {}
    BY FiniteCounted, Zenon
<1>4. \A S, T \in SUBSET Members :
        S \cap T = {} => Cardinality(S \cup T) = Cardinality(S) + Cardinality(T)
    BY FiniteAdded, Zenon
<1>5. \A S \in SUBSET Members : \A T \in SUBSET S :
        /\ Cardinality(S \ T) = Cardinality(S) - Cardinality(T)
        /\ Cardinality(T) <= Cardinality(S)
    BY FiniteTaken, Zenon
<1>6. \A args \in Seq(Members) : IsInjective(args) =>
        \A P \in SUBSET (DOMAIN args) : Cardinality(P) = Cardinality({args[i] : i \in P})
    BY FinitePositions, Zenon
<1> QED BY <1>1, <1>2, <1>3, <1>4, <1>5, <1>6, Zenon DEF Counting

\* Every key holds the set its commands should have left there, its count is
\* the number of its members and every reply is the number of members that
\* changed, whatever the reads beside them are at (sadd, srem, spop, smove,
\* del_key, clear_and_store_set).
THEOREM SetsKept == InScope => (Spec => []SetsAsExpected)
<1> SUFFICES ASSUME InScope PROVE Spec => []SetsAsExpected
    BY Zenon
<1>1. Init => IInv BY InitHolds, Zenon
<1>2. IInv /\ [Next]_vars => IInv' BY InvKept, CountingHolds, Zenon
<1>3. IInv => SetsAsExpected
    BY Zenon DEF IInv, StoreInv, Exact, ExactAt, SetsAsExpected
<1> QED BY <1>1, <1>2, <1>3, PTL DEF Spec

\* The answer of SMEMBERS, SUNION, SINTER and SDIFF, whose steps the commands of other
\* clients run between: a member that was in a set all the time counts as in it, and
\* one that was never in it does not (smembers, sunion, sinter, sdiff, sismember).
THEOREM ReadsRegular == InScope /\ ReadScope => (Spec => []ReadsAreRegular)
<1> SUFFICES ASSUME InScope, ReadScope PROVE Spec => []ReadsAreRegular
    BY Zenon
<1>1. Init => IInv /\ ReadsInv BY InitHolds, InitReads, Zenon
<1>2. Counting /\ LeastExists BY CountingHolds, Zenon DEF Counting
<1>3. IInv /\ ReadsInv /\ [Next]_vars => IInv' /\ ReadsInv'
    <2> SUFFICES ASSUME IInv, ReadsInv, [Next]_vars PROVE IInv' /\ ReadsInv' BY Zenon
    <2>1. IInv' BY <1>2, InvKept, Zenon
    <2>2. StoreTyped /\ Versions /\ StoreTyped' BY <2>1, Zenon DEF IInv, StoreInv
    <2>3. ASSUME Write PROVE ReadsInv'
        BY <1>2, <2>2, <2>3, WriteKeeps, Zenon
    <2>4. ASSUME NEW c \in Clients, Read(c) PROVE ReadsInv'
        BY <1>2, <2>2, <2>4, ReadKeeps, Zenon
    <2>5. ASSUME UNCHANGED vars PROVE ReadsInv'
        BY <2>5, SameKeeps, Zenon
    <2> QED BY <2>1, <2>3, <2>4, <2>5, Zenon DEF Next
<1>4. ReadsInv => ReadsAreRegular BY ReadsInvSuffices, Zenon
<1> QED BY <1>1, <1>3, <1>4, PTL DEF Spec

=============================================================================
