-------------------------- MODULE RedisListsProofs --------------------------
(***************************************************************************)
(* The list commands keep every list: ListsAsExpected, IndexesAgree and     *)
(* ElementsWereThere hold for every set of keys, values, arguments and      *)
(* readers.                                                                 *)
(*                                                                          *)
(* Every command's batch is shown to be one of five rewritings of the       *)
(* entries of its key (all of them, more at the end, a part, one, none).    *)
(* What follows from a rewriting is then shown once, for all commands.      *)
(***************************************************************************)
EXTENDS RedisLists, TLAPS

-----------------------------------------------------------------------------
(* Sets of numbers and sequences. *)

\* What the proofs need to know about sets of numbers.  NumberFactsHold proves it, at
\* the end of this module: it takes the theorems on finite sets, and with those in
\* its context every step before would take several times as long.
NumberFacts ==
    \A n \in Nat :
        /\ Cardinality(1..n) = n
        /\ \A i \in 1..n : Ascending(1..n)[i] = i
        /\ \A S \in SUBSET (1..n) :
              /\ Cardinality(S) \in Nat
              /\ \A i \in 1..Cardinality(S) : Ascending(S)[i] \in S
              /\ S # {} => \E x \in S : \A y \in S : y <= x

\* Ascending names an element of the set at every place.
LEMMA AscendingIn ==
    ASSUME NumberFacts, NEW n \in Nat, NEW S \in SUBSET (1..n)
    PROVE  /\ Cardinality(S) \in Nat
           /\ DOMAIN Ascending(S) = 1..Cardinality(S)
           /\ \A i \in 1..Cardinality(S) : Ascending(S)[i] \in S
<1>1. DOMAIN Ascending(S) = 1..Cardinality(S)
    BY Zenon DEF Ascending
<1> QED BY <1>1, Zenon DEF NumberFacts

\* The numbers from 1 to n are in order.
LEMMA AscendingAll ==
    ASSUME NumberFacts, NEW n \in Nat
    PROVE  Cardinality(1..n) = n /\ \A i \in 1..n : Ascending(1..n)[i] = i
BY Zenon DEF NumberFacts

LEMMA GreatestIn ==
    ASSUME NumberFacts, NEW n \in Nat, NEW S \in SUBSET (1..n), S # {}
    PROVE  \E x \in S : \A y \in S : y <= x
BY Zenon DEF NumberFacts

\* u is s followed by t.
Follows(u, s, t) ==
    /\ Len(u) = Len(s) + Len(t)
    /\ \A i \in 1..Len(s) : u[i] = s[i]
    /\ \A i \in 1..Len(t) : u[Len(s) + i] = t[i]

LEMMA ConcatFacts ==
    ASSUME NEW S, NEW s \in Seq(S), NEW t \in Seq(S)
    PROVE  s \o t \in Seq(S) /\ Follows(s \o t, s, t)
BY DEF Follows

\* u is the part of s from m to n.
IsPart(u, s, m, n) ==
    Len(u) = n - m + 1 /\ \A i \in 1..(n - m + 1) : u[i] = s[m + i - 1]

LEMMA PartFacts ==
    ASSUME NEW S, NEW s \in Seq(S), NEW m \in Int, NEW n \in Int,
           1 <= m, m <= n + 1, n <= Len(s)
    PROVE  SubSeq(s, m, n) \in Seq(S) /\ IsPart(SubSeq(s, m, n), s, m, n)
<1>1. Len(s) \in Nat /\ \A i \in m..n : s[i] \in S
    OBVIOUS
<1>2. (IF m <= n THEN n - m + 1 ELSE 0) = n - m + 1
    OBVIOUS
<1> QED BY <1>1, <1>2 DEF IsPart

LEMMA NoPart ==
    ASSUME NEW S, NEW s \in Seq(S), NEW m \in Int, NEW n \in Int, n < m
    PROVE  SubSeq(s, m, n) = <<>>
<1>1. SubSeq(s, m, n) \in Seq(S) /\ Len(SubSeq(s, m, n)) = 0
    <2>1. \A i \in m..n : s[i] \in S OBVIOUS
    <2>2. ~(m <= n) OBVIOUS
    <2> QED BY <2>1, <2>2
<1> QED BY <1>1

\* u is s with v at place n.
IsReplaced(u, s, n, v) ==
    /\ Len(u) = Len(s) /\ u[n] = v
    /\ \A i \in 1..Len(s) : i # n => u[i] = s[i]

LEMMA ReplacedFacts ==
    ASSUME NEW S, NEW s \in Seq(S), NEW n \in 1..Len(s), NEW v \in S
    PROVE  [s EXCEPT ![n] = v] \in Seq(S) /\ IsReplaced([s EXCEPT ![n] = v], s, n, v)
BY DEF IsReplaced

\* A function that has the places and elements of a sequence is that sequence.
IsListing(f, s, n) ==
    /\ f = [i \in 1..n |-> f[i]]
    /\ Len(s) = n
    /\ \A i \in 1..n : f[i] = s[i]

LEMMA SameSeq ==
    ASSUME NEW S, NEW s \in Seq(S), NEW n, NEW f, IsListing(f, s, n)
    PROVE  f = s
<1> USE DEF IsListing
<1>1. s = [i \in 1..Len(s) |-> s[i]]
    OBVIOUS
<1>2. s = [i \in 1..n |-> s[i]]
    BY <1>1, Zenon
<1>3. [i \in 1..n |-> f[i]] = [i \in 1..n |-> s[i]]
    BY Zenon
<1> QED BY <1>2, <1>3, Zenon

-----------------------------------------------------------------------------
(* Reading the store. *)

\* Fetch, with the store it reads as a parameter.
FetchIn(d, k, v, indexes) ==
    LET there == Ascending({n \in DOMAIN indexes : At(k, v, indexes[n]) \in DOMAIN d})
    IN  [n \in DOMAIN there |-> d[At(k, v, indexes[there[n]])]]

\* The store has an entry for each of n indexes.
AllThere(d, k, v, q, n) ==
    DOMAIN q = 1..n /\ \A i \in 1..n : At(k, v, q[i]) \in DOMAIN d

Taken(d, k, v, q, n) == [i \in 1..n |-> d[At(k, v, q[i])]]

\* What Fetch skips nothing of, it returns in the order of the indexes.
LEMMA FetchAll ==
    ASSUME NumberFacts, NEW d, NEW k, NEW v, NEW n \in Nat, NEW q, AllThere(d, k, v, q, n)
    PROVE  FetchIn(d, k, v, q) = Taken(d, k, v, q, n)
<1> USE DEF AllThere, Taken
<1>1. {i \in DOMAIN q : At(k, v, q[i]) \in DOMAIN d} = 1..n
    BY Zenon
<1>2. DOMAIN Ascending(1..n) = 1..n
    BY AscendingAll, Zenon DEF Ascending
<1>3. FetchIn(d, k, v, q) = [i \in 1..n |-> d[At(k, v, q[Ascending(1..n)[i]])]]
    BY <1>1, <1>2, Zenon DEF FetchIn
<1>4. \A i \in 1..n : Ascending(1..n)[i] = i
    BY AscendingAll, Zenon
<1> QED BY <1>3, <1>4, Zenon

\* c entries of the store, each at one of n indexes.
Finds(f, d, k, v, q, n, c) ==
    /\ f = [i \in 1..c |-> f[i]]
    /\ \A i \in 1..c : \E j \in 1..n :
          At(k, v, q[j]) \in DOMAIN d /\ f[i] = d[At(k, v, q[j])]

\* Whatever Fetch returns is an entry of the store under the key and version.
LEMMA FetchSome ==
    ASSUME NumberFacts, NEW d, NEW k, NEW v, NEW n \in Nat, NEW q, DOMAIN q = 1..n
    PROVE  \E c \in Nat : Finds(FetchIn(d, k, v, q), d, k, v, q, n, c)
<1> DEFINE S == {i \in DOMAIN q : At(k, v, q[i]) \in DOMAIN d}
           c == Cardinality(S)
<1>1. S \in SUBSET (1..n)
    BY Zenon
<1>4. c \in Nat /\ DOMAIN Ascending(S) = 1..c /\ \A i \in 1..c : Ascending(S)[i] \in S
    <2> HIDE DEF S
    <2> QED BY <1>1, AscendingIn, Zenon
<1>5. FetchIn(d, k, v, q) = [i \in 1..c |-> d[At(k, v, q[Ascending(S)[i]])]]
    BY <1>4, Zenon DEF FetchIn
<1>6. \A i \in 1..c : Ascending(S)[i] \in 1..n /\ At(k, v, q[Ascending(S)[i]]) \in DOMAIN d
    BY <1>4, Zenon
<1> DEFINE f == FetchIn(d, k, v, q)
<1> HIDE DEF S, f
<1>7. f = [i \in 1..c |-> d[At(k, v, q[Ascending(S)[i]])]]
    BY <1>5, Zenon DEF f
<1>8. Finds(f, d, k, v, q, n, c)
    BY <1>6, <1>7, Zenon DEF Finds
<1> QED BY <1>4, <1>8, Zenon DEF f

-----------------------------------------------------------------------------
(* What a batch does to the entries of its key. *)

MetaRecord == [type : {"none", "string", "list"}, count : Nat, version : Nat,
               left : Int, right : Int, expired : BOOLEAN]

Position == [key : Keys, version : Nat, index : Int]

\* A list that commands see, and its elements.
Live(m) == m.type = "list" /\ ~m.expired /\ m.count # 0

Window(d, k, m) == [i \in 1..m.count |-> d[At(k, m.version, m.left + i)]]

Held(d, k, m) == IF Live(m) THEN Window(d, k, m) ELSE <<>>

\* The entries under the version of a live list are its elements, no more.
Complete(d, k, m) ==
    Live(m) =>
        /\ m.right = m.left + m.count
        /\ \A p \in DOMAIN d : p.key = k /\ p.version = m.version =>
              p.index \in (m.left + 1)..m.right
        /\ \A i \in (m.left + 1)..m.right : At(k, m.version, i) \in DOMAIN d

\* The store after a batch.
Written(d, deletes, puts) ==
    [p \in DOMAIN puts \cup (DOMAIN d \ deletes) |->
        IF p \in DOMAIN puts THEN puts[p] ELSE d[p]]

\* e is d, but for the entries of key k, which under m make up a list.
Stores(d, e, k, m, list) ==
    /\ \A p \in DOMAIN e :
          \/ p \in DOMAIN d /\ e[p] = d[p]
          \/ Live(m) /\ p \in Position /\ p.key = k /\ p.version = m.version
    /\ \A p \in DOMAIN d : p.key # k => p \in DOMAIN e /\ e[p] = d[p]
    /\ list \in Seq(Values)
    /\ Complete(e, k, m)
    /\ Held(e, k, m) = list

Typed(d) == DOMAIN d \subseteq Position /\ \A p \in DOMAIN d : d[p] \in Values

LEMMA AtFacts ==
    ASSUME NEW k \in Keys, NEW v \in Nat
    PROVE  /\ \A i \in Int : /\ At(k, v, i) \in Position
                             /\ At(k, v, i).key = k
                             /\ At(k, v, i).version = v
                             /\ At(k, v, i).index = i
           /\ \A p \in Position : p.key = k /\ p.version = v => p = At(k, v, p.index)
           /\ \A p \in Position : p.key \in Keys /\ p.version \in Nat /\ p.index \in Int
BY DEF At, Position

\* The values, one after the other from an index on.
InOrder(puts, k, v, first, values) ==
    /\ DOMAIN puts \subseteq Position
    /\ \A p \in DOMAIN puts :
          p.key = k /\ p.version = v /\ p.index \in first..(first + Len(values) - 1)
    /\ \A i \in first..(first + Len(values) - 1) :
          /\ At(k, v, i) \in DOMAIN puts
          /\ puts[At(k, v, i)] = values[i - first + 1]

LEMMA PlacedFacts ==
    ASSUME NEW k \in Keys, NEW v \in Nat, NEW first \in Int, NEW values \in Seq(Values)
    PROVE  InOrder(Placed(k, v, first, values), k, v, first, values)
<1> DEFINE puts == Placed(k, v, first, values)
           I == first..(first + Len(values) - 1)
<1>1. Len(values) \in Nat /\ I \subseteq Int
    OBVIOUS
<1>2. /\ DOMAIN puts = {At(k, v, i) : i \in I}
      /\ \A p \in {At(k, v, i) : i \in I} : puts[p] = values[p.index - first + 1]
    BY Zenon DEF Placed, Positions
<1> HIDE DEF puts, I
<1>3. \A p \in DOMAIN puts : \E i \in I : i \in Int /\ p = At(k, v, i)
    BY <1>1, <1>2, Zenon
<1>4. \A p \in DOMAIN puts : p \in Position /\ p.key = k /\ p.version = v /\ p.index \in I
    BY <1>3 DEF At, Position
<1>5. \A i \in I : At(k, v, i) \in DOMAIN puts /\ puts[At(k, v, i)] = values[i - first + 1]
    <2> TAKE i \in I
    <2>1. At(k, v, i) \in {At(k, v, j) : j \in I} /\ i \in Int BY <1>1, Zenon
    <2>2. At(k, v, i).index = i BY DEF At
    <2> QED BY <1>2, <2>1, <2>2, Zenon
<1> QED BY <1>4, <1>5, Zenon DEF InOrder, puts, I

\* A list that has as many elements as the window, each at its place, is what is
\* held.
LEMMA HeldIs ==
    ASSUME NEW e, NEW k, NEW m \in MetaRecord, Live(m), NEW list \in Seq(Values),
           Len(list) = m.count,
           \A i \in 1..m.count : e[At(k, m.version, m.left + i)] = list[i]
    PROVE  Held(e, k, m) = list
<1>1. list = [i \in 1..Len(list) |-> list[i]]
    OBVIOUS
<1>2. list = [i \in 1..m.count |-> list[i]]
    BY <1>1, Zenon
<1>3. [i \in 1..m.count |-> e[At(k, m.version, m.left + i)]] = [i \in 1..m.count |-> list[i]]
    BY Zenon
<1> QED BY <1>2, <1>3, Zenon DEF Held, Window

\* What is held is a list of values, of the length the meta value says.
IsHeld(list, d, k, m) ==
    /\ list \in Seq(Values)
    /\ Live(m) => /\ m.count \in Nat \ {0}
                  /\ Len(list) = m.count
                  /\ \A i \in 1..m.count :
                        /\ At(k, m.version, m.left + i) \in DOMAIN d
                        /\ list[i] = d[At(k, m.version, m.left + i)]
                        /\ list[i] \in Values

LEMMA HeldFacts ==
    ASSUME NEW d, Typed(d), NEW k \in Keys, NEW m \in MetaRecord, Complete(d, k, m)
    PROVE  IsHeld(Held(d, k, m), d, k, m)
<1>1. CASE ~Live(m)
    <2>1. Held(d, k, m) = <<>> BY <1>1, Zenon DEF Held
    <2> QED BY <1>1, <2>1 DEF IsHeld
<1>2. CASE Live(m)
    <2> DEFINE w == [i \in 1..m.count |-> d[At(k, m.version, m.left + i)]]
    <2>1. m.count \in Nat /\ m.left \in Int /\ m.right \in Int
        BY DEF MetaRecord
    <2>2. m.count # 0 /\ m.right = m.left + m.count
        BY <1>2, Zenon DEF Live, Complete
    <2>3. \A i \in 1..m.count : m.left + i \in (m.left + 1)..m.right
        BY <2>1, <2>2
    <2>4. \A i \in 1..m.count : At(k, m.version, m.left + i) \in DOMAIN d
        BY <1>2, <2>3, Zenon DEF Complete
    <2>5. \A i \in 1..m.count : d[At(k, m.version, m.left + i)] \in Values
        BY <2>4, Zenon DEF Typed
    <2>6. w \in Seq(Values) /\ Len(w) = m.count
        <3>1. w \in [1..m.count -> Values] BY <2>5, Zenon
        <3> HIDE DEF w
        <3> QED BY <2>1, <3>1
    <2>7. Held(d, k, m) = w
        BY <1>2, Zenon DEF Held, Window
    <2>8. \A i \in 1..m.count : w[i] = d[At(k, m.version, m.left + i)]
        BY Zenon
    <2>9. m.count \in Nat \ {0}
        BY <2>1, <2>2, Zenon
    <2> HIDE DEF w
    <2> QED BY <1>2, <2>4, <2>5, <2>6, <2>7, <2>8, <2>9, Zenon DEF IsHeld
<1> QED BY <1>1, <1>2, Zenon

\* The window of n elements after index l, up to index r.
IsWindow(l, n, r) ==
    /\ \A i \in 1..n : l + i \in (l + 1)..r /\ (l + i) - (l + 1) + 1 = i
    /\ \A x \in (l + 1)..r : x - l \in 1..n /\ l + (x - l) = x

LEMMA WindowPlaces ==
    ASSUME NEW l \in Int, NEW n \in Nat, NEW r, r = l + n
    PROVE  IsWindow(l, n, r)
BY DEF IsWindow

\* The window of n elements after index l is followed by c more from index f: t elements
\* in all, up to index r.
Lengthened(l, n, c, t, r, f) ==
    /\ \A i \in 1..n : l + i \notin f..r
    /\ \A i \in 1..c : l + (n + i) \in f..r /\ (l + (n + i)) - f + 1 = i
    /\ \A i \in 1..t : i \in 1..n \/ \E j \in 1..c : i = n + j
    /\ \A i \in (l + 1)..r : \E j \in 1..t : i = l + j
    /\ f \in Int /\ f + c - 1 = r
    /\ \A i \in (l + 1)..(l + n) : i \in (l + 1)..r
    /\ \A i \in f..r : i \in (l + 1)..r

LEMMA MorePlaces ==
    ASSUME NEW l \in Int, NEW n \in Nat, NEW c \in Nat, NEW t, t = n + c, NEW r, r = l + t,
           NEW f, f = l + n + 1
    PROVE  Lengthened(l, n, c, t, r, f)
<1>1. \A i \in 1..t : i \in 1..n \/ \E j \in 1..c : i = n + j
    <2> TAKE i \in 1..t
    <2>1. i \in 1..n \/ (i - n \in 1..c /\ i = n + (i - n)) OBVIOUS
    <2> QED BY <2>1, Zenon
<1>2. \A i \in (l + 1)..r : \E j \in 1..t : i = l + j
    <2> TAKE i \in (l + 1)..r
    <2>1. i - l \in 1..t /\ i = l + (i - l) OBVIOUS
    <2> QED BY <2>1, Zenon
<1>3. /\ \A i \in 1..n : l + i \notin f..r
      /\ \A i \in 1..c : l + (n + i) \in f..r /\ (l + (n + i)) - f + 1 = i
    OBVIOUS
<1>4. /\ f \in Int /\ f + c - 1 = r
      /\ \A i \in (l + 1)..(l + n) : i \in (l + 1)..r
      /\ \A i \in f..r : i \in (l + 1)..r
    OBVIOUS
<1> QED BY <1>1, <1>2, <1>3, <1>4, Zenon DEF Lengthened

\* All entries of the list are written (LREM, LINSERT, LPUSH, and a push to a key
\* without a list).
LEMMA StoresAll ==
    ASSUME NEW d, Typed(d), NEW k \in Keys, NEW m \in MetaRecord, NEW deletes,
           NEW list \in Seq(Values), Live(m), Len(list) = m.count,
           m.right = m.left + m.count,
           \A p \in deletes : p.key = k,
           \A p \in DOMAIN d : p.key = k /\ p.version = m.version => p \in deletes
    PROVE  Stores(d, Written(d, deletes, Placed(k, m.version, m.left + 1, list)), k, m, list)
<1> DEFINE puts == Placed(k, m.version, m.left + 1, list)
           e == Written(d, deletes, puts)
           I == (m.left + 1)..m.right
<1>1. m.version \in Nat /\ m.left \in Int /\ m.right \in Int /\ m.count \in Nat
    BY DEF MetaRecord
<1>2. m.left + 1 \in Int /\ (m.left + 1) + Len(list) - 1 = m.right
    BY <1>1
<1>3. /\ DOMAIN puts \subseteq Position
      /\ \A p \in DOMAIN puts : p.key = k /\ p.version = m.version /\ p.index \in I
      /\ \A i \in I : /\ At(k, m.version, i) \in DOMAIN puts
                      /\ puts[At(k, m.version, i)] = list[i - (m.left + 1) + 1]
    <2>1. InOrder(puts, k, m.version, m.left + 1, list)
        BY <1>1, <1>2, PlacedFacts, Zenon
    <2> HIDE DEF puts
    <2> QED BY <1>2, <2>1, Zenon DEF InOrder
<1> HIDE DEF puts
<1>4. /\ \A p \in DOMAIN puts : p \in DOMAIN e /\ e[p] = puts[p]
      /\ \A p \in DOMAIN d : p \notin deletes /\ p \notin DOMAIN puts =>
             p \in DOMAIN e /\ e[p] = d[p]
      /\ \A p \in DOMAIN e : p \in DOMAIN puts \/ (p \in DOMAIN d /\ p \notin deletes)
    BY Zenon DEF Written
<1> HIDE DEF e, I
<1>5. \A p \in DOMAIN e :
          \/ p \in DOMAIN d /\ e[p] = d[p]
          \/ Live(m) /\ p \in Position /\ p.key = k /\ p.version = m.version
    BY <1>3, <1>4, Zenon
<1>6. \A p \in DOMAIN d : p.key # k => p \in DOMAIN e /\ e[p] = d[p]
    BY <1>3, <1>4, Zenon
<1>7. \A p \in DOMAIN e : p.key = k /\ p.version = m.version => p.index \in I
    BY <1>3, <1>4, Zenon
<1>8. \A i \in I : At(k, m.version, i) \in DOMAIN e
    BY <1>3, <1>4, Zenon
<1>9. Complete(e, k, m)
    BY <1>7, <1>8, Zenon DEF Complete, I
<1>10. \A i \in 1..m.count : e[At(k, m.version, m.left + i)] = list[i]
    <2> TAKE i \in 1..m.count
    <2>1. m.left + i \in I /\ (m.left + i) - (m.left + 1) + 1 = i
        <3>1. IsWindow(m.left, m.count, m.right) BY <1>1, WindowPlaces, Zenon
        <3> QED BY <3>1, Zenon DEF IsWindow, I
    <2> QED BY <1>3, <1>4, <2>1, Zenon
<1>11. Held(e, k, m) = list
    BY <1>10, HeldIs
<1> QED BY <1>5, <1>6, <1>9, <1>11, Zenon DEF Stores, puts, e

\* Entries are added after the last one (RPUSH to a list).
LEMMA StoresMore ==
    ASSUME NEW d, Typed(d), NEW k \in Keys, NEW n \in MetaRecord, Live(n), Complete(d, k, n),
           NEW m \in MetaRecord, Live(m), NEW values \in Seq(Values),
           m.version = n.version, m.left = n.left, m.count = n.count + Len(values),
           m.right = m.left + m.count
    PROVE  Stores(d, Written(d, {}, Placed(k, m.version, n.left + n.count + 1, values)), k, m,
                  Held(d, k, n) \o values)
<1> DEFINE first == n.left + n.count + 1
           puts == Placed(k, m.version, first, values)
           e == Written(d, {}, puts)
           old == Held(d, k, n)
           list == old \o values
           I == (m.left + 1)..m.right
<1>1. /\ m.version \in Nat /\ m.left \in Int /\ m.right \in Int /\ m.count \in Nat
      /\ n.count \in Nat /\ n.left \in Int /\ n.right \in Int /\ Len(values) \in Nat
    BY DEF MetaRecord
<1>2. Lengthened(m.left, n.count, Len(values), m.count, m.right, first)
    <2>1. first = m.left + n.count + 1 BY Zenon
    <2> HIDE DEF first
    <2> QED BY <1>1, <2>1, MorePlaces, Zenon
<1>3. /\ first \in Int /\ first + Len(values) - 1 = m.right
      /\ \A i \in 1..n.count : m.left + i \notin first..m.right
      /\ \A i \in 1..Len(values) : /\ m.left + (n.count + i) \in first..m.right
                                   /\ (m.left + (n.count + i)) - first + 1 = i
      /\ \A i \in 1..m.count : i \in 1..n.count \/ \E j \in 1..Len(values) : i = n.count + j
      /\ \A i \in I : \E j \in 1..m.count : i = m.left + j
    <2> HIDE DEF first
    <2> QED BY <1>2, Zenon DEF Lengthened
<1>4. /\ DOMAIN puts \subseteq Position
      /\ \A p \in DOMAIN puts : p.key = k /\ p.version = m.version /\ p.index \in first..m.right
      /\ \A i \in first..m.right : /\ At(k, m.version, i) \in DOMAIN puts
                                   /\ puts[At(k, m.version, i)] = values[i - first + 1]
    <2>1. InOrder(puts, k, m.version, first, values)
        <3> HIDE DEF first
        <3> QED BY <1>1, <1>3, PlacedFacts, Zenon
    <2> HIDE DEF puts
    <2> QED BY <1>3, <2>1, Zenon DEF InOrder
<1> HIDE DEF puts
<1>5. /\ \A p \in DOMAIN puts : p \in DOMAIN e /\ e[p] = puts[p]
      /\ \A p \in DOMAIN d : p \notin DOMAIN puts => p \in DOMAIN e /\ e[p] = d[p]
      /\ \A p \in DOMAIN e : p \in DOMAIN puts \/ p \in DOMAIN d
    BY Zenon DEF Written
<1>6. /\ old \in Seq(Values) /\ Len(old) = n.count
      /\ \A i \in 1..n.count : /\ At(k, n.version, n.left + i) \in DOMAIN d
                               /\ old[i] = d[At(k, n.version, n.left + i)]
    <2>1. IsHeld(old, d, k, n) BY HeldFacts, Zenon
    <2> HIDE DEF old
    <2> QED BY <2>1, Zenon DEF IsHeld
<1> HIDE DEF e, old
<1>7. /\ list \in Seq(Values) /\ Len(list) = m.count
      /\ \A i \in 1..n.count : list[i] = old[i]
      /\ \A i \in 1..Len(values) : list[n.count + i] = values[i]
    <2>1. /\ list \in Seq(Values) /\ Len(list) = Len(old) + Len(values)
          /\ \A i \in 1..Len(old) : list[i] = old[i]
          /\ \A i \in 1..Len(values) : list[Len(old) + i] = values[i]
        <3>1. list \in Seq(Values) /\ Follows(list, old, values)
            BY <1>6, ConcatFacts, Zenon
        <3> HIDE DEF list
        <3> QED BY <3>1, Zenon DEF Follows
    <2> HIDE DEF list
    <2> QED BY <1>6, <2>1, Zenon
<1>8. \A p \in DOMAIN e :
          \/ p \in DOMAIN d /\ e[p] = d[p]
          \/ Live(m) /\ p \in Position /\ p.key = k /\ p.version = m.version
    BY <1>4, <1>5, Zenon
<1>9. \A p \in DOMAIN d : p.key # k => p \in DOMAIN e /\ e[p] = d[p]
    BY <1>4, <1>5, Zenon
<1>10. \A p \in DOMAIN e : p.key = k /\ p.version = m.version => p.index \in I
    <2>1. n.right = n.left + n.count BY Zenon DEF Complete
    <2>2. /\ \A i \in (m.left + 1)..(m.left + n.count) : i \in I
          /\ \A i \in first..m.right : i \in I
        <3> HIDE DEF first
        <3> QED BY <1>2, Zenon DEF Lengthened
    <2>3. \A i \in (n.left + 1)..n.right : i \in I
        <3> HIDE DEF I, first
        <3> QED BY <2>1, <2>2, Zenon
    <2>4. \A p \in DOMAIN d : p.key = k /\ p.version = m.version =>
              p.index \in (n.left + 1)..n.right
        BY Zenon DEF Complete
    <2> HIDE DEF I, first
    <2> QED BY <1>4, <1>5, <2>2, <2>3, <2>4, Zenon
<1>11. \A i \in 1..n.count : At(k, m.version, m.left + i) \in DOMAIN e
                             /\ e[At(k, m.version, m.left + i)] = list[i]
    <2> HIDE DEF list
    <2> TAKE i \in 1..n.count
    <2>1. m.left + i \notin first..m.right BY <1>3, Zenon
    <2>2. At(k, m.version, m.left + i).index = m.left + i BY DEF At
    <2>3. At(k, m.version, m.left + i) \notin DOMAIN puts BY <1>4, <2>1, <2>2, Zenon
    <2>4. At(k, m.version, m.left + i) \in DOMAIN d /\ old[i] = d[At(k, m.version, m.left + i)]
        BY <1>6, Zenon
    <2> QED BY <1>5, <1>7, <2>3, <2>4, Zenon
<1>12. \A i \in 1..Len(values) : At(k, m.version, m.left + (n.count + i)) \in DOMAIN e
                                 /\ e[At(k, m.version, m.left + (n.count + i))] = list[n.count + i]
    <2> HIDE DEF list
    <2> TAKE i \in 1..Len(values)
    <2> DEFINE j == m.left + (n.count + i)
    <2>1. j \in first..m.right /\ j - first + 1 = i
        BY <1>3, Zenon
    <2> HIDE DEF first, j
    <2>2. e[At(k, m.version, j)] = values[i] /\ At(k, m.version, j) \in DOMAIN e
        BY <1>4, <1>5, <2>1, Zenon
    <2> QED BY <1>7, <2>2, Zenon DEF j
<1>13. \A i \in 1..m.count : At(k, m.version, m.left + i) \in DOMAIN e
                             /\ e[At(k, m.version, m.left + i)] = list[i]
    <2> HIDE DEF list
    <2> TAKE i \in 1..m.count
    <2>1. i \in 1..n.count \/ \E j \in 1..Len(values) : i = n.count + j
        BY <1>3, Zenon
    <2> QED BY <1>11, <1>12, <2>1, Zenon
<1>14. Complete(e, k, m)
    <2> HIDE DEF I
    <2>1. \A i \in I : At(k, m.version, i) \in DOMAIN e
        <3> TAKE i \in I
        <3>1. PICK j \in 1..m.count : i = m.left + j BY <1>3, Zenon
        <3> QED BY <1>13, <3>1, Zenon
    <2> QED BY <1>10, <2>1, Zenon DEF Complete, I
<1> HIDE DEF list
<1>15. Held(e, k, m) = list
    BY <1>7, <1>13, HeldIs
<1> QED BY <1>7, <1>8, <1>9, <1>14, <1>15, Zenon DEF Stores, puts, e, list, old

\* The places of a part of c elements after the first a.
LEMMA PartPlaces ==
    ASSUME NEW a \in Nat, NEW c \in Nat
    PROVE  /\ a + 1 \in Int /\ a + c \in Int /\ 1 <= a + 1 /\ a + 1 <= (a + c) + 1
           /\ (a + c) - (a + 1) + 1 = c
           /\ \A i \in 1..c : (a + 1) + i - 1 = a + i
OBVIOUS

\* A part of the entries is kept (LPOP, RPOP, LTRIM).
LEMMA StoresPart ==
    ASSUME NEW d, Typed(d), NEW k \in Keys, NEW n \in MetaRecord, Live(n), Complete(d, k, n),
           NEW m \in MetaRecord, Live(m), NEW a \in Nat, NEW deletes,
           m.version = n.version, m.left = n.left + a, a + m.count <= n.count,
           m.right = m.left + m.count,
           \A p \in deletes : p.key = k /\ p.index \notin (m.left + 1)..m.right,
           \A p \in DOMAIN d : p.key = k /\ p.version = m.version
                               /\ p.index \notin (m.left + 1)..m.right => p \in deletes
    PROVE  Stores(d, Written(d, deletes, <<>>), k, m,
                  SubSeq(Held(d, k, n), a + 1, a + m.count))
<1> DEFINE e == Written(d, deletes, <<>>)
           old == Held(d, k, n)
           list == SubSeq(old, a + 1, a + m.count)
           I == (m.left + 1)..m.right
<1>1. /\ m.version \in Nat /\ m.left \in Int /\ m.right \in Int /\ m.count \in Nat
      /\ n.count \in Nat /\ n.left \in Int /\ n.right \in Int
    BY DEF MetaRecord
<1>2. /\ \A p \in DOMAIN d : p \notin deletes => p \in DOMAIN e /\ e[p] = d[p]
      /\ \A p \in DOMAIN e : p \in DOMAIN d /\ p \notin deletes /\ e[p] = d[p]
    <2>1. DOMAIN <<>> = {} OBVIOUS
    <2> QED BY <2>1, Zenon DEF Written
<1>3. /\ old \in Seq(Values) /\ Len(old) = n.count
      /\ \A i \in 1..n.count : /\ At(k, n.version, n.left + i) \in DOMAIN d
                               /\ old[i] = d[At(k, n.version, n.left + i)]
    <2>1. IsHeld(old, d, k, n) BY HeldFacts, Zenon
    <2> HIDE DEF old
    <2> QED BY <2>1, Zenon DEF IsHeld
<1> HIDE DEF e, old
<1>4. /\ list \in Seq(Values) /\ Len(list) = m.count
      /\ \A i \in 1..m.count : list[i] = old[a + i]
    <2>1. /\ a + 1 \in Int /\ a + m.count \in Int /\ 1 <= a + 1 /\ a + 1 <= (a + m.count) + 1
          /\ (a + m.count) - (a + 1) + 1 = m.count
          /\ \A i \in 1..m.count : (a + 1) + i - 1 = a + i
        BY <1>1, PartPlaces, Zenon
    <2>2. a + m.count <= Len(old)
        BY <1>3, Zenon
    <2>3. list \in Seq(Values) /\ IsPart(list, old, a + 1, a + m.count)
        BY <1>3, <2>1, <2>2, PartFacts, Zenon
    <2> HIDE DEF list
    <2>4. Len(list) = m.count /\ \A i \in 1..m.count : list[i] = old[(a + 1) + i - 1]
        BY <2>1, <2>3, Zenon DEF IsPart
    <2> QED BY <2>1, <2>3, <2>4, Zenon
<1> HIDE DEF list
<1>5. \A i \in 1..m.count : At(k, m.version, m.left + i) \in DOMAIN e
                            /\ e[At(k, m.version, m.left + i)] = list[i]
    <2> TAKE i \in 1..m.count
    <2>1. a + i \in 1..n.count /\ (n.left + a) + i = n.left + (a + i) /\ (n.left + a) + i \in Int
        BY <1>1
    <2>2. m.left + i \in I
        BY <1>1
    <2>3. /\ At(k, m.version, m.left + i) \in DOMAIN d
          /\ old[a + i] = d[At(k, m.version, m.left + i)]
        BY <1>3, <2>1, Zenon
    <2>4. At(k, m.version, m.left + i).index = m.left + i BY DEF At
    <2>5. At(k, m.version, m.left + i) \notin deletes BY <2>2, <2>4, Zenon
    <2> QED BY <1>2, <1>4, <2>3, <2>5, Zenon
<1>6. Complete(e, k, m)
    <2>1. \A i \in I : i - m.left \in 1..m.count /\ m.left + (i - m.left) = i BY <1>1
    <2>2. \A p \in DOMAIN e : p.key = k /\ p.version = m.version => p.index \in I
        BY <1>2, Zenon
    <2> HIDE DEF I
    <2>3. \A i \in I : At(k, m.version, i) \in DOMAIN e BY <1>5, <2>1, Zenon
    <2> QED BY <2>2, <2>3, Zenon DEF Complete, I
<1>7. Held(e, k, m) = list
    BY <1>4, <1>5, HeldIs
<1>8. \A p \in DOMAIN d : p.key # k => p \in DOMAIN e /\ e[p] = d[p]
    BY <1>2, Zenon
<1> QED BY <1>2, <1>4, <1>6, <1>7, <1>8, Zenon DEF Stores, e, list, old

\* The places of one element.
LEMMA OnePlace ==
    ASSUME NEW a \in Int, NEW value \in Values
    PROVE  /\ <<value>> \in Seq(Values) /\ Len(<<value>>) = 1 /\ <<value>>[1] = value
           /\ a..(a + 1 - 1) = {a} /\ a - a + 1 = 1
OBVIOUS

\* One entry is written in place of another (LSET).
LEMMA StoresOne ==
    ASSUME NEW d, Typed(d), NEW k \in Keys, NEW m \in MetaRecord, Live(m), Complete(d, k, m),
           NEW i \in 1..m.count, NEW value \in Values
    PROVE  Stores(d, Written(d, {}, Placed(k, m.version, m.left + i, <<value>>)), k, m,
                  [Held(d, k, m) EXCEPT ![i] = value])
<1> DEFINE puts == Placed(k, m.version, m.left + i, <<value>>)
           e == Written(d, {}, puts)
           old == Held(d, k, m)
           list == [old EXCEPT ![i] = value]
           at == At(k, m.version, m.left + i)
<1>1. /\ m.version \in Nat /\ m.left \in Int /\ m.right \in Int /\ m.count \in Nat
      /\ m.left + i \in Int
    BY DEF MetaRecord
<1>2. /\ <<value>> \in Seq(Values) /\ Len(<<value>>) = 1 /\ <<value>>[1] = value
      /\ (m.left + i)..((m.left + i) + 1 - 1) = {m.left + i}
      /\ (m.left + i) - (m.left + i) + 1 = 1
    BY <1>1, OnePlace, Zenon
<1>3. /\ DOMAIN puts \subseteq Position
      /\ \A p \in DOMAIN puts : p.key = k /\ p.version = m.version /\ p.index = m.left + i
      /\ at \in DOMAIN puts /\ puts[at] = value
    <2>1. InOrder(puts, k, m.version, m.left + i, <<value>>)
        BY <1>1, <1>2, PlacedFacts, Zenon
    <2> HIDE DEF puts
    <2>2. /\ DOMAIN puts \subseteq Position
          /\ \A p \in DOMAIN puts : p.key = k /\ p.version = m.version /\ p.index \in {m.left + i}
          /\ at \in DOMAIN puts /\ puts[at] = <<value>>[(m.left + i) - (m.left + i) + 1]
        BY <1>2, <2>1, Zenon DEF InOrder
    <2> QED BY <1>2, <2>2, Zenon
<1> HIDE DEF puts
<1>4. /\ \A p \in DOMAIN puts : p \in DOMAIN e /\ e[p] = puts[p]
      /\ \A p \in DOMAIN d : p \notin DOMAIN puts => p \in DOMAIN e /\ e[p] = d[p]
      /\ \A p \in DOMAIN e : p \in DOMAIN puts \/ p \in DOMAIN d
      /\ \A p \in DOMAIN d : p \in DOMAIN e
    BY Zenon DEF Written
<1>5. /\ old \in Seq(Values) /\ Len(old) = m.count
      /\ \A j \in 1..m.count : /\ At(k, m.version, m.left + j) \in DOMAIN d
                               /\ old[j] = d[At(k, m.version, m.left + j)]
    <2>1. IsHeld(old, d, k, m) BY HeldFacts, Zenon
    <2> HIDE DEF old
    <2> QED BY <2>1, Zenon DEF IsHeld
<1> HIDE DEF e, old
<1>6. /\ list \in Seq(Values) /\ Len(list) = m.count /\ list[i] = value
      /\ \A j \in 1..m.count : j # i => list[j] = old[j]
    <2>1. i \in 1..Len(old) BY <1>5, Zenon
    <2>2. list \in Seq(Values) /\ IsReplaced(list, old, i, value)
        BY <1>5, <2>1, ReplacedFacts, Zenon
    <2> HIDE DEF list
    <2> QED BY <1>5, <2>2, Zenon DEF IsReplaced
<1> HIDE DEF list
<1>7. \A j \in 1..m.count : e[At(k, m.version, m.left + j)] = list[j]
    <2> TAKE j \in 1..m.count
    <2>1. CASE j = i
        BY <1>3, <1>4, <1>6, <2>1, Zenon
    <2>2. CASE j # i
        <3>1. m.left + j # m.left + i BY <1>1, <2>2
        <3>2. At(k, m.version, m.left + j).index = m.left + j BY DEF At
        <3>3. At(k, m.version, m.left + j) \notin DOMAIN puts BY <1>3, <3>1, <3>2, Zenon
        <3> QED BY <1>4, <1>5, <1>6, <2>2, <3>3, Zenon
    <2> QED BY <2>1, <2>2, Zenon
<1>8. Held(e, k, m) = list
    BY <1>6, <1>7, HeldIs
<1>9. Complete(e, k, m)
    <2>1. m.right = m.left + m.count BY Zenon DEF Complete
    <2>2. m.left + i \in (m.left + 1)..m.right BY <1>1, <2>1
    <2>3. \A p \in DOMAIN puts : p.index \in (m.left + 1)..m.right BY <1>3, <2>2, Zenon
    <2> QED BY <1>4, <2>1, <2>3, Zenon DEF Complete
<1>10. \A p \in DOMAIN e :
          \/ p \in DOMAIN d /\ e[p] = d[p]
          \/ Live(m) /\ p \in Position /\ p.key = k /\ p.version = m.version
    BY <1>3, <1>4, Zenon
<1>11. \A p \in DOMAIN d : p.key # k => p \in DOMAIN e /\ e[p] = d[p]
    BY <1>3, <1>4, Zenon
<1> QED BY <1>6, <1>8, <1>9, <1>10, <1>11, Zenon DEF Stores, puts, e, list, old

\* The key holds no list any more (DEL, SET, and a command that leaves nothing).
LEMMA StoresNone ==
    ASSUME NEW d, NEW k \in Keys, NEW m, ~Live(m), NEW deletes, \A p \in deletes : p.key = k,
           NEW puts, DOMAIN puts = {}
    PROVE  Stores(d, Written(d, deletes, puts), k, m, <<>>)
<1> DEFINE e == Written(d, deletes, puts)
<1>1. <<>> \in Seq(Values)
    OBVIOUS
<1>2. /\ \A p \in DOMAIN d : p \notin deletes => p \in DOMAIN e /\ e[p] = d[p]
      /\ \A p \in DOMAIN e : p \in DOMAIN d /\ e[p] = d[p]
    BY <1>1, Zenon DEF Written
<1>3. Held(e, k, m) = <<>> /\ Complete(e, k, m)
    BY Zenon DEF Held, Complete
<1> HIDE DEF e
<1> QED BY <1>1, <1>2, <1>3, Zenon DEF Stores, e

-----------------------------------------------------------------------------
(* The inductive invariant. *)

MoveRecord == [source : Keys, destination : Keys, value : Values]

ReadRecord == [pc : {"idle", "read"}, key : Keys \cup {"none"}, meta : MetaRecord,
               i : Nat, result : Seq(Values)]

TypeOK ==
    /\ clock \in Nat \ {0}
    /\ meta \in [Keys -> MetaRecord]
    /\ Typed(data)
    /\ moving \in MoveRecord \cup {NoMove}
    /\ reader \in [Readers -> ReadRecord]
    /\ expect \in [Keys -> Seq(Values)]

\* No version is from the future: the next one is new to the store.
Dated(c, mm, d) ==
    /\ \A k \in Keys : mm[k].version < c
    /\ \A p \in DOMAIN d : p.version < c

AllComplete(mm, d) == \A k \in Keys : Complete(d, k, mm[k])

\* What a key holds: the expected list, without its last element while an
\* RPOPLPUSH has popped it.
Wanted(mv, ex, k) ==
    IF mv # NoMove /\ k = mv.source THEN Front(ex[k]) ELSE ex[k]

AsWanted == \A k \in Keys : Held(data, k, meta[k]) = Wanted(moving, expect, k)

\* The element on its way is the last one of the list it comes from.
OnItsWay ==
    moving # NoMove =>
        /\ expect[moving.source] # <<>>
        /\ moving.value = Last(expect[moving.source])

\* The elements of the lists an LRANGE has seen.
Was(lists) == UNION {ToSet(list) : list \in lists}

\* What an LRANGE has collected, and all it may still find under its version, was
\* in a list it has seen.
Sound(d, q, was) ==
    IF q.pc = "idle" THEN q.result = <<>>
    ELSE /\ q.key \in Keys
         /\ \A p \in DOMAIN d : p.key = q.key /\ p.version = q.meta.version => d[p] \in was
         /\ \A i \in DOMAIN q.result : q.result[i] \in was

AllSound == \A r \in Readers : Sound(data, reader[r], Was(seen[r]))

ListsInv ==
    /\ TypeOK
    /\ Dated(clock, meta, data)
    /\ AllComplete(meta, data)
    /\ AsWanted
    /\ OnItsWay
    /\ AllSound
    /\ reply = "expected"

-----------------------------------------------------------------------------
(* What the model's operators say in these terms. *)

\* Contents and check_type_state, with the store as a parameter.
StateOf(m) ==
    IF m = NoMeta THEN "Missing"
    ELSE IF m.expired \/ (m.type = "list" /\ m.count = 0) THEN "Stale"
    ELSE IF m.type = "list" THEN "Match" ELSE "WrongType"

ContentsIn(mm, d, k) ==
    IF StateOf(mm[k]) = "Match" THEN FetchIn(d, k, mm[k].version, Indexes(mm[k])) ELSE <<>>

LEMMA StateOfLive ==
    ASSUME NEW m \in MetaRecord
    PROVE  /\ StateOf(m) = "Match" <=> Live(m)
           /\ StateOf(m) \in {"Missing", "Stale"} => ~Live(m)
           /\ StateOf(m) \notin {"Missing", "Stale", "WrongType"} => Live(m)
BY DEF StateOf, Live, NoMeta, MetaRecord

LEMMA IndexesFetched ==
    ASSUME NumberFacts, NEW d, Typed(d), NEW k \in Keys, NEW m \in MetaRecord, Live(m),
           Complete(d, k, m)
    PROVE  FetchIn(d, k, m.version, Indexes(m)) = Held(d, k, m)
<1>1. m.count \in Nat
    BY DEF MetaRecord
<1>2. IsHeld(Held(d, k, m), d, k, m)
    BY HeldFacts, Zenon
<1> DEFINE q == Indexes(m)
<1>3. DOMAIN q = 1..m.count /\ \A i \in 1..m.count : q[i] = m.left + i
    BY Zenon DEF Indexes
<1> HIDE DEF q
<1>4. AllThere(d, k, m.version, q, m.count)
    BY <1>2, <1>3, Zenon DEF IsHeld, AllThere
<1>5. FetchIn(d, k, m.version, q) = Taken(d, k, m.version, q, m.count)
    BY <1>1, <1>4, FetchAll, Zenon
<1>6. [i \in 1..m.count |-> d[At(k, m.version, q[i])]]
         = [i \in 1..m.count |-> d[At(k, m.version, m.left + i)]]
    BY <1>3, Zenon
<1> QED BY <1>5, <1>6, Zenon DEF Taken, q, Held, Window

LEMMA ContentsHeld ==
    ASSUME NumberFacts, NEW mm \in [Keys -> MetaRecord], NEW d, Typed(d), AllComplete(mm, d),
           NEW k \in Keys
    PROVE  ContentsIn(mm, d, k) = Held(d, k, mm[k])
<1>1. mm[k] \in MetaRecord /\ Complete(d, k, mm[k])
    BY Zenon DEF AllComplete
<1>2. CASE Live(mm[k])
    <2>1. StateOf(mm[k]) = "Match" BY <1>1, <1>2, StateOfLive, Zenon
    <2>2. FetchIn(d, k, mm[k].version, Indexes(mm[k])) = Held(d, k, mm[k])
        BY <1>1, <1>2, IndexesFetched, Zenon
    <2> QED BY <2>1, <2>2, Zenon DEF ContentsIn
<1>3. CASE ~Live(mm[k])
    <2>1. StateOf(mm[k]) # "Match" BY <1>1, <1>3, StateOfLive, Zenon
    <2> QED BY <1>3, <2>1, Zenon DEF ContentsIn, Held
<1> QED BY <1>2, <1>3, Zenon

\* Observe adds the list that is now under the key of each LRANGE.
LEMMA Observed ==
    ASSUME NumberFacts, Observe, meta' \in [Keys -> MetaRecord], Typed(data'),
           AllComplete(meta', data'),
           NEW r \in Readers, reader'[r].pc # "idle", reader'[r].key \in Keys
    PROVE  seen'[r] = seen[r] \cup {Held(data', reader'[r].key, meta'[reader'[r].key])}
<1> DEFINE k == reader'[r].key
<1>1. seen'[r] = seen[r] \cup {Contents(reader[r].key)'}
    BY Zenon DEF Observe
<1>2. Contents(reader[r].key)' = ContentsIn(meta', data', k)
    BY Zenon DEF Contents, Matches, check_type_state, Elements, Fetch, ContentsIn, StateOf, FetchIn
<1>3. ContentsIn(meta', data', k) = Held(data', k, meta'[k])
    <2> HIDE DEF k
    <2> QED BY ContentsHeld, Zenon DEF k
<1> QED BY <1>1, <1>2, <1>3, Zenon

-----------------------------------------------------------------------------
(* What follows when a step leaves a list under a key. *)

Leaves(k, m, list) ==
    /\ clock' \in Nat \ {0}
    /\ clock <= clock'
    /\ meta' = [meta EXCEPT ![k] = m]
    /\ m \in MetaRecord
    /\ m.version < clock'
    /\ Stores(data, data', k, m, list)

\* Every entry is an old one or belongs to the list that is now under its key.
OldOrListed ==
    \A p \in DOMAIN data' :
        \/ p \in DOMAIN data /\ data'[p] = data[p]
        \/ p.key \in Keys /\ Live(meta'[p.key]) /\ p.version = meta'[p.key].version

\* The store stays well formed, and no key but one holds something else.
LEMMA LeavesStore ==
    ASSUME TypeOK, Dated(clock, meta, data), AllComplete(meta, data),
           NEW k \in Keys, NEW m, NEW list, Leaves(k, m, list)
    PROVE  /\ clock' \in Nat \ {0}
           /\ meta' \in [Keys -> MetaRecord]
           /\ Typed(data')
           /\ Dated(clock', meta', data')
           /\ AllComplete(meta', data')
           /\ Held(data', k, meta'[k]) = list
           /\ \A j \in Keys : j # k => Held(data', j, meta'[j]) = Held(data, j, meta[j])
           /\ OldOrListed
           /\ list \in Seq(Values)
<1>1. clock' \in Nat \ {0} /\ clock' \in Nat /\ clock \in Nat /\ clock <= clock' /\ m.version < clock'
    BY Zenon DEF Leaves, TypeOK
<1>2. /\ meta' \in [Keys -> MetaRecord] /\ meta'[k] = m /\ m \in MetaRecord
      /\ \A j \in Keys : j # k => meta'[j] = meta[j]
      /\ \A j \in Keys : meta[j] \in MetaRecord
    BY Zenon DEF Leaves, TypeOK
<1>3. /\ \A p \in DOMAIN data' :
            \/ p \in DOMAIN data /\ data'[p] = data[p]
            \/ Live(m) /\ p \in Position /\ p.key = k /\ p.version = m.version
      /\ \A p \in DOMAIN data : p.key # k => p \in DOMAIN data' /\ data'[p] = data[p]
      /\ list \in Seq(Values) /\ Complete(data', k, m) /\ Held(data', k, m) = list
    BY Zenon DEF Leaves, Stores
<1>4. DOMAIN data \subseteq Position /\ \A p \in DOMAIN data : data[p] \in Values
    BY Zenon DEF TypeOK, Typed
<1>5. \A p \in DOMAIN data' : data'[p] \in Values
    <2> SUFFICES ASSUME NEW p \in DOMAIN data', Live(m), p \in Position, p.key = k,
                        p.version = m.version
                 PROVE  data'[p] \in Values
        BY <1>3, <1>4, Zenon
    <2>1. p.index \in (m.left + 1)..m.right /\ m.right = m.left + m.count
        BY <1>3, Zenon DEF Complete
    <2>2. m.left \in Int /\ m.count \in Nat
        BY <1>2 DEF MetaRecord
    <2>3. p.index - m.left \in 1..m.count /\ m.left + (p.index - m.left) = p.index
        BY <2>1, <2>2
    <2>4. p = At(k, m.version, p.index)
        BY DEF Position, At
    <2>5. data'[p] = Held(data', k, m)[p.index - m.left]
        BY <2>3, <2>4, Zenon DEF Held, Window
    <2>6. Len(list) = m.count
        <3>1. m.count \in Nat /\ Held(data', k, m) = [i \in 1..m.count |-> data'[At(k, m.version, m.left + i)]]
            BY <2>2, Zenon DEF Held, Window
        <3> QED BY <1>3, <3>1
    <2>7. \A i \in 1..Len(list) : list[i] \in Values
        BY <1>3
    <2> QED BY <1>3, <2>3, <2>5, <2>6, <2>7, Zenon
<1>6. Typed(data')
    BY <1>3, <1>4, <1>5, Zenon DEF Typed
<1>7. Dated(clock', meta', data')
    <2>1. \A v \in Nat : v < clock => v < clock' BY <1>1
    <2>2. \A j \in Keys : meta[j].version \in Nat BY <1>2 DEF MetaRecord
    <2>3. \A p \in DOMAIN data : p.version \in Nat BY <1>4 DEF Position
    <2>4. \A j \in Keys : meta'[j].version < clock'
        BY <1>1, <1>2, <2>1, <2>2, Zenon DEF Dated
    <2>5. \A p \in DOMAIN data' : p.version < clock'
        BY <1>1, <1>3, <2>1, <2>3, Zenon DEF Dated
    <2> QED BY <2>4, <2>5, Zenon DEF Dated
<1>8. \A j \in Keys : j # k =>
          /\ \A p \in DOMAIN data' : p.key = j => p \in DOMAIN data /\ data'[p] = data[p]
          /\ \A p \in DOMAIN data : p.key = j => p \in DOMAIN data' /\ data'[p] = data[p]
    <2> SUFFICES ASSUME NEW j \in Keys, j # k
                 PROVE  /\ \A p \in DOMAIN data' : p.key = j => p \in DOMAIN data /\ data'[p] = data[p]
                        /\ \A p \in DOMAIN data : p.key = j => p \in DOMAIN data' /\ data'[p] = data[p]
        BY Zenon
    <2>1. \A p : p.key = j => p.key # k BY Zenon
    <2>2. \A p \in DOMAIN data' : p.key # k => p \in DOMAIN data /\ data'[p] = data[p]
        BY <1>3, Zenon
    <2>3. \A p \in DOMAIN data : p.key # k => p \in DOMAIN data' /\ data'[p] = data[p]
        BY <1>3, Zenon
    <2> QED BY <2>1, <2>2, <2>3, Zenon
<1>9. \A j \in Keys : j # k => Complete(data', j, meta'[j])
    <2> SUFFICES ASSUME NEW j \in Keys, j # k, Live(meta[j])
                 PROVE  Complete(data', j, meta[j])
        BY <1>2, Zenon DEF Complete
    <2>1. Complete(data, j, meta[j])
        BY Zenon DEF AllComplete
    <2>2. \A i : At(j, meta[j].version, i).key = j
        BY DEF At
    <2> QED BY <1>8, <2>1, <2>2, Zenon DEF Complete
<1>10. AllComplete(meta', data')
    BY <1>2, <1>3, <1>9, Zenon DEF AllComplete
<1>11. \A j \in Keys : j # k => Held(data', j, meta'[j]) = Held(data, j, meta[j])
    <2> SUFFICES ASSUME NEW j \in Keys, j # k, Live(meta[j])
                 PROVE  Window(data', j, meta[j]) = Window(data, j, meta[j])
        BY <1>2, Zenon DEF Held
    <2>1. IsHeld(Held(data, j, meta[j]), data, j, meta[j])
        <3>1. Typed(data) /\ Complete(data, j, meta[j]) BY Zenon DEF TypeOK, AllComplete
        <3> QED BY <1>2, <3>1, HeldFacts, Zenon
    <2>2. \A i \in 1..meta[j].count : At(j, meta[j].version, meta[j].left + i) \in DOMAIN data
        BY <2>1, Zenon DEF IsHeld
    <2>3. \A i : At(j, meta[j].version, i).key = j
        BY DEF At
    <2>4. \A i \in 1..meta[j].count : data'[At(j, meta[j].version, meta[j].left + i)]
                                       = data[At(j, meta[j].version, meta[j].left + i)]
        BY <1>8, <2>2, <2>3, Zenon
    <2> QED BY <2>4, Zenon DEF Window
<1>12. OldOrListed
    BY <1>2, <1>3, Zenon DEF OldOrListed
<1> QED BY <1>1, <1>2, <1>3, <1>6, <1>7, <1>10, <1>11, <1>12, Zenon

\* An LRANGE sees the elements of the list that is now under its key.
LEMMA ListedSeen ==
    ASSUME NumberFacts, meta' \in [Keys -> MetaRecord], Typed(data'), AllComplete(meta', data'),
           Observe,
           NEW r \in Readers, reader'[r].pc # "idle", reader'[r].key \in Keys,
           NEW p \in DOMAIN data', p.key = reader'[r].key,
           Live(meta'[p.key]), p.version = meta'[p.key].version
    PROVE  data'[p] \in Was(seen'[r])
<1> DEFINE k == p.key
           m == meta'[k]
           list == Held(data', k, m)
<1>1. list \in seen'[r]
    BY Observed, Zenon
<1>2. m \in MetaRecord /\ Complete(data', k, m) /\ p \in Position
    BY Zenon DEF AllComplete, Typed
<1>3. p.index \in (m.left + 1)..m.right /\ m.right = m.left + m.count
    BY <1>2, Zenon DEF Complete
<1>4. m.left \in Int /\ m.count \in Nat
    BY <1>2 DEF MetaRecord
<1>5. p.index - m.left \in 1..m.count /\ m.left + (p.index - m.left) = p.index
    <2> HIDE DEF m
    <2> QED BY <1>3, <1>4
<1>6. p = At(k, m.version, p.index)
    <2>1. p = At(p.key, p.version, p.index) BY <1>2 DEF Position, At
    <2> QED BY <2>1, Zenon
<1>7. DOMAIN list = 1..m.count /\ data'[p] = list[p.index - m.left]
    BY <1>5, <1>6, Zenon DEF Held, Window
<1> HIDE DEF list, m
<1>8. list[p.index - m.left] \in ToSet(list)
    BY <1>5, <1>7, Zenon DEF ToSet
<1> QED BY <1>1, <1>7, <1>8, Zenon DEF Was

\* An LRANGE that does not move stays sound: a new entry under its version is an
\* element of a list it sees now.
LEMMA StaysSound ==
    ASSUME NumberFacts, meta' \in [Keys -> MetaRecord], Typed(data'), AllComplete(meta', data'),
           OldOrListed, Observe, NEW r \in Readers, reader'[r] = reader[r],
           Sound(data, reader[r], Was(seen[r]))
    PROVE  Sound(data', reader'[r], Was(seen'[r]))
<1> DEFINE q == reader[r]
<1> SUFFICES ASSUME q.pc # "idle" PROVE Sound(data', q, Was(seen'[r]))
    BY Zenon DEF Sound
<1>1. /\ q.key \in Keys
      /\ \A p \in DOMAIN data : p.key = q.key /\ p.version = q.meta.version =>
             data[p] \in Was(seen[r])
      /\ \A i \in DOMAIN q.result : q.result[i] \in Was(seen[r])
    BY Zenon DEF Sound
<1>2. seen'[r] = seen[r] \cup {Held(data', q.key, meta'[q.key])}
    BY <1>1, Observed, Zenon
<1>3. \A x \in Was(seen[r]) : x \in Was(seen'[r])
    BY <1>2, Zenon DEF Was
<1>4. \A p \in DOMAIN data' : p.key = q.key /\ p.version = q.meta.version =>
          data'[p] \in Was(seen'[r])
    BY <1>1, <1>3, ListedSeen, Zenon DEF OldOrListed
<1> QED BY <1>1, <1>3, <1>4, Zenon DEF Sound

\* What a command finds under its key.
KeyFacts(k) ==
    /\ meta[k] \in MetaRecord /\ Typed(data) /\ Complete(data, k, meta[k])
    /\ IsHeld(Held(data, k, meta[k]), data, k, meta[k])
    /\ clock \in Nat \ {0} /\ meta[k].version < clock /\ \A p \in DOMAIN data : p.version < clock
    /\ expect[k] \in Seq(Values)
    /\ Matches(k) <=> Live(meta[k])
    /\ Fresh(k) => ~Live(meta[k])
    /\ ~Fresh(k) /\ ~WrongType(k) => Live(meta[k])
    /\ Live(meta[k]) => Elements(k) = Held(data, k, meta[k])
    /\ Contents(k) = Held(data, k, meta[k])
    /\ Unlocked(k) => Held(data, k, meta[k]) = expect[k]

LEMMA KeyFactsHold ==
    ASSUME NumberFacts, ListsInv, NEW k \in Keys
    PROVE  KeyFacts(k)
<1>1. /\ meta[k] \in MetaRecord /\ Typed(data) /\ clock \in Nat \ {0}
      /\ expect[k] \in Seq(Values) /\ meta \in [Keys -> MetaRecord]
    BY Zenon DEF ListsInv, TypeOK
<1>2. Complete(data, k, meta[k]) /\ AllComplete(meta, data)
    BY Zenon DEF ListsInv, AllComplete
<1>3. meta[k].version < clock /\ \A p \in DOMAIN data : p.version < clock
    BY Zenon DEF ListsInv, Dated
<1>4. IsHeld(Held(data, k, meta[k]), data, k, meta[k])
    BY <1>1, <1>2, HeldFacts, Zenon
<1>5. check_type_state(k) = StateOf(meta[k])
    BY Zenon DEF check_type_state, StateOf
<1>6. /\ Matches(k) <=> Live(meta[k])
      /\ Fresh(k) => ~Live(meta[k])
      /\ ~Fresh(k) /\ ~WrongType(k) => Live(meta[k])
    BY <1>1, <1>5, StateOfLive, Zenon DEF Matches, Fresh, WrongType
<1>7. Live(meta[k]) => Elements(k) = Held(data, k, meta[k])
    <2>1. Elements(k) = FetchIn(data, k, meta[k].version, Indexes(meta[k]))
        BY Zenon DEF Elements, Fetch, FetchIn
    <2> QED BY <1>1, <1>2, <2>1, IndexesFetched, Zenon
<1>8. Contents(k) = Held(data, k, meta[k])
    BY <1>6, <1>7, Zenon DEF Contents, Held
<1>9. Unlocked(k) => Held(data, k, meta[k]) = expect[k]
    BY Zenon DEF ListsInv, AsWanted, Wanted, Unlocked
<1> QED BY <1>1, <1>2, <1>3, <1>4, <1>6, <1>7, <1>8, <1>9, Zenon DEF KeyFacts

\* The LRANGE commands during a command.
LEMMA ReadersStay ==
    ASSUME NumberFacts, meta' \in [Keys -> MetaRecord], Typed(data'), AllComplete(meta', data'),
           OldOrListed, Observe, AllSound, reader' = reader
    PROVE  AllSound'
<1> SUFFICES ASSUME NEW r \in Readers
             PROVE  Sound(data', reader'[r], Was(seen'[r]))
    BY Zenon DEF AllSound
<1>1. Sound(data, reader[r], Was(seen[r])) /\ reader'[r] = reader[r]
    BY Zenon DEF AllSound
<1> QED BY <1>1, StaysSound, Zenon

\* A batch that leaves under its key what is then wanted there, and changes what is
\* wanted nowhere else, keeps the invariant.
LEMMA BatchKeeps ==
    ASSUME NumberFacts, ListsInv, NEW k \in Keys, NEW m, NEW list, Leaves(k, m, list),
           Wanted(moving', expect', k) = list,
           \A j \in Keys : j # k => Wanted(moving', expect', j) = Wanted(moving, expect, j),
           expect' \in [Keys -> Seq(Values)], moving' \in MoveRecord \cup {NoMove}, OnItsWay',
           reader' = reader, reply' = "expected", Observe
    PROVE  ListsInv'
<1>1. /\ TypeOK /\ Dated(clock, meta, data) /\ AllComplete(meta, data) /\ AsWanted
      /\ AllSound
    BY Zenon DEF ListsInv
<1>2. /\ clock' \in Nat \ {0} /\ meta' \in [Keys -> MetaRecord] /\ Typed(data')
      /\ Dated(clock', meta', data') /\ AllComplete(meta', data')
      /\ Held(data', k, meta'[k]) = list
      /\ \A j \in Keys : j # k => Held(data', j, meta'[j]) = Held(data, j, meta[j])
      /\ OldOrListed
    BY <1>1, LeavesStore, Zenon
<1>3. TypeOK'
    BY <1>1, <1>2, Zenon DEF TypeOK
<1>4. AsWanted'
    <2> SUFFICES ASSUME NEW j \in Keys
                 PROVE  Held(data', j, meta'[j]) = Wanted(moving', expect', j)
        BY Zenon DEF AsWanted
    <2>1. CASE j = k
        BY <1>2, <2>1, Zenon
    <2>2. CASE j # k
        BY <1>1, <1>2, <2>2, Zenon DEF AsWanted
    <2> QED BY <2>1, <2>2, Zenon
<1>5. AllSound'
    BY <1>1, <1>2, ReadersStay, Zenon
<1> QED BY <1>2, <1>3, <1>4, <1>5, Zenon DEF ListsInv

\* A command on a key without an RPOPLPUSH that leaves there the list that is then
\* expected keeps the invariant.
LEMMA CommandKeeps ==
    ASSUME NumberFacts, ListsInv, NEW k \in Keys, Unlocked(k), NEW m, NEW list, Leaves(k, m, list),
           Expect(k, list), moving' = moving, reader' = reader, reply' = "expected", Observe
    PROVE  ListsInv'
<1>1. /\ TypeOK /\ Dated(clock, meta, data) /\ AllComplete(meta, data) /\ OnItsWay
    BY Zenon DEF ListsInv
<1>2. list \in Seq(Values)
    BY <1>1, LeavesStore, Zenon
<1>3. /\ expect' \in [Keys -> Seq(Values)] /\ expect'[k] = list
      /\ \A j \in Keys : j # k => expect'[j] = expect[j]
    BY <1>1, <1>2, Zenon DEF Expect, TypeOK
<1>4. moving' \in MoveRecord \cup {NoMove}
    BY <1>1, Zenon DEF TypeOK
<1>5. k # moving.source
    BY Zenon DEF Unlocked
<1>6. Wanted(moving', expect', k) = list
    BY <1>3, <1>5, Zenon DEF Wanted
<1>7. \A j \in Keys : j # k => Wanted(moving', expect', j) = Wanted(moving, expect, j)
    BY <1>3, Zenon DEF Wanted
<1>8. OnItsWay'
    <2>1. moving # NoMove => moving.source \in Keys
        BY <1>1 DEF TypeOK, MoveRecord
    <2> QED BY <1>1, <1>3, <1>5, <2>1, Zenon DEF OnItsWay
<1> QED BY <1>3, <1>4, <1>6, <1>7, <1>8, BatchKeeps, Zenon

LEMMA BatchLeaves ==
    ASSUME NEW k \in Keys, KeyFacts(k), NEW m \in MetaRecord, m.version <= clock, NEW deletes,
           NEW puts, NEW list, Batch(k, m, deletes, puts),
           Stores(data, Written(data, deletes, puts), k, m, list)
    PROVE  Leaves(k, m, list)
<1>1. clock' = clock + 1 /\ meta' = [meta EXCEPT ![k] = m]
      /\ data' = Written(data, deletes, puts)
    BY Zenon DEF Batch, Written
<1>2. clock' \in Nat \ {0} /\ clock <= clock' /\ m.version < clock'
    <2>1. clock \in Nat /\ m.version \in Nat BY DEF KeyFacts, MetaRecord
    <2> QED BY <1>1, <2>1
<1> QED BY <1>1, <1>2, Zenon DEF Leaves

\* A meta value with another version, indexes and count.
IsMeta(mm, m, count, version, left, right) ==
    /\ mm \in MetaRecord /\ mm.type = m.type /\ mm.expired = m.expired
    /\ mm.count = count /\ mm.version = version /\ mm.left = left /\ mm.right = right

LEMMA MetaUpdates ==
    ASSUME NEW m \in MetaRecord, NEW c \in Nat, NEW v \in Nat, NEW l \in Int, NEW r \in Int
    PROVE  /\ IsMeta([m EXCEPT !.version = v, !.left = l, !.count = c, !.right = r],
                     m, c, v, l, r)
           /\ IsMeta([m EXCEPT !.version = v, !.count = c, !.right = r], m, c, v, m.left, r)
           /\ IsMeta([m EXCEPT !.count = c, !.left = l, !.right = r], m, c, m.version, l, r)
           /\ IsMeta([m EXCEPT !.count = c, !.right = r], m, c, m.version, m.left, r)
           /\ IsMeta([m EXCEPT !.right = r, !.count = c], m, c, m.version, m.left, r)
           /\ IsMeta([m EXCEPT !.left = l, !.count = c], m, c, m.version, l, m.right)
<1>1. IsMeta([m EXCEPT !.version = v, !.left = l, !.count = c, !.right = r], m, c, v, l, r)
    BY Zenon DEF IsMeta, MetaRecord
<1>2. IsMeta([m EXCEPT !.version = v, !.count = c, !.right = r], m, c, v, m.left, r)
    BY Zenon DEF IsMeta, MetaRecord
<1>3. IsMeta([m EXCEPT !.count = c, !.left = l, !.right = r], m, c, m.version, l, r)
    BY Zenon DEF IsMeta, MetaRecord
<1>4. IsMeta([m EXCEPT !.count = c, !.right = r], m, c, m.version, m.left, r)
    BY Zenon DEF IsMeta, MetaRecord
<1>5. IsMeta([m EXCEPT !.right = r, !.count = c], m, c, m.version, m.left, r)
    BY Zenon DEF IsMeta, MetaRecord
<1>6. IsMeta([m EXCEPT !.left = l, !.count = c], m, c, m.version, l, m.right)
    BY Zenon DEF IsMeta, MetaRecord
<1> QED BY <1>1, <1>2, <1>3, <1>4, <1>5, <1>6, Zenon

-----------------------------------------------------------------------------
(* Pushes. *)

LEMMA ReverseFacts ==
    ASSUME NEW s \in Seq(Values)
    PROVE  Reverse(s) \in Seq(Values) /\ Len(Reverse(s)) = Len(s)
<1>1. Len(s) \in Nat /\ \A i \in 1..Len(s) : s[(Len(s) - i) + 1] \in Values
    OBVIOUS
<1>2. Reverse(s) \in [1..Len(s) -> Values]
    BY <1>1, Zenon DEF Reverse
<1> QED BY <1>1, <1>2

\* The version a rewritten list gets is the clock's.
LEMMA NewVersion ==
    ASSUME clock \in Nat \ {0}, NEW v \in Nat, v < clock
    PROVE  update_version(v) = clock
BY DEF update_version

LEMMA NewListMeta ==
    ASSUME clock \in Nat \ {0}
    PROVE  /\ new_list_meta \in MetaRecord /\ ~Live(new_list_meta)
           /\ new_list_meta.count = 0 /\ new_list_meta.version = clock
           /\ new_list_meta.type = "list" /\ ~new_list_meta.expired
<1>1. update_version(0) = clock
    BY NewVersion
<1> QED BY <1>1 DEF new_list_meta, MetaRecord, Live, InitialLeft

\* The meta value a push starts from.
PushBase(k, m) ==
    \/ m = meta[k] /\ Live(m)
    \/ m = new_list_meta /\ ~Live(meta[k])

LEMMA PushBaseFacts ==
    ASSUME NEW k \in Keys, KeyFacts(k), NEW m, PushBase(k, m)
    PROVE  /\ m \in MetaRecord /\ m.type = "list" /\ m.expired = FALSE
           /\ m.version \in Nat /\ m.version <= clock
           /\ m.count \in Nat /\ m.left \in Int /\ m.right \in Int
           /\ m.count # 0 => m = meta[k] /\ Live(meta[k]) /\ m.version < clock
           /\ m.count = 0 => m.version = clock /\ Held(data, k, meta[k]) = <<>>
<1>1. clock \in Nat \ {0} /\ meta[k] \in MetaRecord /\ meta[k].version < clock
    BY Zenon DEF KeyFacts
<1>2. CASE m = meta[k] /\ Live(m)
    <2>1. m.type = "list" /\ ~m.expired /\ m.count # 0 BY <1>2, Zenon DEF Live
    <2>2. m \in MetaRecord /\ m.version < clock BY <1>1, <1>2, Zenon
    <2>3. /\ m.version \in Nat /\ m.count \in Nat /\ m.left \in Int /\ m.right \in Int
          /\ m.expired \in BOOLEAN
        BY <2>2 DEF MetaRecord
    <2>4. m.version <= clock BY <1>1, <2>2, <2>3
    <2> QED BY <1>2, <2>1, <2>2, <2>3, <2>4, Zenon
<1>3. CASE m = new_list_meta /\ ~Live(meta[k])
    <2>1. /\ m \in MetaRecord /\ m.count = 0 /\ m.version = clock
          /\ m.type = "list" /\ ~m.expired
        BY <1>1, <1>3, NewListMeta, Zenon
    <2>2. /\ m.version \in Nat /\ m.count \in Nat /\ m.left \in Int /\ m.right \in Int
          /\ m.expired \in BOOLEAN
        BY <2>1 DEF MetaRecord
    <2>3. m.version <= clock BY <1>1, <2>1
    <2>4. Held(data, k, meta[k]) = <<>> BY <1>3, Zenon DEF Held
    <2> QED BY <2>1, <2>2, <2>3, <2>4, Zenon
<1> QED BY <1>2, <1>3, Zenon DEF PushBase

LEMMA PushLeftLeaves ==
    ASSUME NEW k \in Keys, KeyFacts(k), NEW m, PushBase(k, m),
           NEW values \in Seq(Values), values # <<>>, PushLeft(k, m, values)
    PROVE  \E mm : Leaves(k, mm, Reverse(values) \o Held(data, k, meta[k]))
<1> DEFINE n == Len(values)
           old == Held(data, k, meta[k])
           existing == IF m.count = 0 THEN <<>> ELSE Fetch(k, m.version, Indexes(m))
           version == IF m.count = 0 THEN m.version ELSE update_version(m.version)
           mm == [m EXCEPT !.version = version, !.left = m.left - n, !.count = m.count + n,
                           !.right = m.left + m.count]
           deletes == Positions(k, m.version, ToSet(Indexes(m)))
           list == Reverse(values) \o existing
           puts == Placed(k, version, m.left - n + 1, list)
<1>1. /\ m \in MetaRecord /\ m.type = "list" /\ m.expired = FALSE
      /\ m.version \in Nat /\ m.version <= clock
      /\ m.count \in Nat /\ m.left \in Int /\ m.right \in Int
      /\ m.count # 0 => m = meta[k] /\ Live(meta[k]) /\ m.version < clock
      /\ m.count = 0 => m.version = clock /\ old = <<>>
    BY PushBaseFacts, Zenon
<1>2. clock \in Nat \ {0} /\ \A p \in DOMAIN data : p.version < clock
    BY Zenon DEF KeyFacts
<1>3. version = clock
    BY <1>1, <1>2, NewVersion, Zenon
<1>4. existing = old
    <2>1. m.count # 0 => Fetch(k, m.version, Indexes(m)) = Elements(k)
        BY <1>1, Zenon DEF Elements
    <2> QED BY <1>1, <2>1, Zenon DEF KeyFacts
<1>5. n \in Nat \ {0}
    OBVIOUS
<1> HIDE DEF n, version, existing, old
<1>6. /\ mm \in MetaRecord /\ mm.version = clock /\ mm.left = m.left - n
      /\ mm.count = m.count + n /\ mm.right = m.left + m.count
      /\ mm.type = "list" /\ mm.expired = FALSE
    <2>1. m.left - n \in Int /\ m.count + n \in Nat /\ m.left + m.count \in Int /\ clock \in Nat
        BY <1>1, <1>2, <1>5
    <2>2. IsMeta(mm, m, m.count + n, version, m.left - n, m.left + m.count)
        BY <1>1, <1>3, <2>1, MetaUpdates, Zenon
    <2> HIDE DEF mm
    <2> QED BY <1>1, <1>3, <2>2, Zenon DEF IsMeta
<1>7. Batch(k, mm, deletes, puts)
    BY Zenon DEF PushLeft, n, version, existing
<1> HIDE DEF mm
<1>8. mm.right = mm.left + mm.count /\ mm.count # 0 /\ mm.left + 1 = m.left - n + 1
    BY <1>1, <1>5, <1>6
<1>9. Live(mm)
    BY <1>6, <1>8, Zenon DEF Live
<1>10. list \in Seq(Values) /\ Len(list) = mm.count
    <2>1. old \in Seq(Values) /\ Len(old) = m.count
        <3>1. IsHeld(old, data, k, meta[k]) BY Zenon DEF KeyFacts, old
        <3>2. Len(<<>>) = 0 OBVIOUS
        <3> QED BY <1>1, <3>1, <3>2, Zenon DEF IsHeld
    <2>2. Reverse(values) \in Seq(Values) /\ Len(Reverse(values)) = n
        BY ReverseFacts, Zenon DEF n
    <2>3. list \in Seq(Values) /\ Follows(list, Reverse(values), old)
        BY <1>4, <2>1, <2>2, ConcatFacts, Zenon
    <2> HIDE DEF list
    <2>4. Len(list) = n + m.count BY <2>1, <2>2, <2>3, Zenon DEF Follows
    <2>5. n + m.count = m.count + n BY <1>1, <1>5
    <2> QED BY <1>6, <2>3, <2>4, <2>5, Zenon
<1> HIDE DEF list
<1>11. /\ \A p \in deletes : p.key = k
       /\ \A p \in DOMAIN data : ~(p.key = k /\ p.version = mm.version)
    <2>1. \A p \in deletes : p.key = k
        BY DEF Positions, At
    <2>2. \A p \in DOMAIN data : p.version \in Nat
        BY DEF KeyFacts, Typed, Position
    <2>3. \A p \in DOMAIN data : p.version # clock
        BY <1>2, <2>2
    <2> HIDE DEF deletes
    <2> QED BY <1>6, <2>1, <2>3, Zenon
<1> HIDE DEF deletes
<1>12. Stores(data, Written(data, deletes, puts), k, mm, list)
    <2>1. puts = Placed(k, mm.version, mm.left + 1, list)
        BY <1>3, <1>6, <1>8, Zenon
    <2>2. Typed(data) BY Zenon DEF KeyFacts
    <2> HIDE DEF puts
    <2>3. Stores(data, Written(data, deletes, Placed(k, mm.version, mm.left + 1, list)), k, mm, list)
        BY <1>6, <1>8, <1>9, <1>10, <1>11, <2>2, StoresAll, Zenon
    <2> QED BY <2>1, <2>3, Zenon
<1>13. mm.version <= clock
    BY <1>2, <1>6
<1>14. Leaves(k, mm, list)
    <2> HIDE DEF puts
    <2> QED BY <1>6, <1>7, <1>12, <1>13, BatchLeaves, Zenon
<1>15. list = Reverse(values) \o old
    BY <1>4, Zenon DEF list
<1> QED BY <1>14, <1>15, Zenon DEF old

LEMMA PushRightLeaves ==
    ASSUME NEW k \in Keys, KeyFacts(k), NEW m, PushBase(k, m),
           NEW values \in Seq(Values), values # <<>>, PushRight(k, m, values)
    PROVE  \E mm : Leaves(k, mm, Held(data, k, meta[k]) \o values)
<1> DEFINE n == Len(values)
           old == Held(data, k, meta[k])
           mm == [m EXCEPT !.count = m.count + n, !.right = m.left + m.count + n]
           puts == Placed(k, m.version, m.left + m.count + 1, values)
           list == old \o values
<1>1. /\ m \in MetaRecord /\ m.type = "list" /\ m.expired = FALSE
      /\ m.version \in Nat /\ m.version <= clock
      /\ m.count \in Nat /\ m.left \in Int /\ m.right \in Int
      /\ m.count # 0 => m = meta[k] /\ Live(meta[k]) /\ m.version < clock
      /\ m.count = 0 => m.version = clock /\ old = <<>>
    BY PushBaseFacts, Zenon
<1>2. clock \in Nat \ {0} /\ \A p \in DOMAIN data : p.version < clock
    BY Zenon DEF KeyFacts
<1>3. n \in Nat \ {0}
    OBVIOUS
<1> HIDE DEF n, old
<1>4. /\ mm \in MetaRecord /\ mm.version = m.version /\ mm.left = m.left
      /\ mm.count = m.count + n /\ mm.right = m.left + m.count + n
      /\ mm.type = "list" /\ mm.expired = FALSE
    <2>1. m.count + n \in Nat /\ m.left + m.count + n \in Int
        BY <1>1, <1>3
    <2>2. IsMeta(mm, m, m.count + n, m.version, m.left, m.left + m.count + n)
        BY <1>1, <2>1, MetaUpdates, Zenon
    <2> HIDE DEF mm
    <2> QED BY <1>1, <2>2, Zenon DEF IsMeta
<1>5. Batch(k, mm, {}, puts)
    BY Zenon DEF PushRight, n
<1> HIDE DEF mm
<1>6. mm.right = mm.left + mm.count /\ mm.count # 0
    BY <1>1, <1>3, <1>4
<1>7. Live(mm) /\ Typed(data)
    BY <1>4, <1>6, Zenon DEF Live, KeyFacts
<1>8. ASSUME m.count # 0
      PROVE  Stores(data, Written(data, {}, puts), k, mm, list)
    <2>1. m = meta[k] /\ Live(m) /\ Complete(data, k, m)
        BY <1>1, <1>8, Zenon DEF KeyFacts
    <2>2. mm.version = m.version /\ mm.left = m.left /\ mm.count = m.count + Len(values)
        BY <1>4, Zenon DEF n
    <2>3. Stores(data, Written(data, {}, Placed(k, mm.version, m.left + m.count + 1, values)), k, mm,
                 Held(data, k, m) \o values)
        BY <1>1, <1>4, <1>6, <1>7, <2>1, <2>2, StoresMore, Zenon
    <2> QED BY <2>1, <2>2, <2>3, Zenon DEF old
<1>9. ASSUME m.count = 0
      PROVE  Stores(data, Written(data, {}, puts), k, mm, list)
    <2>1. list = values
        <3>1. old = <<>> BY <1>1, <1>9, Zenon
        <3> QED BY <3>1
    <2>2. Len(values) = mm.count /\ mm.left + 1 = m.left + m.count + 1
        <3>1. m.count + n = n /\ m.left + 1 = m.left + m.count + 1 BY <1>1, <1>3, <1>9
        <3> QED BY <1>4, <3>1, Zenon DEF n
    <2>3. \A p \in DOMAIN data : ~(p.key = k /\ p.version = mm.version)
        <3>1. \A p \in DOMAIN data : p.version \in Nat BY DEF KeyFacts, Typed, Position
        <3>2. \A p \in DOMAIN data : p.version # clock BY <1>2, <3>1
        <3>3. mm.version = clock BY <1>1, <1>4, <1>9, Zenon
        <3> QED BY <3>2, <3>3, Zenon
    <2>4. \A p \in {} : p.key = k
        BY Zenon
    <2>5. Stores(data, Written(data, {}, Placed(k, mm.version, mm.left + 1, values)), k, mm, values)
        BY <1>4, <1>6, <1>7, <2>2, <2>3, <2>4, StoresAll, Zenon
    <2> QED BY <1>4, <2>1, <2>2, <2>5, Zenon
<1>10. Stores(data, Written(data, {}, puts), k, mm, list)
    BY <1>8, <1>9, Zenon
<1>11. mm.version <= clock
    BY <1>1, <1>4, Zenon
<1> HIDE DEF puts, list
<1>12. Leaves(k, mm, list)
    BY <1>4, <1>5, <1>10, <1>11, BatchLeaves, Zenon
<1> QED BY <1>12, Zenon DEF list, old

\* LPUSH and RPUSH: the expected list is left.
LEMMA PushKeeps ==
    ASSUME NumberFacts, ListsInv, NEW k \in Keys, NEW values \in PushArgs,
           NEW position \in {"left", "right"}, push(k, values, position)
    PROVE  ListsInv'
<1> DEFINE m == IF Fresh(k) THEN new_list_meta ELSE meta[k]
           old == Held(data, k, meta[k])
<1>1. /\ Unlocked(k) /\ push_core(k, values, position) /\ moving' = moving /\ reader' = reader
      /\ reply' = reply /\ Observe
      /\ Expect(k, IF position = "left" THEN Reverse(values) \o expect[k] ELSE expect[k] \o values)
    BY Zenon DEF push
<1>2. KeyFacts(k)
    BY KeyFactsHold, Zenon
<1>3. values \in Seq(Values) /\ values # <<>>
    BY ArgsAssumption, Zenon
<1>4. old = expect[k]
    BY <1>1, <1>2, Zenon DEF KeyFacts
<1>5. PushBase(k, m)
    BY <1>1, <1>2, Zenon DEF PushBase, KeyFacts, push_core
<1>6. IF position = "left" THEN PushLeft(k, m, values) ELSE PushRight(k, m, values)
    BY <1>1, Zenon DEF push_core
<1>7. reply' = "expected"
    BY <1>1, Zenon DEF ListsInv
<1> HIDE DEF m, old
<1>8. CASE position = "left"
    <2>1. PICK mm : Leaves(k, mm, Reverse(values) \o old)
        BY <1>2, <1>3, <1>5, <1>6, <1>8, PushLeftLeaves, Zenon DEF old
    <2>2. Leaves(k, mm, Reverse(values) \o expect[k]) /\ Expect(k, Reverse(values) \o expect[k])
        BY <1>1, <1>4, <1>8, <2>1, Zenon
    <2> QED BY <1>1, <1>7, <2>2, CommandKeeps, Zenon
<1>9. CASE position # "left"
    <2>1. PICK mm : Leaves(k, mm, old \o values)
        BY <1>2, <1>3, <1>5, <1>6, <1>9, PushRightLeaves, Zenon DEF old
    <2>2. Leaves(k, mm, expect[k] \o values) /\ Expect(k, expect[k] \o values)
        BY <1>1, <1>4, <1>9, <2>1, Zenon
    <2> QED BY <1>1, <1>7, <2>2, CommandKeeps, Zenon
<1> QED BY <1>8, <1>9, Zenon

-----------------------------------------------------------------------------
(* The end of a list: DEL, SET and the passing of its expiry time. *)

\* A batch that deletes entries of its key and leaves no list.
LEMMA EndsLeaves ==
    ASSUME NEW k \in Keys, KeyFacts(k), NEW m \in MetaRecord, ~Live(m), m.version <= clock,
           NEW deletes, \A p \in deletes : p.key = k, NEW puts, DOMAIN puts = {},
           Batch(k, m, deletes, puts)
    PROVE  Leaves(k, m, <<>>)
<1>1. Stores(data, Written(data, deletes, puts), k, m, <<>>)
    BY StoresNone, Zenon
<1> QED BY <1>1, BatchLeaves, Zenon

LEMMA NoMetaFacts ==
    ASSUME clock \in Nat \ {0}
    PROVE  /\ NoMeta \in MetaRecord /\ ~Live(NoMeta) /\ NoMeta.version <= clock
           /\ LET m == [NoMeta EXCEPT !.type = "string"]
              IN  m \in MetaRecord /\ ~Live(m) /\ m.version <= clock
<1> DEFINE m == [NoMeta EXCEPT !.type = "string"]
<1>1. NoMeta \in MetaRecord /\ NoMeta.count = 0 /\ NoMeta.version = 0
    BY DEF NoMeta, MetaRecord
<1>2. m \in MetaRecord /\ m.count = 0 /\ m.version = 0
    <2> DEFINE x == NoMeta
    <2>1. x \in MetaRecord /\ x.count = 0 /\ x.version = 0 /\ m = [x EXCEPT !.type = "string"]
        BY <1>1, Zenon
    <2> HIDE DEF x, m
    <2> QED BY <2>1 DEF MetaRecord
<1>3. 0 <= clock
    OBVIOUS
<1> QED BY <1>1, <1>2, <1>3, Zenon DEF Live

LEMMA DelKeeps ==
    ASSUME NumberFacts, ListsInv, NEW k \in Keys, del_key(k)
    PROVE  ListsInv'
<1> DEFINE m == IF meta[k].type = "string" THEN NoMeta
                ELSE [meta[k] EXCEPT !.count = 0, !.version = update_version(meta[k].version)]
<1>1. /\ Unlocked(k) /\ Batch(k, m, {}, <<>>) /\ Expect(k, <<>>) /\ moving' = moving
      /\ reader' = reader /\ reply' = reply /\ Observe
    BY Zenon DEF del_key
<1>2. KeyFacts(k)
    BY KeyFactsHold, Zenon
<1>3. meta[k] \in MetaRecord /\ clock \in Nat \ {0} /\ meta[k].version < clock
    BY <1>2, Zenon DEF KeyFacts
<1>4. meta[k].version \in Nat
    BY <1>3 DEF MetaRecord
<1>5. update_version(meta[k].version) = clock
    BY <1>3, <1>4, NewVersion, Zenon
<1>6. m \in MetaRecord /\ ~Live(m) /\ m.version <= clock
    <2>1. CASE meta[k].type = "string"
        BY <1>3, <2>1, NoMetaFacts, Zenon
    <2>2. CASE meta[k].type # "string"
        <3>1. m = [meta[k] EXCEPT !.count = 0, !.version = clock] BY <1>5, <2>2, Zenon
        <3> HIDE DEF m
        <3>2. m \in MetaRecord /\ m.count = 0 /\ m.version = clock
            BY <1>3, <3>1, Zenon DEF MetaRecord
        <3>3. clock <= clock BY <1>3
        <3> QED BY <3>2, <3>3, Zenon DEF Live
    <2> QED BY <2>1, <2>2, Zenon
<1> HIDE DEF m
<1>7. DOMAIN <<>> = {} /\ \A p \in {} : p.key = k
    OBVIOUS
<1>8. Leaves(k, m, <<>>)
    BY <1>1, <1>2, <1>6, <1>7, EndsLeaves, Zenon
<1>9. reply' = "expected"
    BY <1>1, Zenon DEF ListsInv
<1> QED BY <1>1, <1>8, <1>9, CommandKeeps, Zenon

LEMMA SetKeeps ==
    ASSUME NumberFacts, ListsInv, NEW k \in Keys, set(k)
    PROVE  ListsInv'
<1> DEFINE m == [NoMeta EXCEPT !.type = "string"]
<1>1. /\ Unlocked(k) /\ Batch(k, m, {}, <<>>) /\ Expect(k, <<>>) /\ moving' = moving
      /\ reader' = reader /\ reply' = reply /\ Observe
    BY Zenon DEF set
<1>2. KeyFacts(k)
    BY KeyFactsHold, Zenon
<1>3. clock \in Nat \ {0}
    BY <1>2, Zenon DEF KeyFacts
<1>4. m \in MetaRecord /\ ~Live(m) /\ m.version <= clock
    BY <1>3, NoMetaFacts, Zenon
<1> HIDE DEF m
<1>5. DOMAIN <<>> = {} /\ \A p \in {} : p.key = k
    OBVIOUS
<1>6. Leaves(k, m, <<>>)
    BY <1>1, <1>2, <1>4, <1>5, EndsLeaves, Zenon
<1>7. reply' = "expected"
    BY <1>1, Zenon DEF ListsInv
<1> QED BY <1>1, <1>6, <1>7, CommandKeeps, Zenon

LEMMA LapseKeeps ==
    ASSUME NumberFacts, ListsInv, NEW k \in Keys, Lapse(k)
    PROVE  ListsInv'
<1> DEFINE m == [meta[k] EXCEPT !.expired = TRUE]
<1>1. /\ Unlocked(k) /\ Expect(k, <<>>) /\ moving' = moving
      /\ reader' = reader /\ reply' = reply /\ Observe /\ clock' = clock /\ data' = data
    BY Zenon DEF Lapse
<1>2. KeyFacts(k)
    BY KeyFactsHold, Zenon
<1>3. /\ meta[k] \in MetaRecord /\ clock \in Nat \ {0} /\ meta[k].version < clock
      /\ meta \in [Keys -> MetaRecord]
    BY <1>2, Zenon DEF KeyFacts, ListsInv, TypeOK
<1>4. meta' = [meta EXCEPT ![k] = m]
    BY <1>3 DEF Lapse
<1>5. m \in MetaRecord /\ ~Live(m) /\ m.version = meta[k].version
    BY <1>3, Zenon DEF MetaRecord, Live
<1> HIDE DEF m
<1>6. Stores(data, data, k, m, <<>>)
    <2>1. <<>> \in Seq(Values) OBVIOUS
    <2> QED BY <1>5, <2>1, Zenon DEF Stores, Complete, Held
<1>7. Leaves(k, m, <<>>)
    <2>1. clock <= clock BY <1>3
    <2> QED BY <1>1, <1>3, <1>4, <1>5, <1>6, <2>1, Zenon DEF Leaves
<1>8. reply' = "expected"
    BY <1>1, Zenon DEF ListsInv
<1> QED BY <1>1, <1>7, <1>8, CommandKeeps, Zenon

-----------------------------------------------------------------------------
(* Pops. *)

\* The elements of a live list, by index.
LiveList(k, m, old) ==
    /\ m \in MetaRecord /\ m.type = "list" /\ m.expired = FALSE
    /\ m.version \in Nat /\ m.version <= clock
    /\ m.count \in Nat \ {0} /\ m.left \in Int /\ m.right \in Int
    /\ m.right = m.left + m.count
    /\ old \in Seq(Values) /\ Len(old) = m.count
    /\ \A i \in 1..m.count :
          /\ At(k, m.version, m.left + i) \in DOMAIN data
          /\ old[i] = data[At(k, m.version, m.left + i)]
    /\ \A p \in DOMAIN data :
          p.key = k /\ p.version = m.version => p.index \in (m.left + 1)..m.right

LEMMA LiveFacts ==
    ASSUME NEW k \in Keys, KeyFacts(k), Live(meta[k])
    PROVE  LiveList(k, meta[k], Held(data, k, meta[k]))
<1> DEFINE m == meta[k]
           old == Held(data, k, m)
<1>1. PushBase(k, m) BY Zenon DEF PushBase
<1>2. /\ m \in MetaRecord /\ m.type = "list" /\ m.expired = FALSE
      /\ m.version \in Nat /\ m.version <= clock
      /\ m.left \in Int /\ m.right \in Int
    BY <1>1, PushBaseFacts, Zenon
<1>3. IsHeld(old, data, k, m) /\ Complete(data, k, m)
    BY Zenon DEF KeyFacts
<1> HIDE DEF old
<1>4. /\ m.right = m.left + m.count /\ m.count \in Nat \ {0}
      /\ old \in Seq(Values) /\ Len(old) = m.count
      /\ \A i \in 1..m.count :
            /\ At(k, m.version, m.left + i) \in DOMAIN data
            /\ old[i] = data[At(k, m.version, m.left + i)]
      /\ \A p \in DOMAIN data :
            p.key = k /\ p.version = m.version => p.index \in (m.left + 1)..m.right
    BY <1>3, Zenon DEF IsHeld, Complete
<1> QED BY <1>2, <1>4, Zenon DEF old, LiveList

\* A batch that keeps a part of the list under its key.
LEMMA PartLeaves ==
    ASSUME NEW k \in Keys, KeyFacts(k), Live(meta[k]), NEW a \in Nat, NEW c \in Nat \ {0},
           a + c <= meta[k].count, NEW m, NEW deletes,
           IsMeta(m, meta[k], c, meta[k].version, meta[k].left + a, meta[k].left + a + c),
           \A p \in deletes : p.key = k /\ p.index \notin (meta[k].left + a + 1)..(meta[k].left + a + c),
           \A p \in DOMAIN data : p.key = k /\ p.version = meta[k].version
               /\ p.index \notin (meta[k].left + a + 1)..(meta[k].left + a + c) => p \in deletes,
           Batch(k, m, deletes, <<>>)
    PROVE  Leaves(k, m, SubSeq(Held(data, k, meta[k]), a + 1, a + c))
<1> DEFINE n == meta[k]
<1>1. LiveList(k, n, Held(data, k, n))
    BY LiveFacts, Zenon
<1>2. /\ m \in MetaRecord /\ m.type = n.type /\ m.expired = n.expired
      /\ m.count = c /\ m.version = n.version /\ m.left = n.left + a /\ m.right = n.left + a + c
    BY Zenon DEF IsMeta
<1>3. n \in MetaRecord /\ n.version <= clock /\ Typed(data) /\ Complete(data, k, n) /\ Live(n)
    BY <1>1, Zenon DEF LiveList, KeyFacts
<1>4. Live(m)
    BY <1>2, Zenon DEF Live
<1>5. /\ m.right = m.left + m.count /\ a + m.count <= n.count
      /\ \A p \in deletes : p.key = k /\ p.index \notin (m.left + 1)..m.right
      /\ \A p \in DOMAIN data : p.key = k /\ p.version = m.version
              /\ p.index \notin (m.left + 1)..m.right => p \in deletes
    BY <1>2, Zenon
<1> HIDE DEF n
<1>6. Stores(data, Written(data, deletes, <<>>), k, m, SubSeq(Held(data, k, n), a + 1, a + m.count))
    BY <1>2, <1>3, <1>4, <1>5, StoresPart, Zenon
<1>7. Stores(data, Written(data, deletes, <<>>), k, m, SubSeq(Held(data, k, n), a + 1, a + c))
    BY <1>2, <1>6, Zenon
<1>8. m.version <= clock
    BY <1>2, <1>3, Zenon
<1> QED BY <1>2, <1>7, <1>8, BatchLeaves, Zenon DEF n

\* The positions of c indexes.
AreAt(positions, k, v, q, c) ==
    /\ \A p \in positions : p.key = k /\ \E i \in 1..c : p.index = q[i]
    /\ \A p \in Position : p.key = k /\ p.version = v /\ (\E i \in 1..c : p.index = q[i])
           => p \in positions

LEMMA PositionsOf ==
    ASSUME NEW k \in Keys, NEW v \in Nat, NEW c \in Nat, NEW q, DOMAIN q = 1..c
    PROVE  AreAt(Positions(k, v, ToSet(q)), k, v, q, c)
<1>1. \A x : x \in ToSet(q) <=> \E i \in 1..c : x = q[i]
    BY Zenon DEF ToSet
<1>2. \A p \in Positions(k, v, ToSet(q)) : \E x \in ToSet(q) : p = At(k, v, x)
    BY Zenon DEF Positions
<1>3. \A x : At(k, v, x).key = k /\ At(k, v, x).index = x
    BY DEF At
<1>4. \A p \in Position : p.key = k /\ p.version = v => p = At(k, v, p.index)
    BY DEF At, Position
<1>5. \A x \in ToSet(q) : At(k, v, x) \in Positions(k, v, ToSet(q))
    BY Zenon DEF Positions
<1>6. \A p \in Positions(k, v, ToSet(q)) : p.key = k /\ \E i \in 1..c : p.index = q[i]
    <2> TAKE p \in Positions(k, v, ToSet(q))
    <2>1. PICK x \in ToSet(q) : p = At(k, v, x) BY <1>2, Zenon
    <2>2. PICK i \in 1..c : x = q[i] BY <1>1, <2>1, Zenon
    <2>3. p.key = k /\ p.index = q[i] BY <1>3, <2>1, <2>2, Zenon
    <2> QED BY <2>3, Zenon
<1>7. \A p \in Position : p.key = k /\ p.version = v /\ (\E i \in 1..c : p.index = q[i])
          => p \in Positions(k, v, ToSet(q))
    BY <1>1, <1>4, <1>5, Zenon
<1> QED BY <1>6, <1>7, Zenon DEF AreAt

\* An index of the window that is not in the part after the first c is one of those.
LEMMA BeforePart ==
    ASSUME NEW l \in Int, NEW n \in Nat, NEW c \in Nat, n - c \in Nat,
           NEW x \in (l + 1)..(l + n), x \notin (l + c + 1)..(l + c + (n - c))
    PROVE  x - l \in 1..c /\ x = l + (x - l)
OBVIOUS

\* The first c indexes.
LeftIndexes(m, c) == [i \in 1..c |-> m.left + i]

\* A part of c elements of the list can be cut off on either side.
LEMMA CutPlaces ==
    ASSUME NEW l \in Int, NEW r \in Int, NEW n \in Nat \ {0}, NEW c \in 1..n
    PROVE  /\ c \in Nat \ {0} /\ c \in Nat /\ n \in Nat /\ n - c \in Nat
           /\ l + c \in Int /\ r - c \in Int
OBVIOUS

\* The first c indexes are not of the part after them.
LEMMA FirstPlaces ==
    ASSUME NEW l \in Int, NEW n \in Nat, NEW c \in Nat, NEW i \in 1..c
    PROVE  l + i \notin (l + c + 1)..(l + c + (n - c))
OBVIOUS

LEMMA LpopLeaves ==
    ASSUME NEW k \in Keys, KeyFacts(k), Live(meta[k]), NEW c \in 1..meta[k].count,
           Batch(k, OrGone([meta[k] EXCEPT !.left = meta[k].left + c, !.count = meta[k].count - c]),
                 Positions(k, meta[k].version, ToSet(LeftIndexes(meta[k], c))), <<>>)
    PROVE  \E m : Leaves(k, m, SubSeq(Held(data, k, meta[k]), c + 1, meta[k].count))
<1> DEFINE n == meta[k]
           q == LeftIndexes(n, c)
           old == Held(data, k, n)
           deletes == Positions(k, n.version, ToSet(q))
           m == [n EXCEPT !.left = n.left + c, !.count = n.count - c]
<1>1. LiveList(k, n, old)
    BY LiveFacts, Zenon
<1>2. /\ n \in MetaRecord /\ n.version \in Nat /\ n.count \in Nat \ {0} /\ n.left \in Int
      /\ n.right = n.left + n.count /\ old \in Seq(Values) /\ Len(old) = n.count
      /\ \A p \in DOMAIN data :
            p.key = k /\ p.version = n.version => p.index \in (n.left + 1)..n.right
    BY <1>1, Zenon DEF LiveList
<1>3. c \in Nat \ {0} /\ c \in Nat /\ n.count \in Nat /\ n.count - c \in Nat /\ n.left + c \in Int
    BY <1>2, CutPlaces, Zenon
<1>4. /\ DOMAIN q = 1..c /\ \A i \in 1..c : q[i] = n.left + i
      /\ \A p \in deletes : p.key = k /\ \E i \in 1..c : p.index = q[i]
      /\ \A p \in Position : p.key = k /\ p.version = n.version /\ (\E i \in 1..c : p.index = q[i])
             => p \in deletes
    <2>1. DOMAIN q = 1..c /\ \A i \in 1..c : q[i] = n.left + i
        BY Zenon DEF LeftIndexes
    <2> HIDE DEF n
    <2>2. AreAt(deletes, k, n.version, q, c)
        BY <1>2, <1>3, <2>1, PositionsOf, Zenon
    <2> HIDE DEF deletes
    <2> QED BY <2>1, <2>2, Zenon DEF AreAt
<1>5. CASE n.count - c = 0
    <2>1. m.count = 0
        <3>1. IsMeta(m, n, n.count - c, n.version, n.left + c, n.right)
            BY <1>2, <1>3, MetaUpdates, Zenon
        <3> HIDE DEF m
        <3> QED BY <1>5, <3>1, Zenon DEF IsMeta
    <2>2. Batch(k, NoMeta, deletes, <<>>)
        BY <2>1, Zenon DEF OrGone
    <2>3. NoMeta \in MetaRecord /\ ~Live(NoMeta) /\ NoMeta.version <= clock
        BY NoMetaFacts, Zenon DEF KeyFacts
    <2>4. DOMAIN <<>> = {} OBVIOUS
    <2>5. Leaves(k, NoMeta, <<>>)
        <3> HIDE DEF deletes, n
        <3> QED BY <1>4, <2>2, <2>3, <2>4, EndsLeaves, Zenon
    <2>6. SubSeq(old, c + 1, n.count) = <<>>
        <3> HIDE DEF old, n
        <3>1. n.count < c + 1 /\ c + 1 \in Int /\ n.count \in Int BY <1>2, <1>3, <1>5
        <3> QED BY <1>2, <3>1, NoPart, Zenon
    <2> QED BY <2>5, <2>6, Zenon
<1>6. CASE n.count - c # 0
    <2>1. IsMeta(m, n, n.count - c, n.version, n.left + c, n.right)
        BY <1>2, <1>3, MetaUpdates, Zenon
    <2>2. m.count # 0
        <3> HIDE DEF m
        <3> QED BY <1>6, <2>1, Zenon DEF IsMeta
    <2>3. Batch(k, m, deletes, <<>>)
        BY <2>2, Zenon DEF OrGone
    <2>4. c + (n.count - c) = n.count /\ n.left + c + (n.count - c) = n.right
        <3> HIDE DEF n
        <3> QED BY <1>2, <1>3
    <2> DEFINE I == (n.left + c + 1)..(n.left + c + (n.count - c))
    <2>5. \A p \in deletes : p.key = k /\ p.index \notin I
        <3>1. \A i \in 1..c : n.left + i \notin I
            <4> HIDE DEF n
            <4> QED BY <1>2, <1>3, FirstPlaces, Zenon
        <3> HIDE DEF I, deletes, n
        <3> QED BY <1>4, <3>1, Zenon
    <2>6. \A p \in DOMAIN data : p.key = k /\ p.version = n.version /\ p.index \notin I => p \in deletes
        <3>1. \A x \in (n.left + 1)..n.right : x \notin I => x - n.left \in 1..c /\ x = n.left + (x - n.left)
            <4>1. c \in Nat /\ n.count \in Nat BY <1>2, <1>3, Zenon
            <4>2. \A x \in (n.left + 1)..(n.left + n.count) :
                      x \notin I => x - n.left \in 1..c /\ x = n.left + (x - n.left)
                BY <1>2, <1>3, <4>1, BeforePart, Zenon
            <4> QED BY <1>2, <4>2, Zenon
        <3>2. \A p \in DOMAIN data : p \in Position BY Zenon DEF KeyFacts, Typed
        <3> HIDE DEF I, deletes, n
        <3>3. \A x \in (n.left + 1)..n.right : x \notin I => \E i \in 1..c : x = q[i]
            BY <1>4, <3>1, Zenon
        <3> QED BY <1>2, <1>4, <3>2, <3>3, Zenon
    <2>7. n.count - c \in Nat \ {0} /\ c \in Nat /\ c + (n.count - c) <= n.count
        <3> HIDE DEF n
        <3> QED BY <1>2, <1>3, <1>6
    <2>8. IsMeta(m, n, n.count - c, n.version, n.left + c, n.left + c + (n.count - c))
        BY <2>1, <2>4, Zenon
    <2> HIDE DEF m, deletes
    <2>9. Leaves(k, m, SubSeq(old, c + 1, c + (n.count - c)))
        BY <2>3, <2>5, <2>6, <2>7, <2>8, PartLeaves, Zenon
    <2> QED BY <2>4, <2>9, Zenon
<1> QED BY <1>5, <1>6, Zenon

\* The last c indexes of a window of n that ends at r, from the right.
RightEnd(l, n, c, r) ==
    /\ 0 + (n - c) <= n
    /\ r - c = l + 0 + (n - c)
    /\ \A i \in 1..c : r - i + 1 \notin (l + 0 + 1)..(l + 0 + (n - c))
    /\ \A x \in (l + 1)..r : x \notin (l + 0 + 1)..(l + 0 + (n - c)) =>
           (r - x) + 1 \in 1..c /\ x = r - ((r - x) + 1) + 1

LEMMA LastPlaces ==
    ASSUME NEW l \in Int, NEW n \in Nat, NEW c \in Nat, n - c \in Nat, NEW r, r = l + n
    PROVE  RightEnd(l, n, c, r)
<1>1. 0 + (n - c) <= n /\ r - c = l + 0 + (n - c)
    OBVIOUS
<1>2. \A i \in 1..c : r - i + 1 \notin (l + 0 + 1)..(l + 0 + (n - c))
    OBVIOUS
<1>3. ASSUME NEW x \in (l + 1)..r, x \notin (l + 0 + 1)..(l + 0 + (n - c))
      PROVE  (r - x) + 1 \in 1..c /\ x = r - ((r - x) + 1) + 1
    BY <1>3
<1> QED BY <1>1, <1>2, <1>3, Zenon DEF RightEnd

LEMMA RpopLeaves ==
    ASSUME NEW k \in Keys, KeyFacts(k), Live(meta[k]), NEW c \in 1..meta[k].count,
           rpop_internal(k, c)
    PROVE  \E m : Leaves(k, m, SubSeq(Held(data, k, meta[k]), 1, meta[k].count - c))
<1> DEFINE n == meta[k]
           old == Held(data, k, n)
           q == RightIndexes(n, c)
           deletes == Positions(k, n.version, ToSet(q))
           m == [n EXCEPT !.right = n.right - c, !.count = n.count - c]
           I == (n.left + 0 + 1)..(n.left + 0 + (n.count - c))
<1>1. LiveList(k, n, old)
    BY LiveFacts, Zenon
<1>2. /\ n \in MetaRecord /\ n.version \in Nat /\ n.count \in Nat \ {0} /\ n.left \in Int
      /\ n.right \in Int
      /\ n.right = n.left + n.count /\ old \in Seq(Values) /\ Len(old) = n.count
      /\ \A p \in DOMAIN data :
            p.key = k /\ p.version = n.version => p.index \in (n.left + 1)..n.right
    BY <1>1, Zenon DEF LiveList
<1>3. c \in Nat \ {0} /\ c \in Nat /\ n.count \in Nat /\ n.count - c \in Nat /\ n.right - c \in Int
    BY <1>2, CutPlaces, Zenon
<1>4. /\ \A i \in 1..c : q[i] = n.right - i + 1
      /\ \A p \in deletes : p.key = k /\ \E i \in 1..c : p.index = q[i]
      /\ \A p \in Position : p.key = k /\ p.version = n.version /\ (\E i \in 1..c : p.index = q[i])
             => p \in deletes
    <2>1. DOMAIN q = 1..c /\ \A i \in 1..c : q[i] = n.right - i + 1
        BY Zenon DEF RightIndexes
    <2> HIDE DEF n, q
    <2>2. AreAt(deletes, k, n.version, q, c)
        BY <1>2, <1>3, <2>1, PositionsOf, Zenon
    <2> HIDE DEF deletes
    <2> QED BY <2>1, <2>2, Zenon DEF AreAt
<1>5. IsMeta(m, n, n.count - c, n.version, n.left, n.right - c)
    BY <1>2, <1>3, MetaUpdates, Zenon
<1>6. Batch(k, OrGone(m), deletes, <<>>)
    BY Zenon DEF rpop_internal
<1>7. m.count = n.count - c
    <2> HIDE DEF m
    <2> QED BY <1>5, Zenon DEF IsMeta
<1> HIDE DEF m, q
<1>8. CASE n.count - c = 0
    <2>2. Batch(k, NoMeta, deletes, <<>>)
        BY <1>6, <1>7, <1>8, Zenon DEF OrGone
    <2>3. NoMeta \in MetaRecord /\ ~Live(NoMeta) /\ NoMeta.version <= clock
        BY NoMetaFacts, Zenon DEF KeyFacts
    <2>4. DOMAIN <<>> = {} OBVIOUS
    <2>5. Leaves(k, NoMeta, <<>>)
        <3> HIDE DEF deletes, n
        <3> QED BY <1>4, <2>2, <2>3, <2>4, EndsLeaves, Zenon
    <2>6. SubSeq(old, 1, n.count - c) = <<>>
        <3> HIDE DEF old, n
        <3>1. n.count - c < 1 /\ 1 \in Int /\ n.count - c \in Int BY <1>2, <1>3, <1>8
        <3> QED BY <1>2, <3>1, NoPart, Zenon
    <2> QED BY <2>5, <2>6, Zenon
<1>9. CASE n.count - c # 0
    <2>1. Batch(k, m, deletes, <<>>)
        BY <1>6, <1>7, <1>9, Zenon DEF OrGone
    <2>2. /\ 0 + (n.count - c) <= n.count
          /\ n.right - c = n.left + 0 + (n.count - c)
          /\ \A i \in 1..c : n.right - i + 1 \notin I
          /\ \A x \in (n.left + 1)..n.right : x \notin I =>
                 (n.right - x) + 1 \in 1..c /\ x = n.right - ((n.right - x) + 1) + 1
        <3>1. RightEnd(n.left, n.count, c, n.right)
            BY <1>2, <1>3, LastPlaces, Zenon
        <3> QED BY <3>1, Zenon DEF RightEnd
    <2>3. n.left + 0 = n.left /\ n.count - c \in Nat \ {0} /\ 0 \in Nat
        <3> HIDE DEF n
        <3> QED BY <1>2, <1>3, <1>9
    <2> HIDE DEF deletes
    <2>4. \A p \in deletes : p.key = k /\ p.index \notin I
        <3> TAKE p \in deletes
        <3> HIDE DEF I, n
        <3>1. PICK i \in 1..c : p.index = q[i] BY <1>4, Zenon
        <3>2. p.index = n.right - i + 1 BY <1>4, <3>1, Zenon
        <3>3. p.index \notin I BY <2>2, <3>2, Zenon
        <3> QED BY <1>4, <3>3, Zenon
    <2>5. \A p \in DOMAIN data : p.key = k /\ p.version = n.version /\ p.index \notin I => p \in deletes
        <3>1. \A p \in DOMAIN data : p \in Position BY Zenon DEF KeyFacts, Typed
        <3> HIDE DEF I, n
        <3>2. \A x \in (n.left + 1)..n.right : x \notin I => \E i \in 1..c : x = q[i]
            <4> TAKE x \in (n.left + 1)..n.right
            <4> HAVE x \notin I
            <4> DEFINE i == (n.right - x) + 1
            <4>1. i \in 1..c /\ x = n.right - i + 1 BY <2>2, Zenon
            <4> HIDE DEF i
            <4> QED BY <1>4, <4>1, Zenon
        <3> QED BY <1>2, <1>4, <3>1, <3>2, Zenon
    <2>6. IsMeta(m, n, n.count - c, n.version, n.left + 0, n.left + 0 + (n.count - c))
        BY <1>5, <2>2, <2>3, Zenon
    <2>7. Leaves(k, m, SubSeq(old, 0 + 1, 0 + (n.count - c)))
        BY <2>1, <2>2, <2>3, <2>4, <2>5, <2>6, PartLeaves, Zenon
    <2>8. 0 + 1 = 1 /\ 0 + (n.count - c) = n.count - c
        BY <1>3
    <2> QED BY <2>7, <2>8, Zenon
<1> QED BY <1>8, <1>9, Zenon

\* LPOP returns the first elements.
FetchesFirst(k, m, old, c) ==
    Fetch(k, m.version, LeftIndexes(m, c)) = SubSeq(old, 1, c)

LEMMA FirstFetched ==
    ASSUME NumberFacts, NEW k \in Keys, NEW m, NEW old, LiveList(k, m, old), NEW c \in 1..m.count
    PROVE  FetchesFirst(k, m, old, c)
<1> DEFINE q == LeftIndexes(m, c)
           f == Taken(data, k, m.version, q, c)
           part == SubSeq(old, 1, c)
<1>1. /\ m.count \in Nat \ {0} /\ m.version \in Nat /\ old \in Seq(Values) /\ Len(old) = m.count
      /\ \A i \in 1..m.count :
            /\ At(k, m.version, m.left + i) \in DOMAIN data
            /\ old[i] = data[At(k, m.version, m.left + i)]
    BY Zenon DEF LiveList
<1>2. /\ c \in Nat /\ c \in Int /\ 1 \in Int /\ 1 <= 1 /\ 1 <= c + 1 /\ c <= m.count
      /\ c - 1 + 1 = c /\ \A i \in 1..c : i \in 1..m.count /\ 1 + i - 1 = i
    BY <1>1
<1>3. DOMAIN q = 1..c /\ \A i \in 1..c : q[i] = m.left + i
    BY Zenon DEF LeftIndexes
<1> HIDE DEF q
<1>4. AllThere(data, k, m.version, q, c)
    BY <1>1, <1>2, <1>3, Zenon DEF AllThere
<1>5. Fetch(k, m.version, q) = f
    <2>1. Fetch(k, m.version, q) = FetchIn(data, k, m.version, q) BY Zenon DEF Fetch, FetchIn
    <2> QED BY <1>2, <1>4, <2>1, FetchAll, Zenon
<1>6. part \in Seq(Values) /\ IsPart(part, old, 1, c)
    <2>1. c <= Len(old) BY <1>1, <1>2, Zenon
    <2> QED BY <1>1, <1>2, <2>1, PartFacts, Zenon
<1> HIDE DEF part
<1>7. Len(part) = c /\ \A i \in 1..c : part[i] = old[i]
    BY <1>2, <1>6, Zenon DEF IsPart
<1>8. DOMAIN f = 1..c /\ f = [i \in 1..c |-> f[i]] /\ \A i \in 1..c : f[i] = data[At(k, m.version, q[i])]
    BY Zenon DEF Taken
<1> HIDE DEF f
<1>9. \A i \in 1..c : f[i] = part[i]
    <2> TAKE i \in 1..c
    <2>1. i \in 1..m.count /\ q[i] = m.left + i BY <1>2, <1>3, Zenon
    <2>2. old[i] = data[At(k, m.version, q[i])] BY <1>1, <2>1, Zenon
    <2> QED BY <1>7, <1>8, <2>2, Zenon
<1>10. IsListing(f, part, c)
    BY <1>7, <1>8, <1>9, Zenon DEF IsListing
<1>11. f = part
    BY <1>6, <1>10, SameSeq, Zenon
<1> QED BY <1>5, <1>11, Zenon DEF q, part, FetchesFirst

\* The places of the last c of n elements, from the end.
LEMMA MirroredPlaces ==
    ASSUME NEW l \in Int, NEW n \in Nat \ {0}, NEW c \in 1..n, NEW i \in 1..c
    PROVE  /\ (n - i) + 1 \in 1..n
           /\ (l + n) - i + 1 = l + ((n - i) + 1)
           /\ (c - i) + 1 \in 1..c
           /\ ((n - c) + 1) + ((c - i) + 1) - 1 = (n - i) + 1
OBVIOUS

\* RPOP returns the last elements, the last one first.
LEMMA LastFetched ==
    ASSUME NumberFacts, NEW k \in Keys, NEW m, NEW old, LiveList(k, m, old), NEW c \in 1..m.count
    PROVE  Fetch(k, m.version, RightIndexes(m, c))
               = Reverse(SubSeq(old, (m.count - c) + 1, m.count))
<1> DEFINE q == RightIndexes(m, c)
           f == Taken(data, k, m.version, q, c)
           part == SubSeq(old, (m.count - c) + 1, m.count)
           rev == Reverse(part)
           place(i) == (m.count - i) + 1
<1>1. /\ m.count \in Nat \ {0} /\ m.version \in Nat /\ old \in Seq(Values) /\ Len(old) = m.count
      /\ m.left \in Int /\ m.right = m.left + m.count
      /\ \A i \in 1..m.count :
            /\ At(k, m.version, m.left + i) \in DOMAIN data
            /\ old[i] = data[At(k, m.version, m.left + i)]
    BY Zenon DEF LiveList
<1>2. /\ c \in Nat /\ (m.count - c) + 1 \in Int /\ m.count \in Int /\ 1 <= (m.count - c) + 1
      /\ (m.count - c) + 1 <= m.count + 1 /\ m.count <= Len(old)
      /\ m.count - ((m.count - c) + 1) + 1 = c
    BY <1>1
<1>3. \A i \in 1..c : /\ place(i) \in 1..m.count
                      /\ (m.left + m.count) - i + 1 = m.left + place(i)
                      /\ (c - i) + 1 \in 1..c
                      /\ ((m.count - c) + 1) + ((c - i) + 1) - 1 = place(i)
    BY <1>1, <1>2, MirroredPlaces, Zenon
<1>4. DOMAIN q = 1..c /\ \A i \in 1..c : q[i] = m.right - i + 1
    BY Zenon DEF RightIndexes
<1> HIDE DEF q, place
<1>5. \A i \in 1..c : q[i] = m.left + place(i)
    BY <1>1, <1>3, <1>4, Zenon
<1>6. AllThere(data, k, m.version, q, c)
    BY <1>1, <1>3, <1>4, <1>5, Zenon DEF AllThere
<1>7. Fetch(k, m.version, q) = f
    <2>1. Fetch(k, m.version, q) = FetchIn(data, k, m.version, q) BY Zenon DEF Fetch, FetchIn
    <2> QED BY <1>2, <1>6, <2>1, FetchAll, Zenon
<1>8. part \in Seq(Values) /\ IsPart(part, old, (m.count - c) + 1, m.count)
    BY <1>1, <1>2, PartFacts, Zenon
<1> HIDE DEF part
<1>9. Len(part) = c /\ \A i \in 1..c : part[i] = old[((m.count - c) + 1) + i - 1]
    BY <1>2, <1>8, Zenon DEF IsPart
<1>10. rev \in Seq(Values) /\ Len(rev) = c /\ \A i \in 1..c : rev[i] = part[(c - i) + 1]
    <2>1. rev \in Seq(Values) /\ Len(rev) = Len(part) BY <1>8, ReverseFacts, Zenon
    <2>2. \A i \in 1..Len(part) : rev[i] = part[(Len(part) - i) + 1] BY Zenon DEF Reverse
    <2> HIDE DEF rev
    <2> QED BY <1>9, <2>1, <2>2, Zenon
<1>11. DOMAIN f = 1..c /\ f = [i \in 1..c |-> f[i]] /\ \A i \in 1..c : f[i] = data[At(k, m.version, q[i])]
    BY Zenon DEF Taken
<1> HIDE DEF f, rev
<1>12. \A i \in 1..c : f[i] = rev[i]
    <2> TAKE i \in 1..c
    <2>1. f[i] = old[place(i)] BY <1>1, <1>3, <1>5, <1>11, Zenon
    <2>2. rev[i] = part[(c - i) + 1] BY <1>10, Zenon
    <2>3. part[(c - i) + 1] = old[((m.count - c) + 1) + ((c - i) + 1) - 1] BY <1>3, <1>9, Zenon
    <2> QED BY <1>3, <2>1, <2>2, <2>3, Zenon
<1>13. IsListing(f, rev, c)
    BY <1>10, <1>11, <1>12, Zenon DEF IsListing
<1>14. f = rev
    BY <1>10, <1>13, SameSeq, Zenon
<1> QED BY <1>7, <1>14, Zenon DEF q, part, rev

\* As many elements are popped as are asked for and there.
LEMMA PopCount ==
    ASSUME NEW n \in Nat \ {0}, NEW count \in Nat \ {0}
    PROVE  /\ Min2(n, count) \in 1..count /\ Min2(n, count) \in Nat
           /\ Max2(count - n, 0) = count - Min2(n, count)
BY DEF Min2, Max2

\* LPOP leaves what is expected and returns the expected elements.
LEMMA LpopKeeps ==
    ASSUME NumberFacts, ListsInv, NEW k \in Keys, NEW n \in Nat \ {0}, lpop(k, n)
    PROVE  ListsInv'
<1> DEFINE m == meta[k]
           old == Held(data, k, m)
           c == Min2(n, m.count)
           wanted == Min2(n, Len(expect[k]))
<1>1. /\ Unlocked(k) /\ Matches(k)
      /\ Batch(k, OrGone([m EXCEPT !.left = m.left + c, !.count = m.count - c]),
               Positions(k, m.version, ToSet(LeftIndexes(m, c))), <<>>)
      /\ PopReply(Fetch(k, m.version, LeftIndexes(m, c)), SubSeq(expect[k], 1, wanted))
      /\ Expect(k, SubSeq(expect[k], wanted + 1, Len(expect[k])))
      /\ moving' = moving /\ reader' = reader /\ Observe
    BY Zenon DEF lpop, LeftIndexes
<1>2. KeyFacts(k)
    BY KeyFactsHold, Zenon
<1>3. Live(m) /\ old = expect[k]
    BY <1>1, <1>2, Zenon DEF KeyFacts
<1>4. LiveList(k, m, old)
    BY <1>2, <1>3, LiveFacts, Zenon
<1> HIDE DEF old
<1>5. m.count \in Nat \ {0} /\ Len(old) = m.count
    BY <1>4, Zenon DEF LiveList
<1>6. c \in 1..m.count /\ wanted = c
    <2> HIDE DEF m
    <2> QED BY <1>3, <1>5, PopCount, Zenon
<1> HIDE DEF c, wanted
<1>7. \E mm : Leaves(k, mm, SubSeq(old, c + 1, m.count))
    BY <1>1, <1>2, <1>3, <1>6, LpopLeaves, Zenon DEF old
<1>8. PICK mm : Leaves(k, mm, SubSeq(old, c + 1, m.count))
    BY <1>7, Zenon
<1>9. Expect(k, SubSeq(old, c + 1, m.count))
    BY <1>1, <1>3, <1>5, <1>6, Zenon
<1>10. reply' = "expected"
    <2> HIDE DEF m
    <2>1. Fetch(k, m.version, LeftIndexes(m, c)) = SubSeq(old, 1, c)
        <3>1. FetchesFirst(k, m, old, c) BY <1>4, <1>6, FirstFetched, Zenon
        <3> QED BY <3>1, Zenon DEF FetchesFirst
    <2> QED BY <1>1, <1>3, <1>6, <2>1, Zenon DEF PopReply
<1> QED BY <1>1, <1>8, <1>9, <1>10, CommandKeeps, Zenon

LEMMA RpopKeeps ==
    ASSUME NumberFacts, ListsInv, NEW k \in Keys, NEW n \in Nat \ {0}, rpop(k, n)
    PROVE  ListsInv'
<1> DEFINE m == meta[k]
           old == Held(data, k, m)
           c == Min2(n, m.count)
           rest == Max2(Len(expect[k]) - n, 0)
<1>1. /\ Unlocked(k) /\ Matches(k) /\ rpop_internal(k, c)
      /\ PopReply(Fetch(k, m.version, RightIndexes(m, c)),
                  Reverse(SubSeq(expect[k], rest + 1, Len(expect[k]))))
      /\ Expect(k, SubSeq(expect[k], 1, rest))
      /\ moving' = moving /\ reader' = reader /\ Observe
    BY Zenon DEF rpop
<1>2. KeyFacts(k)
    BY KeyFactsHold, Zenon
<1>3. Live(m) /\ old = expect[k]
    BY <1>1, <1>2, Zenon DEF KeyFacts
<1>4. LiveList(k, m, old)
    BY <1>2, <1>3, LiveFacts, Zenon
<1> HIDE DEF old
<1>5. m.count \in Nat \ {0} /\ Len(old) = m.count
    BY <1>4, Zenon DEF LiveList
<1>6. c \in 1..m.count /\ rest = m.count - c
    <2> HIDE DEF m
    <2> QED BY <1>3, <1>5, PopCount, Zenon
<1> HIDE DEF c, rest
<1>7. PICK mm : Leaves(k, mm, SubSeq(old, 1, m.count - c))
    BY <1>1, <1>2, <1>3, <1>6, RpopLeaves, Zenon DEF old
<1>8. Expect(k, SubSeq(old, 1, m.count - c))
    BY <1>1, <1>3, <1>6, Zenon
<1>9. reply' = "expected"
    <2> HIDE DEF m
    <2>1. Fetch(k, m.version, RightIndexes(m, c)) = Reverse(SubSeq(old, (m.count - c) + 1, m.count))
        BY <1>4, <1>6, LastFetched, Zenon
    <2> QED BY <1>1, <1>3, <1>5, <1>6, <2>1, Zenon DEF PopReply
<1> QED BY <1>1, <1>7, <1>8, <1>9, CommandKeeps, Zenon

-----------------------------------------------------------------------------
(* LSET and LTRIM. *)

LEMMA SetPlace ==
    ASSUME NEW l \in Int, NEW n \in Nat, NEW i \in 0..(n - 1)
    PROVE  i + 1 \in 1..n /\ l + i + 1 = l + (i + 1)
OBVIOUS

LEMMA LsetKeeps ==
    ASSUME NumberFacts, ListsInv, NEW k \in Keys, NEW index \in Int, NEW value \in Values,
           lset(k, index, value)
    PROVE  ListsInv'
<1> DEFINE m == meta[k]
           old == Held(data, k, m)
           i == real_index(index, m.count)
           puts == Placed(k, m.version, m.left + (i + 1), <<value>>)
<1>1. /\ Unlocked(k) /\ Matches(k) /\ i \in 0..(m.count - 1)
      /\ Batch(k, m, {}, Placed(k, m.version, m.left + i + 1, <<value>>))
      /\ Expect(k, [expect[k] EXCEPT ![real_index(index, Len(expect[k])) + 1] = value])
      /\ moving' = moving /\ reader' = reader /\ reply' = reply /\ Observe
    BY Zenon DEF lset
<1>2. KeyFacts(k)
    BY KeyFactsHold, Zenon
<1>3. Live(m) /\ old = expect[k] /\ Typed(data) /\ Complete(data, k, m)
    BY <1>1, <1>2, Zenon DEF KeyFacts
<1>4. LiveList(k, m, old)
    BY <1>2, <1>3, LiveFacts, Zenon
<1>5. /\ m \in MetaRecord /\ m.count \in Nat /\ m.left \in Int /\ Len(old) = m.count
      /\ m.version <= clock
    <2> HIDE DEF old
    <2> QED BY <1>4, Zenon DEF LiveList
<1>6. real_index(index, Len(expect[k])) = i
    <2> HIDE DEF old, m
    <2> QED BY <1>3, <1>5, Zenon
<1> HIDE DEF i
<1>7. i + 1 \in 1..m.count /\ m.left + i + 1 = m.left + (i + 1)
    BY <1>1, <1>5, SetPlace, Zenon
<1>8. Batch(k, m, {}, puts)
    BY <1>1, <1>7, Zenon
<1>9. Stores(data, Written(data, {}, puts), k, m, [old EXCEPT ![i + 1] = value])
    BY <1>3, <1>5, <1>7, StoresOne, Zenon
<1>10. Leaves(k, m, [old EXCEPT ![i + 1] = value])
    <2> HIDE DEF puts, old
    <2> QED BY <1>2, <1>5, <1>8, <1>9, BatchLeaves, Zenon
<1>11. Expect(k, [old EXCEPT ![i + 1] = value])
    BY <1>1, <1>3, <1>6, Zenon
<1>12. reply' = "expected"
    BY <1>1, Zenon DEF ListsInv
<1> HIDE DEF old
<1> QED BY <1>1, <1>10, <1>11, <1>12, CommandKeeps, Zenon

\* The part of a list of n elements that LTRIM keeps, from first to last.
TrimPlaces(l, n, start, stop, first, last) ==
    /\ first \in Nat /\ first < n /\ last \in Int
    /\ Min2(real_index(stop, n), n - 1) \in Int
    /\ first > last => Min2(real_index(stop, n), n - 1) + 1 < first + 1
    /\ first <= last =>
          /\ last = Min2(real_index(stop, n), n - 1)
          /\ last - first + 1 \in Nat \ {0}
          /\ first + (last - first + 1) = last + 1
          /\ first + (last - first + 1) <= n
          /\ l + first + (last - first + 1) = l + last + 1
          /\ l + last + 1 \in Int /\ l + first \in Int

LEMMA TrimPlacesHold ==
    ASSUME NEW l \in Int, NEW n \in Nat \ {0}, NEW start \in Int, NEW stop \in Int,
           NEW first, first = real_start(start, n), NEW last, last = real_stop(stop, n)
    PROVE  TrimPlaces(l, n, start, stop, first, last)
<1> USE DEF real_start, real_stop, real_index, Min2, Max2
<1>1. first \in Nat /\ first < n /\ last \in Int
    OBVIOUS
<1>2. Min2(real_index(stop, n), n - 1) \in Int
    OBVIOUS
<1>3. first > last => Min2(real_index(stop, n), n - 1) + 1 < first + 1
    OBVIOUS
<1>4. first <= last => last = Min2(real_index(stop, n), n - 1) /\ last < n
    OBVIOUS
<1> HIDE DEF real_start, real_stop, real_index, Min2, Max2
<1>5. first <= last =>
          /\ last - first + 1 \in Nat \ {0}
          /\ first + (last - first + 1) = last + 1
          /\ first + (last - first + 1) <= n
          /\ l + first + (last - first + 1) = l + last + 1
          /\ l + last + 1 \in Int /\ l + first \in Int
    <2> HAVE first <= last
    <2>1. first \in Int /\ last \in Int /\ last < n BY <1>1, <1>4
    <2> QED BY <1>1, <2>1
<1> QED BY <1>1, <1>2, <1>3, <1>4, <1>5, Zenon DEF TrimPlaces

\* The indexes of a list are those of its window.
LEMMA IndexesWindow ==
    ASSUME NEW m, m.left \in Int, m.count \in Nat
    PROVE  \A x : x \in ToSet(Indexes(m)) <=> x \in (m.left + 1)..(m.left + m.count)
<1> DEFINE l == m.left
           n == m.count
<1>1. \A x : x \in ToSet(Indexes(m)) <=> \E i \in 1..n : x = l + i
    BY Zenon DEF ToSet, Indexes
<1>2. l \in Int /\ n \in Nat
    OBVIOUS
<1> HIDE DEF l, n
<1>3. \A i \in 1..n : l + i \in (l + 1)..(l + n)
    BY <1>2
<1>4. \A x \in (l + 1)..(l + n) : \E i \in 1..n : x = l + i
    <2> TAKE x \in (l + 1)..(l + n)
    <2>1. x - l \in 1..n /\ x = l + (x - l) BY <1>2
    <2> QED BY <2>1, Zenon
<1>5. \A x : x \in ToSet(Indexes(m)) <=> x \in (l + 1)..(l + n)
    <2> TAKE x
    <2>1. x \in ToSet(Indexes(m)) => x \in (l + 1)..(l + n) BY <1>1, <1>3, Zenon
    <2>2. x \in (l + 1)..(l + n) => x \in ToSet(Indexes(m)) BY <1>1, <1>4, Zenon
    <2> QED BY <2>1, <2>2, Zenon
<1> QED BY <1>5, Zenon DEF l, n

\* The positions of a key and version at these indexes, and no others.
Covers(positions, k, v, indexes) ==
    /\ \A p \in positions : p.key = k /\ p.index \in indexes
    /\ \A p \in Position : p.key = k /\ p.version = v /\ p.index \in indexes => p \in positions

LEMMA PositionsCover ==
    ASSUME NEW k, NEW v, NEW indexes
    PROVE  Covers(Positions(k, v, indexes), k, v, indexes)
<1>1. \A p \in Positions(k, v, indexes) : \E x \in indexes : p = At(k, v, x)
    BY Zenon DEF Positions
<1>2. \A x : At(k, v, x).key = k /\ At(k, v, x).index = x
    BY DEF At
<1>3. \A p \in Position : p.key = k /\ p.version = v => p = At(k, v, p.index)
    BY DEF At, Position
<1>4. \A x \in indexes : At(k, v, x) \in Positions(k, v, indexes)
    BY Zenon DEF Positions
<1>5. \A p \in Positions(k, v, indexes) : p.key = k /\ p.index \in indexes
    BY <1>1, <1>2, Zenon
<1>6. \A p \in Position : p.key = k /\ p.version = v /\ p.index \in indexes
          => p \in Positions(k, v, indexes)
    BY <1>3, <1>4, Zenon
<1> QED BY <1>5, <1>6, Zenon DEF Covers

LEMMA LtrimKeeps ==
    ASSUME NumberFacts, ListsInv, NEW k \in Keys, NEW start \in Int, NEW stop \in Int,
           ltrim(k, start, stop)
    PROVE  ListsInv'
<1> DEFINE m == meta[k]
           old == Held(data, k, m)
           first == real_start(start, m.count)
           last == real_stop(stop, m.count)
           until == Min2(real_index(stop, m.count), m.count - 1)
           all == ToSet(Indexes(m))
           kept == (m.left + first + 1)..(m.left + last + 1)
           mm == [m EXCEPT !.count = last - first + 1, !.left = m.left + first,
                           !.right = m.left + last + 1]
<1>1. /\ Unlocked(k) /\ Matches(k)
      /\ IF first > last \/ first >= m.count
         THEN Batch(k, NoMeta, Positions(k, m.version, all), <<>>)
         ELSE Batch(k, mm, Positions(k, m.version, all \ kept), <<>>)
      /\ Expect(k, Trimmed(expect[k], start, stop))
      /\ moving' = moving /\ reader' = reader /\ reply' = reply /\ Observe
    BY Zenon DEF ltrim
<1>2. KeyFacts(k)
    BY KeyFactsHold, Zenon
<1>3. Live(m) /\ old = expect[k] /\ Typed(data) /\ clock \in Nat \ {0}
    BY <1>1, <1>2, Zenon DEF KeyFacts
<1>4. LiveList(k, m, old)
    BY <1>2, <1>3, LiveFacts, Zenon
<1> HIDE DEF old
<1>5. /\ m \in MetaRecord /\ m.count \in Nat \ {0} /\ m.left \in Int /\ Len(old) = m.count
      /\ m.right = m.left + m.count /\ old \in Seq(Values) /\ m.version \in Nat
      /\ \A p \in DOMAIN data :
            p.key = k /\ p.version = m.version => p.index \in (m.left + 1)..m.right
    BY <1>4, Zenon DEF LiveList
<1>6. Trimmed(expect[k], start, stop) = SubSeq(old, first + 1, until + 1)
    <2> HIDE DEF m
    <2> QED BY <1>3, <1>5, Zenon DEF Trimmed, real_start
<1>7. TrimPlaces(m.left, m.count, start, stop, first, last)
    <2> HIDE DEF m
    <2> QED BY <1>5, TrimPlacesHold, Zenon
<1> HIDE DEF first, last
<1>8. /\ first \in Nat /\ first < m.count /\ last \in Int /\ until \in Int
      /\ first > last => until + 1 < first + 1
      /\ first <= last =>
            /\ last = until
            /\ last - first + 1 \in Nat \ {0}
            /\ first + (last - first + 1) = last + 1
            /\ first + (last - first + 1) <= m.count
            /\ m.left + first + (last - first + 1) = m.left + last + 1
            /\ m.left + last + 1 \in Int /\ m.left + first \in Int
    BY <1>7, Zenon DEF TrimPlaces
<1> HIDE DEF until
<1>9. ~(first >= m.count) /\ (~(first > last) => first <= last)
      /\ first + 1 \in Int /\ until + 1 \in Int
    <2> HIDE DEF m
    <2> QED BY <1>5, <1>8
<1>10. \A x : x \in all <=> x \in (m.left + 1)..m.right
    <2>1. m.count \in Nat BY <1>5, Zenon
    <2> HIDE DEF m
    <2> QED BY <1>5, <2>1, IndexesWindow, Zenon
<1> HIDE DEF all
<1>11. reply' = "expected"
    BY <1>1, Zenon DEF ListsInv
<1>12. CASE first > last
    <2> DEFINE deletes == Positions(k, m.version, all)
    <2>1. Batch(k, NoMeta, deletes, <<>>)
        BY <1>1, <1>12, Zenon
    <2>2. NoMeta \in MetaRecord /\ ~Live(NoMeta) /\ NoMeta.version <= clock
        BY <1>3, NoMetaFacts, Zenon
    <2>3. DOMAIN <<>> = {} OBVIOUS
    <2>4. Covers(deletes, k, m.version, all)
        BY PositionsCover, Zenon
    <2> HIDE DEF deletes
    <2>5. Leaves(k, NoMeta, <<>>)
        BY <1>2, <2>1, <2>2, <2>3, <2>4, EndsLeaves, Zenon DEF Covers
    <2>6. SubSeq(old, first + 1, until + 1) = <<>>
        BY <1>5, <1>8, <1>9, <1>12, NoPart, Zenon
    <2>7. Expect(k, <<>>)
        BY <1>1, <1>6, <2>6, Zenon
    <2> QED BY <1>1, <1>11, <2>5, <2>7, CommandKeeps, Zenon
<1>13. CASE ~(first > last)
    <2> DEFINE c == last - first + 1
               deletes == Positions(k, m.version, all \ kept)
    <2>1. first <= last BY <1>9, <1>13, Zenon
    <2>2. Batch(k, mm, deletes, <<>>)
        BY <1>1, <1>9, <1>13, Zenon
    <2>3. IsMeta(mm, m, c, m.version, m.left + first, m.left + last + 1)
        <3>1. c \in Nat /\ m.left + last + 1 \in Int /\ m.left + first \in Int BY <1>8, <2>1, Zenon
        <3> HIDE DEF m, c
        <3> QED BY <1>5, <3>1, MetaUpdates, Zenon DEF c
    <2>4. /\ c \in Nat \ {0} /\ first + c <= m.count /\ first + c = until + 1
          /\ m.left + first + c = m.left + last + 1
        BY <1>8, <2>1, Zenon
    <2>5. Covers(deletes, k, m.version, all \ kept)
        BY PositionsCover, Zenon
    <2> HIDE DEF mm, c, deletes
    <2>6. IsMeta(mm, m, c, m.version, m.left + first, m.left + first + c)
        BY <2>3, <2>4, Zenon
    <2>7. kept = (m.left + first + 1)..(m.left + first + c)
        BY <2>4, Zenon
    <2>8. \A p \in deletes : p.key = k /\ p.index \notin (m.left + first + 1)..(m.left + first + c)
        <3> HIDE DEF kept
        <3> QED BY <2>5, <2>7, Zenon DEF Covers
    <2>9. \A p \in DOMAIN data : p.key = k /\ p.version = m.version
              /\ p.index \notin (m.left + first + 1)..(m.left + first + c) => p \in deletes
        <3> HIDE DEF kept
        <3> QED BY <1>3, <1>5, <1>10, <2>5, <2>7, Zenon DEF Covers, Typed
    <2>10. Leaves(k, mm, SubSeq(old, first + 1, first + c))
        BY <1>2, <1>3, <1>8, <2>2, <2>4, <2>6, <2>8, <2>9, PartLeaves, Zenon DEF old
    <2>11. Expect(k, SubSeq(old, first + 1, first + c))
        BY <1>1, <1>6, <2>4, Zenon
    <2> QED BY <1>1, <1>11, <2>10, <2>11, CommandKeeps, Zenon
<1> QED BY <1>12, <1>13, Zenon

-----------------------------------------------------------------------------
(* LREM and LINSERT. *)

\* The whole list is written again, under its version or a new one.
LEMMA RewriteLeaves ==
    ASSUME NEW k \in Keys, KeyFacts(k), Live(meta[k]), NEW list \in Seq(Values),
           Len(list) # 0, NEW v \in {meta[k].version, clock}, NEW mm,
           IsMeta(mm, meta[k], Len(list), v, meta[k].left, meta[k].left + Len(list)),
           Batch(k, mm, Positions(k, meta[k].version, ToSet(Indexes(meta[k]))),
                 Placed(k, v, meta[k].left + 1, list))
    PROVE  Leaves(k, mm, list)
<1> DEFINE m == meta[k]
           all == ToSet(Indexes(m))
           deletes == Positions(k, m.version, all)
           puts == Placed(k, v, m.left + 1, list)
<1>1. LiveList(k, m, Held(data, k, m))
    BY LiveFacts, Zenon
<1>2. /\ m.type = "list" /\ m.expired = FALSE /\ m.count \in Nat /\ m.left \in Int
      /\ m.right = m.left + m.count
      /\ \A p \in DOMAIN data :
            p.key = k /\ p.version = m.version => p.index \in (m.left + 1)..m.right
    BY <1>1, Zenon DEF LiveList
<1>3. /\ mm \in MetaRecord /\ mm.type = m.type /\ mm.expired = m.expired
      /\ mm.count = Len(list) /\ mm.version = v /\ mm.left = m.left
      /\ mm.right = m.left + Len(list)
    BY Zenon DEF IsMeta
<1>4. /\ Typed(data) /\ clock \in Nat \ {0} /\ m.version \in Nat /\ m.version < clock
      /\ \A p \in DOMAIN data : p.version < clock
    BY <1>1, Zenon DEF KeyFacts, LiveList
<1>5. Live(mm)
    BY <1>2, <1>3, Zenon DEF Live
<1>6. \A x : x \in all <=> x \in (m.left + 1)..m.right
    <2> HIDE DEF m
    <2> QED BY <1>2, IndexesWindow, Zenon
<1>7. Covers(deletes, k, m.version, all)
    BY PositionsCover, Zenon
<1> HIDE DEF all, deletes
<1>8. v <= clock /\ \A p \in DOMAIN data : p.version = v => p.version = m.version
    <2>1. CASE v = m.version
        <3>1. v <= clock BY <1>4, <2>1
        <3> QED BY <2>1, <3>1, Zenon
    <2>2. CASE v = clock
        <3>1. v <= clock /\ ~(clock < clock) BY <1>4, <2>2
        <3> QED BY <1>4, <2>2, <3>1, Zenon
    <2> QED BY <2>1, <2>2, Zenon
<1>9. \A p \in deletes : p.key = k
    BY <1>7, Zenon DEF Covers
<1>10. \A p \in DOMAIN data : p.key = k /\ p.version = mm.version => p \in deletes
    BY <1>2, <1>3, <1>4, <1>6, <1>7, <1>8, Zenon DEF Covers, Typed
<1>11. Stores(data, Written(data, deletes, Placed(k, mm.version, mm.left + 1, list)), k, mm, list)
    BY <1>3, <1>4, <1>5, <1>9, <1>10, StoresAll, Zenon
<1>12. Stores(data, Written(data, deletes, puts), k, mm, list)
    BY <1>3, <1>11, Zenon
<1>13. mm.version <= clock
    BY <1>3, <1>8, Zenon
<1>14. Batch(k, mm, deletes, puts)
    BY Zenon DEF deletes, all
<1> HIDE DEF puts
<1> QED BY <1>3, <1>12, <1>13, <1>14, BatchLeaves, Zenon

LEMMA WithoutFirstFacts ==
    ASSUME NumberFacts, NEW list \in Seq(Values), NEW n, NEW value
    PROVE  WithoutFirst(list, n, value) \in Seq(Values)
<1> DEFINE rank(i) == Cardinality({j \in 1..i : list[j] = value})
           S == {i \in DOMAIN list : list[i] # value \/ (n # 0 /\ rank(i) > n)}
           kept == Ascending(S)
           c == Cardinality(S)
           w == WithoutFirst(list, n, value)
<1>1. w = [i \in DOMAIN kept |-> list[kept[i]]]
    BY Zenon DEF WithoutFirst
<1>2. Len(list) \in Nat /\ DOMAIN list = 1..Len(list) /\ \A i \in 1..Len(list) : list[i] \in Values
    OBVIOUS
<1>3. S \subseteq 1..Len(list)
    BY <1>2, Zenon
<1> HIDE DEF S, w
<1>6. c \in Nat /\ DOMAIN kept = 1..c /\ \A i \in 1..c : kept[i] \in S
    BY <1>2, <1>3, AscendingIn, Zenon
<1> HIDE DEF kept, c
<1>7. \A i \in 1..c : list[kept[i]] \in Values
    BY <1>2, <1>3, <1>6, Zenon
<1>8. w \in [1..c -> Values]
    BY <1>1, <1>6, <1>7, Zenon
<1>9. w \in Seq(Values)
    BY <1>6, <1>8
<1> QED BY <1>9, Zenon DEF w

LEMMA WithoutFacts ==
    ASSUME NumberFacts, NEW list \in Seq(Values), NEW n, NEW value
    PROVE  Without(list, n, value) \in Seq(Values)
<1>1. WithoutFirst(list, n, value) \in Seq(Values)
    BY WithoutFirstFacts, Zenon
<1>2. Reverse(list) \in Seq(Values)
    BY ReverseFacts, Zenon
<1>3. Reverse(WithoutFirst(Reverse(list), -n, value)) \in Seq(Values)
    <2>1. WithoutFirst(Reverse(list), -n, value) \in Seq(Values)
        BY <1>2, WithoutFirstFacts, Zenon
    <2> QED BY <2>1, ReverseFacts, Zenon
<1> QED BY <1>1, <1>3, Zenon DEF Without

LEMMA NothingPlaced ==
    ASSUME NEW k, NEW v, NEW first \in Int, NEW list \in Seq(Values), Len(list) = 0
    PROVE  list = <<>> /\ DOMAIN Placed(k, v, first, list) = {}
<1>1. list = <<>> OBVIOUS
<1>2. first..(first + Len(list) - 1) = {} OBVIOUS
<1>3. Positions(k, v, {}) = {} BY Zenon DEF Positions
<1> QED BY <1>1, <1>2, <1>3, Zenon DEF Placed

LEMMA LremKeeps ==
    ASSUME NumberFacts, ListsInv, NEW k \in Keys, NEW n, NEW value, lrem(k, n, value)
    PROVE  ListsInv'
<1> DEFINE m == meta[k]
           old == Held(data, k, m)
           list == Without(old, n, value)
           mm == [m EXCEPT !.count = Len(list), !.right = m.left + Len(list)]
           deletes == Positions(k, m.version, ToSet(Indexes(m)))
           puts == Placed(k, m.version, m.left + 1, list)
<1>1. KeyFacts(k)
    BY KeyFactsHold, Zenon
<1>2. Matches(k) /\ Unlocked(k)
    BY Zenon DEF lrem
<1>3. /\ Live(m) /\ old = expect[k] /\ Elements(k) = old /\ clock \in Nat \ {0}
    BY <1>1, <1>2, Zenon DEF KeyFacts
<1>4. /\ Batch(k, OrGone(mm), deletes, puts) /\ Expect(k, list)
      /\ moving' = moving /\ reader' = reader /\ reply' = reply /\ Observe
    BY <1>3, Zenon DEF lrem
<1>5. LiveList(k, m, old)
    BY <1>1, <1>3, LiveFacts, Zenon
<1> HIDE DEF old
<1>6. m \in MetaRecord /\ m.left \in Int /\ m.version \in Nat /\ old \in Seq(Values)
    BY <1>5, Zenon DEF LiveList
<1>7. list \in Seq(Values)
    BY <1>6, WithoutFacts, Zenon
<1> HIDE DEF list
<1>8. Len(list) \in Nat /\ m.left + Len(list) \in Int /\ m.left + 1 \in Int
    <2> HIDE DEF m
    <2> QED BY <1>6, <1>7
<1>9. IsMeta(mm, m, Len(list), m.version, m.left, m.left + Len(list))
    <2> HIDE DEF m
    <2> QED BY <1>6, <1>8, MetaUpdates, Zenon
<1>10. mm.count = Len(list)
    <2> HIDE DEF mm
    <2> QED BY <1>9, Zenon DEF IsMeta
<1> HIDE DEF mm
<1>11. reply' = "expected"
    BY <1>4, Zenon DEF ListsInv
<1>12. CASE Len(list) = 0
    <2>1. Batch(k, NoMeta, deletes, puts)
        BY <1>4, <1>10, <1>12, Zenon DEF OrGone
    <2>2. list = <<>> /\ DOMAIN puts = {}
        BY <1>7, <1>8, <1>12, NothingPlaced, Zenon
    <2>3. NoMeta \in MetaRecord /\ ~Live(NoMeta) /\ NoMeta.version <= clock
        BY <1>3, NoMetaFacts, Zenon
    <2>4. Covers(deletes, k, m.version, ToSet(Indexes(m)))
        BY PositionsCover, Zenon
    <2> HIDE DEF deletes, puts
    <2>5. Leaves(k, NoMeta, <<>>)
        BY <1>1, <2>1, <2>2, <2>3, <2>4, EndsLeaves, Zenon DEF Covers
    <2>6. Expect(k, <<>>) BY <1>4, <2>2, Zenon
    <2> QED BY <1>2, <1>4, <1>11, <2>5, <2>6, CommandKeeps, Zenon
<1>13. CASE Len(list) # 0
    <2>1. Batch(k, mm, deletes, puts)
        BY <1>4, <1>10, <1>13, Zenon DEF OrGone
    <2>2. m.version \in {m.version, clock} BY Zenon
    <2>3. Leaves(k, mm, list)
        BY <1>1, <1>3, <1>7, <1>9, <1>13, <2>1, <2>2, RewriteLeaves, Zenon
    <2> QED BY <1>2, <1>4, <1>11, <2>3, CommandKeeps, Zenon
<1> QED BY <1>12, <1>13, Zenon

\* A list with one more element.
LEMMA InsertAtFacts ==
    ASSUME NEW s \in Seq(Values), NEW i \in 1..(Len(s) + 1), NEW e \in Values
    PROVE  InsertAt(s, i, e) \in Seq(Values) /\ Len(InsertAt(s, i, e)) # 0
<1> DEFINE a == SubSeq(s, 1, i - 1)
           b == SubSeq(s, i, Len(s))
           ae == a \o <<e>>
<1>1. /\ Len(s) \in Nat /\ i \in Int /\ i - 1 \in Int /\ 1 \in Int /\ Len(s) \in Int
      /\ 1 <= 1 /\ 1 <= (i - 1) + 1 /\ i - 1 <= Len(s)
      /\ 1 <= i /\ i <= Len(s) + 1 /\ Len(s) <= Len(s)
    OBVIOUS
<1>2. a \in Seq(Values) /\ b \in Seq(Values)
    BY <1>1, PartFacts, Zenon
<1> HIDE DEF a, b
<1>3. <<e>> \in Seq(Values) /\ Len(<<e>>) = 1
    OBVIOUS
<1>4. ae \in Seq(Values) /\ Follows(ae, a, <<e>>)
    BY <1>2, <1>3, ConcatFacts, Zenon
<1> HIDE DEF ae
<1>5. ae \o b \in Seq(Values) /\ Follows(ae \o b, ae, b)
    BY <1>2, <1>4, ConcatFacts, Zenon
<1>6. Len(ae) = Len(a) + 1 /\ Len(ae \o b) = Len(ae) + Len(b)
    BY <1>3, <1>4, <1>5, Zenon DEF Follows
<1>7. Len(a) \in Nat /\ Len(b) \in Nat
    BY <1>2
<1>8. Len(ae \o b) # 0
    BY <1>6, <1>7
<1>9. InsertAt(s, i, e) = ae \o b
    BY Zenon DEF InsertAt, a, b, ae
<1> QED BY <1>5, <1>8, <1>9, Zenon

LEMMA PivotInsertFacts ==
    ASSUME NumberFacts, NEW s \in Seq(Values), NEW where, NEW pivot \in ToSet(s),
           NEW value \in Values
    PROVE  PivotInsert(s, where, pivot, value) \in Seq(Values)
           /\ Len(PivotInsert(s, where, pivot, value)) # 0
<1> DEFINE last(i) == s[i] = pivot /\ \A j \in (i + 1)..Len(s) : s[j] # pivot
           at == CHOOSE i \in DOMAIN s : last(i)
           T == {i \in 1..Len(s) : s[i] = pivot}
<1>1. Len(s) \in Nat /\ DOMAIN s = 1..Len(s)
    OBVIOUS
<1>2. T \in SUBSET (1..Len(s)) /\ T # {}
    <2>1. \E i \in DOMAIN s : s[i] = pivot BY Zenon DEF ToSet
    <2> QED BY <1>1, <2>1, Zenon
<1>3. PICK x \in T : \A y \in T : y <= x
    BY <1>1, <1>2, GreatestIn, Zenon
<1>4. x \in 1..Len(s) /\ s[x] = pivot
    BY <1>3, Zenon
<1>5. \A j \in (x + 1)..Len(s) : j \in 1..Len(s) /\ ~(j <= x)
    BY <1>1, <1>4
<1>6. \A j \in (x + 1)..Len(s) : s[j] # pivot
    BY <1>3, <1>5, Zenon
<1>7. at \in 1..Len(s)
    BY <1>1, <1>4, <1>6, Zenon
<1> HIDE DEF at
<1>8. at \in 1..(Len(s) + 1) /\ at + 1 \in 1..(Len(s) + 1)
    BY <1>1, <1>7
<1>9. /\ InsertAt(s, at, value) \in Seq(Values) /\ Len(InsertAt(s, at, value)) # 0
      /\ InsertAt(s, at + 1, value) \in Seq(Values) /\ Len(InsertAt(s, at + 1, value)) # 0
    BY <1>8, InsertAtFacts, Zenon
<1>10. PivotInsert(s, where, pivot, value) = InsertAt(s, IF where = "before" THEN at ELSE at + 1, value)
    BY Zenon DEF PivotInsert, at
<1> QED BY <1>9, <1>10, Zenon

LEMMA LinsertKeeps ==
    ASSUME NumberFacts, ListsInv, NEW k \in Keys, NEW where, NEW pivot, NEW value \in Values,
           linsert(k, where, pivot, value)
    PROVE  ListsInv'
<1> DEFINE m == meta[k]
           old == Held(data, k, m)
           list == PivotInsert(old, where, pivot, value)
           mm == [m EXCEPT !.version = clock, !.count = Len(list), !.right = m.left + Len(list)]
           deletes == Positions(k, m.version, ToSet(Indexes(m)))
           puts == Placed(k, clock, m.left + 1, list)
<1>1. KeyFacts(k)
    BY KeyFactsHold, Zenon
<1>2. Matches(k) /\ Unlocked(k)
    BY Zenon DEF linsert
<1>3. Live(m) /\ old = expect[k] /\ Elements(k) = old /\ clock \in Nat \ {0} /\ m.version < clock
    BY <1>1, <1>2, Zenon DEF KeyFacts
<1>4. LiveList(k, m, old)
    BY <1>1, <1>3, LiveFacts, Zenon
<1>5. m \in MetaRecord /\ m.left \in Int /\ m.version \in Nat /\ old \in Seq(Values)
    <2> HIDE DEF old
    <2> QED BY <1>4, Zenon DEF LiveList
<1>6. update_version(m.version) = clock
    BY <1>3, <1>5, NewVersion, Zenon
<1>7. /\ Batch(k, mm, deletes, puts) /\ pivot \in ToSet(old)
      /\ Expect(k, IF pivot \in ToSet(old) THEN list ELSE old)
      /\ moving' = moving /\ reader' = reader /\ reply' = reply /\ Observe
    BY <1>3, <1>6, Zenon DEF linsert
<1> HIDE DEF old
<1>8. list \in Seq(Values) /\ Len(list) # 0
    BY <1>5, <1>7, PivotInsertFacts, Zenon
<1> HIDE DEF list
<1>9. Len(list) \in Nat /\ m.left + Len(list) \in Int /\ clock \in Nat
    <2> HIDE DEF m
    <2> QED BY <1>3, <1>5, <1>8
<1>10. IsMeta(mm, m, Len(list), clock, m.left, m.left + Len(list))
    <2> HIDE DEF m
    <2> QED BY <1>5, <1>9, MetaUpdates, Zenon
<1> HIDE DEF mm
<1>11. Leaves(k, mm, list)
    <2>1. clock \in {m.version, clock} BY Zenon
    <2> QED BY <1>1, <1>3, <1>7, <1>8, <1>10, <2>1, RewriteLeaves, Zenon
<1>12. Expect(k, list) /\ reply' = "expected"
    BY <1>7, Zenon DEF ListsInv
<1> QED BY <1>2, <1>7, <1>11, <1>12, CommandKeeps, Zenon

-----------------------------------------------------------------------------
(* RPOPLPUSH and crashes. *)

\* The last element, as Fetch returns it and as Last names it.
LEMMA LastOne ==
    ASSUME NEW s \in Seq(Values), NEW n \in Nat \ {0}, Len(s) = n
    PROVE  /\ Reverse(SubSeq(s, (n - 1) + 1, n))[1] = Last(s)
           /\ Last(s) \in Values /\ s # <<>> /\ Front(s) = SubSeq(s, 1, n - 1)
           /\ Front(s) \in Seq(Values)
<1> DEFINE u == SubSeq(s, (n - 1) + 1, n)
<1>1. u = SubSeq(s, n, n) /\ n \in Int /\ 1 <= n /\ n <= n + 1 /\ n <= Len(s)
    <2>1. (n - 1) + 1 = n OBVIOUS
    <2>2. n \in Int /\ 1 <= n /\ n <= n + 1 /\ n <= Len(s) OBVIOUS
    <2> QED BY <2>1, <2>2, Zenon
<1>2. SubSeq(s, n, n) \in Seq(Values) /\ IsPart(SubSeq(s, n, n), s, n, n)
    BY <1>1, PartFacts, Zenon
<1> HIDE DEF u
<1>3. /\ n - n + 1 = 1 /\ 1 \in 1..1 /\ n + 1 - 1 = n /\ (1 - 1) + 1 = 1
    OBVIOUS
<1>4. Len(u) = 1 /\ u[1] = s[n]
    BY <1>1, <1>2, <1>3, Zenon DEF IsPart
<1>5. Reverse(u)[1] = u[1]
    <2>1. Reverse(u) = [i \in 1..1 |-> u[(1 - i) + 1]]
        BY <1>4, Zenon DEF Reverse
    <2>2. Reverse(u)[1] = u[(1 - 1) + 1]
        BY <1>3, <2>1, Zenon
    <2> QED BY <1>3, <2>2
<1>6. s[n] \in Values /\ s # <<>>
    OBVIOUS
<1>7. SubSeq(s, 1, n - 1) \in Seq(Values)
    <2>1. 1 \in Int /\ n - 1 \in Int /\ 1 <= 1 /\ 1 <= (n - 1) + 1 /\ n - 1 <= Len(s) OBVIOUS
    <2> QED BY <2>1, PartFacts, Zenon
<1> QED BY <1>4, <1>5, <1>6, <1>7, Zenon DEF Last, Front, u

\* A key is not the name of no key.
LEMMA NotMoving ==
    ASSUME NEW k \in Keys
    PROVE  /\ k \notin {NoMove.source, NoMove.destination}
           /\ \A d, x : [source |-> k, destination |-> d, value |-> x] # NoMove
<1>1. NoMove.source = "none" /\ NoMove.destination = "none"
    BY DEF NoMove
<1>2. \A d, x : [source |-> k, destination |-> d, value |-> x].source = k
    OBVIOUS
<1> QED BY <1>1, <1>2, KeysAssumption, Zenon

\* The first batch takes the last element off the list of its source.
LEMMA MovePopKeeps ==
    ASSUME NumberFacts, ListsInv, NEW s \in Keys, NEW d \in Keys, rpoplpush_pop(s, d)
    PROVE  ListsInv'
<1> DEFINE m == meta[s]
           old == Held(data, s, m)
           popped == Fetch(s, m.version, RightIndexes(m, 1))
           mv == [source |-> s, destination |-> d, value |-> popped[1]]
<1>1. /\ moving = NoMove /\ Matches(s) /\ rpop_internal(s, 1) /\ moving' = mv
      /\ reader' = reader /\ expect' = expect /\ reply' = reply /\ Observe
    BY Zenon DEF rpoplpush_pop
<1>2. KeyFacts(s)
    BY KeyFactsHold, Zenon
<1>3. Unlocked(s)
    BY <1>1, NotMoving, Zenon DEF Unlocked
<1>4. Live(m) /\ old = expect[s]
    BY <1>1, <1>2, <1>3, Zenon DEF KeyFacts
<1>5. LiveList(s, m, old)
    BY <1>2, <1>4, LiveFacts, Zenon
<1> HIDE DEF old
<1>6. m.count \in Nat \ {0} /\ old \in Seq(Values) /\ Len(old) = m.count
    BY <1>5, Zenon DEF LiveList
<1>7. 1 \in 1..m.count
    <2> HIDE DEF m
    <2> QED BY <1>6
<1>8. popped = Reverse(SubSeq(old, (m.count - 1) + 1, m.count))
    <2> HIDE DEF m
    <2> QED BY <1>5, <1>7, LastFetched, Zenon
<1> HIDE DEF popped
<1>9. /\ popped[1] = Last(old) /\ Last(old) \in Values /\ old # <<>>
      /\ Front(old) = SubSeq(old, 1, m.count - 1)
    <2> HIDE DEF m
    <2> QED BY <1>6, <1>8, LastOne, Zenon
<1>10. PICK mm : Leaves(s, mm, SubSeq(old, 1, m.count - 1))
    BY <1>1, <1>2, <1>4, <1>7, RpopLeaves, Zenon DEF old
<1>11. /\ mv \in MoveRecord /\ mv.source = s /\ mv.value = popped[1]
    BY <1>9 DEF MoveRecord
<1>12. mv # NoMove
    BY NotMoving, Zenon
<1> HIDE DEF mv, m
<1>13. Wanted(moving', expect', s) = SubSeq(old, 1, m.count - 1)
    BY <1>1, <1>4, <1>9, <1>11, <1>12, Zenon DEF Wanted
<1>14. \A j \in Keys : j # s => Wanted(moving', expect', j) = Wanted(moving, expect, j)
    BY <1>1, <1>11, Zenon DEF Wanted
<1>15. OnItsWay'
    BY <1>1, <1>4, <1>9, <1>11, Zenon DEF OnItsWay
<1>16. expect' \in [Keys -> Seq(Values)] /\ moving' \in MoveRecord \cup {NoMove}
    BY <1>1, <1>11, Zenon DEF ListsInv, TypeOK
<1>17. reply' = "expected"
    BY <1>1, Zenon DEF ListsInv
<1> QED BY <1>1, <1>10, <1>13, <1>14, <1>15, <1>16, <1>17, BatchKeeps, Zenon

\* The keys and the element of an RPOPLPUSH between its batches.
LEMMA Moving ==
    ASSUME ListsInv, moving # NoMove
    PROVE  /\ moving.source \in Keys /\ moving.destination \in Keys /\ moving.value \in Values
           /\ expect[moving.source] \in Seq(Values)
           /\ moving.value = Last(expect[moving.source])
           /\ Front(expect[moving.source]) \in Seq(Values)
<1>1. moving \in MoveRecord /\ expect \in [Keys -> Seq(Values)]
    BY Zenon DEF ListsInv, TypeOK
<1>2. moving.source \in Keys /\ moving.destination \in Keys /\ moving.value \in Values
    BY <1>1 DEF MoveRecord
<1>3. expect[moving.source] # <<>> /\ moving.value = Last(expect[moving.source])
    BY Zenon DEF ListsInv, OnItsWay
<1> DEFINE s == expect[moving.source]
<1>4. s \in Seq(Values) /\ s # <<>>
    BY <1>1, <1>2, <1>3, Zenon
<1> HIDE DEF s
<1>5. Len(s) \in Nat \ {0} /\ Len(s) = Len(s)
    BY <1>4
<1>6. Front(s) \in Seq(Values)
    BY <1>4, <1>5, LastOne, Zenon
<1> QED BY <1>2, <1>3, <1>4, <1>6, Zenon DEF s

\* The second batch puts it before the first element of the destination's list.
LEMMA MovePushKeeps ==
    ASSUME NumberFacts, ListsInv, rpoplpush_push
    PROVE  ListsInv'
<1> DEFINE s == moving.source
           d == moving.destination
           m == IF Fresh(d) THEN new_list_meta ELSE meta[d]
           one == <<moving.value>>
           held == Held(data, d, meta[d])
           popped == [expect EXCEPT ![s] = Front(expect[s])]
<1>1. /\ moving # NoMove /\ ~WrongType(d) /\ PushLeft(d, m, one) /\ expect' = Moved(expect)
      /\ moving' = NoMove /\ reader' = reader /\ reply' = reply /\ Observe
    BY Zenon DEF rpoplpush_push
<1>2. /\ s \in Keys /\ d \in Keys /\ moving.value \in Values
      /\ moving.value = Last(expect[s]) /\ Front(expect[s]) \in Seq(Values)
    BY <1>1, Moving, Zenon
<1>3. expect \in [Keys -> Seq(Values)] /\ held = Wanted(moving, expect, d)
    BY <1>2, Zenon DEF ListsInv, TypeOK, AsWanted
<1>4. expect' = [popped EXCEPT ![d] = one \o popped[d]]
    BY <1>1, <1>2, Zenon DEF Moved
<1> HIDE DEF s, d
<1>5. KeyFacts(d)
    BY <1>2, KeyFactsHold, Zenon
<1>6. PushBase(d, m)
    BY <1>1, <1>5, Zenon DEF PushBase, KeyFacts
<1>7. one \in Seq(Values) /\ one # <<>> /\ Reverse(one) = one
    <2>1. one \in Seq(Values) /\ one # <<>> /\ Len(one) = 1 BY <1>2
    <2> QED BY <2>1 DEF Reverse
<1> HIDE DEF m, one
<1>8. PICK mm : Leaves(d, mm, one \o held)
    <2>1. \E mm : Leaves(d, mm, Reverse(one) \o held)
        BY <1>1, <1>2, <1>5, <1>6, <1>7, PushLeftLeaves, Zenon
    <2> HIDE DEF held
    <2> QED BY <1>7, <2>1, Zenon
<1>9. one \o held \in Seq(Values)
    <2> HIDE DEF held
    <2> QED BY <1>2, <1>8, LeavesStore, Zenon DEF ListsInv
<1>10. /\ popped \in [Keys -> Seq(Values)] /\ popped[d] = held
       /\ \A j \in Keys : popped[j] = Wanted(moving, expect, j)
    BY <1>1, <1>2, <1>3, Zenon DEF Wanted, s
<1> HIDE DEF popped, held
<1>11. /\ expect' \in [Keys -> Seq(Values)] /\ expect'[d] = one \o held
       /\ \A j \in Keys : j # d => expect'[j] = popped[j]
    BY <1>2, <1>4, <1>9, <1>10, Zenon
<1>12. Wanted(moving', expect', d) = one \o held
    BY <1>1, <1>11, Zenon DEF Wanted
<1>13. \A j \in Keys : j # d => Wanted(moving', expect', j) = Wanted(moving, expect, j)
    BY <1>1, <1>10, <1>11, Zenon DEF Wanted
<1>14. OnItsWay' /\ moving' \in MoveRecord \cup {NoMove} /\ reply' = "expected"
    BY <1>1, Zenon DEF OnItsWay, ListsInv
<1> QED BY <1>1, <1>2, <1>8, <1>11, <1>12, <1>13, <1>14, BatchKeeps, Zenon

\* A step that leaves the store as it is.
LEMMA StoreStays ==
    ASSUME ListsInv, clock' = clock, meta' = meta, data' = data
    PROVE  /\ clock' \in Nat \ {0} /\ meta' \in [Keys -> MetaRecord] /\ Typed(data')
           /\ Dated(clock', meta', data') /\ AllComplete(meta', data') /\ OldOrListed
BY Zenon DEF ListsInv, TypeOK, OldOrListed

LEMMA NoReadFacts == NoRead \in ReadRecord /\ NoRead.pc = "idle" /\ NoRead.result = <<>>
BY DEF NoRead, ReadRecord, MetaRecord, NoMeta

\* A move that ends between its batches: what is expected is then what is there.
LEMMA LostInMoveKeeps ==
    ASSUME ListsInv, clock' = clock, meta' = meta, data' = data, moving' = NoMove, LostInMove,
           reader' \in [Readers -> ReadRecord], AllSound', reply' = reply
    PROVE  ListsInv'
<1>1. /\ clock' \in Nat \ {0} /\ meta' \in [Keys -> MetaRecord] /\ Typed(data')
      /\ Dated(clock', meta', data') /\ AllComplete(meta', data')
    BY StoreStays, Zenon
<1>2. expect \in [Keys -> Seq(Values)] /\ AsWanted /\ reply = "expected"
    BY Zenon DEF ListsInv, TypeOK
<1>3. /\ expect' \in [Keys -> Seq(Values)]
      /\ \A k \in Keys : expect'[k] = Wanted(moving, expect, k)
    <2>1. CASE moving = NoMove
        BY <1>2, <2>1, Zenon DEF LostInMove, Wanted
    <2>2. CASE moving # NoMove
        <3>1. moving.source \in Keys /\ Front(expect[moving.source]) \in Seq(Values)
            BY <2>2, Moving, Zenon
        <3>2. expect' = [expect EXCEPT ![moving.source] = Front(expect[moving.source])]
            BY <2>2, Zenon DEF LostInMove
        <3> QED BY <1>2, <2>2, <3>1, <3>2, Zenon DEF Wanted
    <2> QED BY <2>1, <2>2, Zenon
<1>4. TypeOK'
    BY <1>1, <1>3, Zenon DEF TypeOK
<1>5. AsWanted'
    BY <1>2, <1>3, Zenon DEF AsWanted, Wanted
<1>6. OnItsWay'
    BY Zenon DEF OnItsWay
<1> QED BY <1>1, <1>2, <1>4, <1>5, <1>6, Zenon DEF ListsInv

LEMMA MoveFailsKeeps ==
    ASSUME NumberFacts, ListsInv, rpoplpush_fails
    PROVE  ListsInv'
<1>1. /\ clock' = clock /\ meta' = meta /\ data' = data /\ moving' = NoMove /\ LostInMove
      /\ reader' = reader /\ reply' = reply /\ Observe
    BY Zenon DEF rpoplpush_fails
<1>2. /\ meta' \in [Keys -> MetaRecord] /\ Typed(data') /\ AllComplete(meta', data')
      /\ OldOrListed
    BY <1>1, StoreStays, Zenon
<1>3. AllSound'
    BY <1>1, <1>2, ReadersStay, Zenon DEF ListsInv
<1>4. reader' \in [Readers -> ReadRecord]
    BY <1>1, Zenon DEF ListsInv, TypeOK
<1> QED BY <1>1, <1>3, <1>4, LostInMoveKeeps, Zenon

LEMMA CrashKeeps ==
    ASSUME ListsInv, Crash
    PROVE  ListsInv'
<1>1. /\ clock' = clock /\ meta' = meta /\ data' = data /\ moving' = NoMove /\ LostInMove
      /\ reader' = [r \in Readers |-> NoRead] /\ reply' = reply
    BY Zenon DEF Crash
<1>2. reader' \in [Readers -> ReadRecord] /\ AllSound'
    BY <1>1, NoReadFacts, Zenon DEF AllSound, Sound
<1> QED BY <1>1, <1>2, LostInMoveKeeps, Zenon

-----------------------------------------------------------------------------
(* LRANGE. *)

\* A step of one LRANGE: the others see no change of the store.
LEMMA ReadKeeps ==
    ASSUME NumberFacts, ListsInv, NEW r \in Readers, NEW q \in ReadRecord,
           reader' = [reader EXCEPT ![r] = q],
           UNCHANGED <<clock, meta, data, moving, expect, reply>>, Observe,
           Sound(data', q, Was(seen'[r]))
    PROVE  ListsInv'
<1>1. /\ clock' = clock /\ meta' = meta /\ data' = data /\ moving' = moving
      /\ expect' = expect /\ reply' = reply
    BY Zenon
<1>2. /\ meta' \in [Keys -> MetaRecord] /\ Typed(data') /\ AllComplete(meta', data')
      /\ OldOrListed
    BY <1>1, StoreStays, Zenon
<1>3. reader \in [Readers -> ReadRecord]
    BY Zenon DEF ListsInv, TypeOK
<1>4. /\ reader' \in [Readers -> ReadRecord] /\ reader'[r] = q
      /\ \A x \in Readers : x # r => reader'[x] = reader[x]
    BY <1>3, Zenon
<1>5. AllSound'
    <2> SUFFICES ASSUME NEW x \in Readers
                 PROVE  Sound(data', reader'[x], Was(seen'[x]))
        BY Zenon DEF AllSound
    <2>1. CASE x = r BY <1>4, <2>1, Zenon
    <2>2. CASE x # r
        <3>1. reader'[x] = reader[x] /\ Sound(data, reader[x], Was(seen[x]))
            BY <1>4, <2>2, Zenon DEF ListsInv, AllSound
        <3> QED BY <1>2, <3>1, StaysSound, Zenon
    <2> QED BY <2>1, <2>2, Zenon
<1>6. TypeOK'
    BY <1>1, <1>4, Zenon DEF ListsInv, TypeOK
<1>7. Dated(clock', meta', data') /\ AllComplete(meta', data') /\ reply' = "expected"
    BY <1>1, Zenon DEF ListsInv
<1>8. AsWanted' /\ OnItsWay'
    BY <1>1, Zenon DEF ListsInv, AsWanted, OnItsWay
<1> QED BY <1>5, <1>6, <1>7, <1>8, Zenon DEF ListsInv

\* The first step: what is under the version it found is the list it sees.
LEMMA ReadMetaKeeps ==
    ASSUME NumberFacts, ListsInv, NEW r \in Readers, NEW k \in Keys, lrange_meta(r, k)
    PROVE  ListsInv'
<1> DEFINE q == [pc |-> "read", key |-> k, meta |-> meta[k], i |-> 1, result |-> <<>>]
<1>1. /\ Matches(k) /\ reader' = [reader EXCEPT ![r] = q] /\ Observe
      /\ UNCHANGED <<clock, meta, data, moving, expect, reply>>
    BY Zenon DEF lrange_meta
<1>2. KeyFacts(k)
    BY KeyFactsHold, Zenon
<1>3. meta[k] \in MetaRecord /\ Live(meta[k])
    BY <1>1, <1>2, Zenon DEF KeyFacts
<1>4. /\ q \in ReadRecord /\ q.pc = "read" /\ q.key = k /\ q.meta = meta[k]
      /\ DOMAIN q.result = {}
    BY <1>3 DEF ReadRecord
<1> HIDE DEF q
<1>5. reader \in [Readers -> ReadRecord]
    BY Zenon DEF ListsInv, TypeOK
<1>6. reader'[r] = q
    BY <1>1, <1>5, Zenon
<1>7. clock' = clock /\ meta' = meta /\ data' = data
    BY <1>1, Zenon
<1>8. meta' \in [Keys -> MetaRecord] /\ Typed(data') /\ AllComplete(meta', data')
    BY <1>7, StoreStays, Zenon
<1>9. reader'[r].pc # "idle" /\ reader'[r].key = k
    <2>1. "read" # "idle" OBVIOUS
    <2> QED BY <1>4, <1>6, <2>1, Zenon
<1>10. \A p \in DOMAIN data' : p.key = k /\ p.version = meta[k].version =>
           data'[p] \in Was(seen'[r])
    BY <1>1, <1>3, <1>7, <1>8, <1>9, ListedSeen, Zenon
<1>11. Sound(data', q, Was(seen'[r]))
    BY <1>4, <1>6, <1>9, <1>10, Zenon DEF Sound
<1> QED BY <1>1, <1>4, <1>11, ReadKeeps, Zenon

\* Entries under a key and version.
AreUnder(f, d, k, v) ==
    \A i \in DOMAIN f : \E p \in DOMAIN d : p.key = k /\ p.version = v /\ f[i] = d[p]

\* What a read of one index adds to the result: an entry under the key and version,
\* or nothing.
LEMMA GetOne ==
    ASSUME NumberFacts, Typed(data), NEW k, NEW v, NEW x
    PROVE  /\ Fetch(k, v, <<x>>) \in Seq(Values)
           /\ AreUnder(Fetch(k, v, <<x>>), data, k, v)
<1> DEFINE f == Fetch(k, v, <<x>>)
           q == <<x>>
<1>1. f = FetchIn(data, k, v, q)
    BY Zenon DEF Fetch, FetchIn
<1>2. DOMAIN q = 1..1 /\ 1 \in Nat
    OBVIOUS
<1> HIDE DEF q
<1>3. PICK c \in Nat : Finds(f, data, k, v, q, 1, c)
    BY <1>1, <1>2, FetchSome, Zenon
<1> HIDE DEF f
<1>4. /\ f = [i \in 1..c |-> f[i]]
      /\ \A i \in 1..c : \E p \in DOMAIN data : p.key = k /\ p.version = v /\ f[i] = data[p]
    <2>1. \A y : At(k, v, y).key = k /\ At(k, v, y).version = v
        BY DEF At
    <2> QED BY <1>3, <2>1, Zenon DEF Finds
<1>5. DOMAIN f = 1..c
    BY <1>4, Zenon
<1>6. \A i \in 1..c : f[i] \in Values
    BY <1>4, Zenon DEF Typed
<1>7. f \in [1..c -> Values]
    BY <1>4, <1>6, Zenon
<1>8. f \in Seq(Values)
    BY <1>7
<1>9. AreUnder(f, data, k, v)
    BY <1>4, <1>5, Zenon DEF AreUnder
<1> QED BY <1>8, <1>9, Zenon DEF f

\* The elements of two sequences put together are theirs.
LEMMA ConcatIn ==
    ASSUME NEW S, NEW s \in Seq(S), NEW t \in Seq(S), NEW W,
           \A i \in DOMAIN s : s[i] \in W, \A i \in DOMAIN t : t[i] \in W
    PROVE  s \o t \in Seq(S) /\ \A i \in DOMAIN (s \o t) : (s \o t)[i] \in W
<1> DEFINE u == s \o t
<1>1. u \in Seq(S) /\ Follows(u, s, t)
    BY ConcatFacts, Zenon
<1>2. /\ DOMAIN s = 1..Len(s) /\ DOMAIN t = 1..Len(t) /\ Len(s) \in Nat /\ Len(t) \in Nat
    OBVIOUS
<1> HIDE DEF u
<1>3. DOMAIN u = 1..Len(u)
    BY <1>1
<1>4. /\ Len(u) = Len(s) + Len(t)
      /\ \A i \in 1..Len(s) : u[i] = s[i]
      /\ \A i \in 1..Len(t) : u[Len(s) + i] = t[i]
    BY <1>1, Zenon DEF Follows
<1>5. \A i \in 1..Len(u) : i \in 1..Len(s) \/ (i - Len(s) \in 1..Len(t) /\ Len(s) + (i - Len(s)) = i)
    BY <1>2, <1>4
<1>6. \A i \in 1..Len(u) : u[i] \in W
    <2> TAKE i \in 1..Len(u)
    <2>1. CASE i \in 1..Len(s) BY <1>2, <1>4, <2>1, Zenon
    <2>2. CASE i - Len(s) \in 1..Len(t) /\ Len(s) + (i - Len(s)) = i
        <3>1. u[Len(s) + (i - Len(s))] = t[i - Len(s)] BY <1>4, <2>2, Zenon
        <3> QED BY <1>2, <2>2, <3>1, Zenon
    <2> QED BY <1>5, <2>1, <2>2, Zenon
<1> QED BY <1>1, <1>3, <1>6, Zenon DEF u

\* The state of an LRANGE after it has read one more index.
IsRead(qq, q, result) ==
    /\ qq \in ReadRecord /\ qq.pc = q.pc /\ qq.key = q.key /\ qq.meta = q.meta
    /\ qq.result = result

LEMMA ReadUpdates ==
    ASSUME NEW q \in ReadRecord, NEW result \in Seq(Values)
    PROVE  IsRead([q EXCEPT !.i = q.i + 1, !.result = result], q, result)
<1>1. q.i + 1 \in Nat
    BY DEF ReadRecord
<1> QED BY <1>1, Zenon DEF ReadRecord, IsRead

LEMMA ReadGetKeeps ==
    ASSUME NumberFacts, ListsInv, NEW r \in Readers, lrange_get(r)
    PROVE  ListsInv'
<1> DEFINE q == reader[r]
           f == Fetch(q.key, q.meta.version, <<q.meta.left + q.i>>)
           result == q.result \o f
           qq == [q EXCEPT !.i = q.i + 1, !.result = result]
<1>1. /\ q.pc = "read" /\ reader' = [reader EXCEPT ![r] = qq] /\ Observe
      /\ UNCHANGED <<clock, meta, data, moving, expect, reply>>
    BY Zenon DEF lrange_get
<1>2. /\ reader \in [Readers -> ReadRecord] /\ q \in ReadRecord /\ Typed(data)
      /\ Sound(data, q, Was(seen[r]))
    BY Zenon DEF ListsInv, TypeOK, AllSound
<1>3. q.result \in Seq(Values)
    BY <1>2 DEF ReadRecord
<1>4. "read" # "idle"
    OBVIOUS
<1>5. /\ q.key \in Keys
      /\ \A p \in DOMAIN data : p.key = q.key /\ p.version = q.meta.version =>
             data[p] \in Was(seen[r])
      /\ \A i \in DOMAIN q.result : q.result[i] \in Was(seen[r])
    BY <1>1, <1>2, <1>4, Zenon DEF Sound
<1>6. f \in Seq(Values) /\ AreUnder(f, data, q.key, q.meta.version)
    BY <1>2, GetOne, Zenon
<1> HIDE DEF f
<1>7. \A i \in DOMAIN f : f[i] \in Was(seen[r])
    BY <1>5, <1>6, Zenon DEF AreUnder
<1>8. result \in Seq(Values) /\ \A i \in DOMAIN result : result[i] \in Was(seen[r])
    BY <1>3, <1>5, <1>6, <1>7, ConcatIn, Zenon
<1> HIDE DEF result
<1>9. IsRead(qq, q, result)
    BY <1>2, <1>8, ReadUpdates, Zenon
<1> HIDE DEF qq
<1>10. /\ qq \in ReadRecord /\ qq.pc = "read" /\ qq.key = q.key /\ qq.meta = q.meta
       /\ qq.result = result
    BY <1>1, <1>9, Zenon DEF IsRead
<1>11. reader'[r] = qq /\ clock' = clock /\ meta' = meta /\ data' = data
    BY <1>1, <1>2, Zenon
<1>12. meta' \in [Keys -> MetaRecord] /\ Typed(data') /\ AllComplete(meta', data')
    BY <1>11, StoreStays, Zenon
<1>13. seen'[r] = seen[r] \cup {Held(data', qq.key, meta'[qq.key])}
    <2>1. reader'[r].pc # "idle" /\ reader'[r].key \in Keys BY <1>4, <1>5, <1>10, <1>11, Zenon
    <2> QED BY <1>1, <1>11, <1>12, <2>1, Observed, Zenon
<1>14. \A x \in Was(seen[r]) : x \in Was(seen'[r])
    BY <1>13, Zenon DEF Was
<1>15. Sound(data', qq, Was(seen'[r]))
    BY <1>4, <1>5, <1>8, <1>10, <1>11, <1>14, Zenon DEF Sound
<1> QED BY <1>1, <1>10, <1>15, ReadKeeps, Zenon

LEMMA ReadDoneKeeps ==
    ASSUME NumberFacts, ListsInv, NEW r \in Readers, lrange_done(r)
    PROVE  ListsInv'
<1>1. /\ reader' = [reader EXCEPT ![r] = NoRead] /\ Observe
      /\ UNCHANGED <<clock, meta, data, moving, expect, reply>>
    BY Zenon DEF lrange_done
<1>2. NoRead \in ReadRecord /\ Sound(data', NoRead, Was(seen'[r]))
    BY NoReadFacts, Zenon DEF Sound
<1> QED BY <1>1, <1>2, ReadKeeps, Zenon

-----------------------------------------------------------------------------
(* The theorems. *)

LEMMA InitLists == Init => ListsInv
<1> SUFFICES ASSUME Init PROVE ListsInv
    OBVIOUS
<1>1. /\ clock = 1 /\ meta \in [Keys -> {NoMeta, [NoMeta EXCEPT !.type = "string"]}]
      /\ data = <<>> /\ moving = NoMove /\ reader = [r \in Readers |-> NoRead]
      /\ expect = [k \in Keys |-> <<>>] /\ reply = "expected"
    BY Zenon DEF Init
<1>2. clock \in Nat \ {0} /\ DOMAIN data = {} /\ <<>> \in Seq(Values) /\ 0 < clock
    BY <1>1
<1>3. \A k \in Keys : meta[k] \in MetaRecord /\ ~Live(meta[k]) /\ meta[k].version < clock
    <2> TAKE k \in Keys
    <2>1. meta[k] = NoMeta \/ meta[k] = [NoMeta EXCEPT !.type = "string"]
        BY <1>1, Zenon
    <2>2. meta[k] \in MetaRecord /\ ~Live(meta[k])
        BY <1>2, <2>1, NoMetaFacts, Zenon
    <2>3. NoMeta.version = 0 /\ [NoMeta EXCEPT !.type = "string"].version = 0
        BY DEF NoMeta
    <2> QED BY <1>2, <2>1, <2>2, <2>3, Zenon
<1>4. TypeOK
    <2>1. meta \in [Keys -> MetaRecord] BY <1>1, <1>3, Zenon
    <2>2. Typed(data) BY <1>2, Zenon DEF Typed
    <2>3. reader \in [Readers -> ReadRecord] BY <1>1, NoReadFacts, Zenon
    <2>4. expect \in [Keys -> Seq(Values)] BY <1>1, <1>2, Zenon
    <2> QED BY <1>1, <1>2, <2>1, <2>2, <2>3, <2>4, Zenon DEF TypeOK
<1>5. Dated(clock, meta, data) /\ AllComplete(meta, data)
    BY <1>2, <1>3, Zenon DEF Dated, AllComplete, Complete
<1>6. AsWanted /\ OnItsWay
    BY <1>1, <1>3, Zenon DEF AsWanted, OnItsWay, Held, Wanted
<1>7. AllSound
    BY <1>1, NoReadFacts, Zenon DEF AllSound, Sound
<1> QED BY <1>1, <1>4, <1>5, <1>6, <1>7, Zenon DEF ListsInv

LEMMA CommandsKeep ==
    ASSUME NumberFacts, ListsInv, NEW k \in Keys, Command(k)
    PROVE  ListsInv'
<1>1. \A n \in 1..2 : n \in Nat \ {0}
    OBVIOUS
<1>2. \A index \in -1..1 : index \in Int
    OBVIOUS
<1>3. \A range \in Ranges : range[1] \in Int /\ range[2] \in Int
    BY ArgsAssumption
<1>4. CASE \E values \in PushArgs, position \in {"left", "right"} : push(k, values, position)
    BY <1>4, PushKeeps, Zenon
<1>5. CASE \E n \in 1..2 : lpop(k, n) \/ rpop(k, n)
    BY <1>1, <1>5, LpopKeeps, RpopKeeps, Zenon
<1>6. CASE \E index \in -1..1, value \in Values : lset(k, index, value)
    BY <1>2, <1>6, LsetKeeps, Zenon
<1>7. CASE \E range \in Ranges : ltrim(k, range[1], range[2])
    BY <1>3, <1>7, LtrimKeeps, Zenon
<1>8. CASE \E n \in -1..1, value \in Values : lrem(k, n, value)
    BY <1>8, LremKeeps, Zenon
<1>9. CASE \E where \in {"before", "after"}, pivot, value \in Values :
               linsert(k, where, pivot, value)
    BY <1>9, LinsertKeeps, Zenon
<1>10. CASE \E d \in Keys : rpoplpush_pop(k, d)
    BY <1>10, MovePopKeeps, Zenon
<1>11. CASE del_key(k) \/ set(k) \/ Lapse(k)
    BY <1>11, DelKeeps, SetKeeps, LapseKeeps, Zenon
<1> QED BY <1>4, <1>5, <1>6, <1>7, <1>8, <1>9, <1>10, <1>11, Zenon DEF Command

LEMMA NextLists ==
    ASSUME NumberFacts, ListsInv, [Next]_vars
    PROVE  ListsInv'
<1>1. CASE \E k \in Keys : Command(k)
    BY <1>1, CommandsKeep, Zenon
<1>2. CASE rpoplpush_push
    BY <1>2, MovePushKeeps, Zenon
<1>3. CASE rpoplpush_fails
    BY <1>3, MoveFailsKeeps, Zenon
<1>4. CASE Crash
    BY <1>4, CrashKeeps, Zenon
<1>5. CASE \E r \in Readers : Read(r)
    BY <1>5, ReadMetaKeeps, ReadGetKeeps, ReadDoneKeeps, Zenon DEF Read
<1>6. CASE UNCHANGED vars
    BY <1>6, Zenon DEF vars, ListsInv, TypeOK, AsWanted, OnItsWay, AllSound
<1> QED BY <1>1, <1>2, <1>3, <1>4, <1>5, <1>6, Zenon DEF Next

LEMMA InvAsExpected ==
    ASSUME NumberFacts, ListsInv
    PROVE  ListsAsExpected
<1>1. \A k \in Keys : KeyFacts(k)
    BY KeyFactsHold, Zenon
<1>2. \A k \in Keys : Unlocked(k) => Contents(k) = expect[k]
    BY <1>1, Zenon DEF KeyFacts
<1> QED BY <1>2, Zenon DEF ListsInv, ListsAsExpected

LEMMA InvIndexesAgree ==
    ASSUME NumberFacts, ListsInv
    PROVE  IndexesAgree
<1> SUFFICES ASSUME NEW k \in Keys, Matches(k)
             PROVE  /\ meta[k].right = meta[k].left + meta[k].count
                    /\ {p \in DOMAIN data : p.key = k /\ p.version = meta[k].version}
                         = Positions(k, meta[k].version, (meta[k].left + 1)..meta[k].right)
    BY Zenon DEF IndexesAgree
<1> DEFINE m == meta[k]
           I == (m.left + 1)..m.right
           D == {p \in DOMAIN data : p.key = k /\ p.version = m.version}
           P == Positions(k, m.version, I)
<1>1. KeyFacts(k)
    BY KeyFactsHold, Zenon
<1>2. Live(m) /\ Typed(data) /\ Complete(data, k, m)
    BY <1>1, Zenon DEF KeyFacts
<1>3. /\ m.right = m.left + m.count
      /\ \A p \in DOMAIN data : p.key = k /\ p.version = m.version => p.index \in I
      /\ \A i \in I : At(k, m.version, i) \in DOMAIN data
    BY <1>2, Zenon DEF Complete
<1>4. Covers(P, k, m.version, I)
    BY PositionsCover, Zenon
<1>5. \A p \in P : \E i \in I : p = At(k, m.version, i)
    BY Zenon DEF Positions
<1>6. \A i : At(k, m.version, i).key = k /\ At(k, m.version, i).version = m.version
    BY DEF At
<1> HIDE DEF P, I, m
<1>7. \A p \in D : p \in P
    BY <1>2, <1>3, <1>4, Zenon DEF Covers, Typed
<1>8. \A p \in P : p \in D
    BY <1>3, <1>5, <1>6, Zenon
<1>9. D = P
    <2> HIDE DEF D
    <2> QED BY <1>7, <1>8, Zenon
<1> QED BY <1>3, <1>9, Zenon DEF D, P, I, m

LEMMA InvElementsWereThere ==
    ASSUME ListsInv
    PROVE  ElementsWereThere
<1> SUFFICES ASSUME NEW r \in Readers
             PROVE  ToSet(reader[r].result) \subseteq Was(seen[r])
    BY Zenon DEF ElementsWereThere, Was
<1>1. Sound(data, reader[r], Was(seen[r]))
    BY Zenon DEF ListsInv, AllSound
<1>2. \A i \in DOMAIN reader[r].result : reader[r].result[i] \in Was(seen[r])
    <2>1. DOMAIN <<>> = {} OBVIOUS
    <2> QED BY <1>1, <2>1, Zenon DEF Sound
<1> QED BY <1>2, Zenon DEF ToSet

-----------------------------------------------------------------------------
(* The facts about sets of numbers, and the theorems. *)

INSTANCE DataLemmas

\* The ranks of a finite set of numbers run from 1 to its size, so Ascending names
\* an element of the set at every place; in 1..n every number is its own rank.
LEMMA NumberFactsHold == NumberFacts
<1> SUFFICES ASSUME NEW n \in Nat
             PROVE  /\ Cardinality(1..n) = n
                    /\ \A i \in 1..n : Ascending(1..n)[i] = i
                    /\ \A S \in SUBSET (1..n) :
                          /\ Cardinality(S) \in Nat
                          /\ \A i \in 1..Cardinality(S) : Ascending(S)[i] \in S
                          /\ S # {} => \E x \in S : \A y \in S : y <= x
    BY Zenon DEF NumberFacts
<1>1. IsFiniteSet(1..n) /\ Cardinality(1..n) = n
    BY FS_Interval
<1>2. \A x \in 1..n : Cardinality({y \in 1..n : y <= x}) = x
    <2> TAKE x \in 1..n
    <2>1. {y \in 1..n : y <= x} = 1..x /\ x \in Nat
        OBVIOUS
    <2>2. Cardinality(1..x) = x
        BY <2>1, FS_Interval
    <2> QED BY <2>1, <2>2, Zenon
<1> DEFINE at(i) == CHOOSE x \in 1..n : Cardinality({y \in 1..n : y <= x}) = i
<1>3. \A i \in 1..n : at(i) \in 1..n /\ Cardinality({y \in 1..n : y <= at(i)}) = i
    BY <1>2, Zenon
<1>4. \A i \in 1..n : Ascending(1..n)[i] = i
    BY <1>1, <1>2, <1>3, Zenon DEF Ascending
<1>5. ASSUME NEW S \in SUBSET (1..n)
      PROVE  /\ Cardinality(S) \in Nat
             /\ \A i \in 1..Cardinality(S) : Ascending(S)[i] \in S
             /\ S # {} => \E x \in S : \A y \in S : y <= x
    <2>1. S \in SUBSET Nat /\ S \in SUBSET (0..n)
        OBVIOUS
    <2>2. IsFiniteSet(S)
        BY <1>1, FS_Subset, Zenon
    <2>3. Cardinality(S) \in Nat
        BY <2>2, FS_CardinalityType, Zenon
    <2>4. \A i \in 1..Cardinality(S) : \E x \in S : Cardinality({y \in S : y <= x}) = i
        BY <2>1, <2>2, RanksGrow, Zenon
    <2>5. \A i \in 1..Cardinality(S) : Ascending(S)[i] \in S
        BY <2>4, Zenon DEF Ascending
    <2>6. S # {} => \E x \in S : \A y \in S : y <= x
        BY <2>1, GreatestNat, Zenon
    <2> QED BY <2>3, <2>5, <2>6, Zenon
<1> QED BY <1>1, <1>4, <1>5, Zenon

\* The inductive invariant: the entries under the version of a live list are its
\* window, versions come from the clock, every key holds what its commands should
\* have left, and all an LRANGE can still read was in a list it has seen.
THEOREM ListsInvHolds == Spec => []ListsInv
<1>1. Init => ListsInv
    BY InitLists
<1>2. ListsInv /\ [Next]_vars => ListsInv'
    BY NumberFactsHold, NextLists
<1> QED BY <1>1, <1>2, PTL DEF Spec

\* Every list is the one its commands should have left, in order, and LPOP and
\* RPOP return what they remove: push_core, lpop, rpop, lset, ltrim, lrem, linsert
\* and rpoplpush, with a crash at any point, for lists of any length.
THEOREM ListsAreAsExpected == Spec => []ListsAsExpected
<1>1. ListsInv => ListsAsExpected
    BY NumberFactsHold, InvAsExpected
<1> QED BY <1>1, ListsInvHolds, PTL

\* The indexes, the count and the entries of a live list agree, so the pops from
\* either end and LLEN see the same list.
THEOREM ListIndexesAgree == Spec => []IndexesAgree
<1>1. ListsInv => IndexesAgree
    BY NumberFactsHold, InvIndexesAgree
<1> QED BY <1>1, ListsInvHolds, PTL

\* LRANGE returns no element that was not in the list while it ran, whatever
\* commands and crashes come between its reads.
THEOREM ListElementsWereThere == Spec => []ElementsWereThere
<1>1. ListsInv => ElementsWereThere
    BY InvElementsWereThere
<1> QED BY <1>1, ListsInvHolds, PTL
=============================================================================
