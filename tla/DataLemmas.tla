---------------------------- MODULE DataLemmas -----------------------------
(***************************************************************************)
(* Facts about naturals and sequences that the proofs about the components *)
(* share: least and greatest elements, induction, the increasing           *)
(* enumeration of a finite set, and what the operations on a sequence do   *)
(* to its domain and its elements.                                         *)
(*                                                                         *)
(* Induction is stated for a set, not for a formula, which the provers can *)
(* instantiate: the set of the numbers that satisfy the formula.           *)
(***************************************************************************)
EXTENDS Integers, FiniteSetTheorems, SequenceTheorems, TLAPS

\* A set of naturals that is not empty has a least element.
LEMMA LeastNat ==
    ASSUME NEW T \in SUBSET Nat, T # {}
    PROVE  \E x \in T : \A y \in T : x <= y
<1> DEFINE R == OpToRel(<, Nat)
<1>1. \A x, y \in T : y < x => <<y, x>> \in R
    BY Zenon DEF OpToRel
<1>2. IsWellFoundedOn(R, Nat)
    BY NatLessThanWellFounded, Zenon
<1> HIDE DEF R
<1>3. PICK x \in T : \A y \in T : ~(<<y, x>> \in R)
    BY <1>2, WFMin, Zenon
<1>4. x \in Nat /\ \A y \in T : ~(y < x) /\ y \in Nat
    BY <1>1, <1>3, Zenon
<1>5. \A y \in T : x <= y
    BY <1>4
<1> QED BY <1>5, Zenon

\* A set of naturals below a bound that is not empty has a greatest element.
LEMMA GreatestNat ==
    ASSUME NEW n \in Nat, NEW T \in SUBSET (0..n), T # {}
    PROVE  \E x \in T : \A y \in T : y <= x
<1> DEFINE U == {m \in Nat : n - m \in T}
<1>1. U \in SUBSET Nat /\ U # {}
    <2>1. PICK y \in T : TRUE BY Zenon
    <2>2. n - y \in Nat /\ n - (n - y) = y OBVIOUS
    <2> QED BY <2>1, <2>2, Zenon
<1>2. PICK m \in U : \A l \in U : m <= l
    BY <1>1, LeastNat, Zenon
<1>3. \A y \in T : y <= n - m
    <2> TAKE y \in T
    <2>1. y \in Nat /\ n - y \in Nat /\ n - (n - y) = y OBVIOUS
    <2>2. m <= n - y BY <1>2, <2>1, Zenon
    <2> QED BY <2>1, <2>2
<1> QED BY <1>2, <1>3, Zenon

\* A set that holds 0 and, with a natural, the next one, holds all naturals.
LEMMA SetInduction ==
    ASSUME NEW S, 0 \in S, \A n \in Nat : n \in S => n + 1 \in S
    PROVE  Nat \subseteq S
<1> SUFFICES ASSUME Nat \ S # {} PROVE FALSE BY Zenon
<1>1. PICK x \in Nat \ S : \A y \in Nat \ S : x <= y
    BY LeastNat, Zenon
<1>2. x # 0 /\ x - 1 \in Nat /\ x - 1 \in S /\ (x - 1) + 1 = x
    BY <1>1
<1> QED BY <1>1, <1>2, Zenon

\* The rank of an element of a finite set of naturals, the number of the elements
\* up to it, grows with the element, and every number up to the size is a rank.
LEMMA RanksGrow ==
    ASSUME NEW S \in SUBSET Nat, IsFiniteSet(S)
    PROVE  /\ \A x \in S : Cardinality({y \in S : y <= x}) \in 1..Cardinality(S)
           /\ \A x, y \in S : x < y =>
                  Cardinality({z \in S : z <= x}) < Cardinality({z \in S : z <= y})
           /\ \A i \in 1..Cardinality(S) :
                  \E x \in S : Cardinality({y \in S : y <= x}) = i
<1> DEFINE n == Cardinality(S)
           Upto(x) == {y \in S : y <= x}
           rank == [x \in S |-> Cardinality(Upto(x))]
<1>1. n \in Nat /\ IsFiniteSet(1..n) /\ Cardinality(1..n) = n
    <2>1. n \in Nat BY FS_CardinalityType, Zenon
    <2> QED BY <2>1, FS_Interval
<1>2. \A x \in S : IsFiniteSet(Upto(x)) /\ Cardinality(Upto(x)) \in Nat /\ rank[x] \in 1..n
    <2> SUFFICES ASSUME NEW x \in S
                 PROVE  IsFiniteSet(Upto(x)) /\ Cardinality(Upto(x)) \in Nat /\ Cardinality(Upto(x)) \in 1..n
        BY Zenon
    <2>1. Upto(x) \in SUBSET S /\ x \in Upto(x) OBVIOUS
    <2>2. IsFiniteSet(Upto(x)) /\ Cardinality(Upto(x)) <= n BY <2>1, FS_Subset, Zenon
    <2>3. Cardinality(Upto(x)) \in Nat BY <2>2, FS_CardinalityType, Zenon
    <2>4. Cardinality(Upto(x)) # 0 BY <2>1, <2>2, FS_EmptySet, Zenon
    <2> QED BY <1>1, <2>2, <2>3, <2>4
<1>3. \A x, y \in S : x < y => rank[x] < rank[y]
    <2> SUFFICES ASSUME NEW x \in S, NEW y \in S, x < y
                 PROVE  Cardinality(Upto(x)) < Cardinality(Upto(y))
        BY Zenon
    <2>1. Upto(x) \in SUBSET Upto(y) /\ y \in Upto(y) /\ y \notin Upto(x)
        <3>1. x \in Nat /\ y \in Nat /\ \A z \in S : z \in Nat BY Zenon
        <3>2. \A z \in S : z <= x => z <= y BY <3>1
        <3>3. y <= y /\ ~(y <= x) BY <3>1
        <3> QED BY <3>2, <3>3, Zenon
    <2>2. Cardinality(Upto(x)) <= Cardinality(Upto(y)) /\ Cardinality(Upto(x)) # Cardinality(Upto(y))
        BY <1>2, <2>1, FS_Subset, Zenon
    <2> QED BY <1>2, <2>2
<1>4. \A x, y \in S : rank[x] = rank[y] => x = y
    <2> SUFFICES ASSUME NEW x \in S, NEW y \in S, rank[x] = rank[y], x # y PROVE FALSE BY Zenon
    <2>1. x < y \/ y < x OBVIOUS
    <2>2. rank[x] < rank[y] \/ rank[y] < rank[x] BY <1>3, <2>1, Zenon
    <2>3. rank[x] \in Nat /\ rank[y] \in Nat BY <1>2, Zenon
    <2> HIDE DEF rank
    <2> QED BY <2>2, <2>3
<1>5. \A i \in 1..n : \E x \in S : rank[x] = i
    <2>1. rank \in [S -> 1..n] BY <1>2, Zenon
    <2> HIDE DEF rank
    <2>2. rank \in Injection(S, 1..n) BY <1>4, <2>1, Zenon DEF Injection, IsInjective
    <2>3. rank \in Surjection(S, 1..n) BY <1>1, <2>2, FS_Injection, Zenon
    <2> QED BY <2>3, Zenon DEF Surjection
<1> QED BY <1>2, <1>3, <1>5, Zenon

\* Every finite set of naturals can be listed in increasing order: the place of
\* an element is the number of the elements up to it.
LEMMA IncreasingEnumeration ==
    ASSUME NEW S \in SUBSET Nat, IsFiniteSet(S)
    PROVE  \E q \in [1..Cardinality(S) -> S] :
               \A i, j \in 1..Cardinality(S) : i < j => q[i] < q[j]
<1> DEFINE n == Cardinality(S)
           rank == [x \in S |-> Cardinality({y \in S : y <= x})]
<1>1. n \in Nat
    BY FS_CardinalityType, Zenon
<1>2. \A x, y \in S : x < y => rank[x] < rank[y]
    BY RanksGrow, Zenon
<1>3. \A i \in 1..n : \E x \in S : rank[x] = i
    BY RanksGrow, Zenon
<1> DEFINE q == [i \in 1..n |-> CHOOSE x \in S : rank[x] = i]
<1>4. \A i \in 1..n : q[i] \in S /\ rank[q[i]] = i
    <2> HIDE DEF rank
    <2> QED BY <1>3, Zenon
<1>5. \A i, j \in 1..n : i < j => q[i] < q[j]
    <2> SUFFICES ASSUME NEW i \in 1..n, NEW j \in 1..n, i < j PROVE q[i] < q[j] BY Zenon
    <2>1. q[i] \in Nat /\ q[j] \in Nat /\ q[i] \in S /\ q[j] \in S BY <1>4, Zenon
    <2>2. rank[q[i]] = i /\ rank[q[j]] = j BY <1>4, Zenon
    <2> HIDE DEF rank, q
    <2>3. q[i] # q[j] BY <2>2
    <2>4. q[j] < q[i] => j < i BY <1>2, <2>1, <2>2, Zenon
    <2>5. i \in Nat /\ j \in Nat BY <1>1
    <2> QED BY <2>1, <2>3, <2>4, <2>5
<1>6. q \in [1..n -> S]
    BY <1>4, Zenon
<1> HIDE DEF q
<1> QED BY <1>5, <1>6, Zenon

\* A list of a finite set that names no element twice names all of them.
LEMMA EnumerationCovers ==
    ASSUME NEW S, IsFiniteSet(S), NEW q \in [1..Cardinality(S) -> S],
           \A i, j \in 1..Cardinality(S) : i # j => q[i] # q[j]
    PROVE  \A x \in S : \E i \in 1..Cardinality(S) : q[i] = x
<1> DEFINE n == Cardinality(S)
<1>1. n \in Nat /\ IsFiniteSet(1..n) /\ Cardinality(1..n) = n
    <2>1. n \in Nat BY FS_CardinalityType, Zenon
    <2> QED BY <2>1, FS_Interval
<1>2. q \in Injection(1..n, S)
    BY Zenon DEF Injection, IsInjective
<1>3. q \in Surjection(1..n, S)
    BY <1>1, <1>2, FS_Injection, Zenon
<1> QED BY <1>3, Zenon DEF Surjection

-----------------------------------------------------------------------------
(* Sequences. *)

LEMMA AppendFacts ==
    ASSUME NEW S, NEW s \in Seq(S), NEW x \in S
    PROVE  /\ Append(s, x) \in Seq(S) /\ Len(s) \in Nat /\ DOMAIN s = 1..Len(s)
           /\ DOMAIN Append(s, x) = 1..(Len(s) + 1) /\ Len(Append(s, x)) = Len(s) + 1
           /\ \A i \in 1..Len(s) : Append(s, x)[i] = s[i]
           /\ Append(s, x)[Len(s) + 1] = x
OBVIOUS

LEMMA TailFacts ==
    ASSUME NEW S, NEW s \in Seq(S), s # <<>>
    PROVE  /\ Tail(s) \in Seq(S) /\ Len(s) \in Nat \ {0} /\ DOMAIN s = 1..Len(s)
           /\ Head(s) = s[1] /\ Head(s) \in S
           /\ DOMAIN Tail(s) = 1..(Len(s) - 1) /\ Len(Tail(s)) = Len(s) - 1
           /\ \A i \in 1..(Len(s) - 1) : Tail(s)[i] = s[i + 1]
OBVIOUS

LEMMA FrontFacts ==
    ASSUME NEW S, NEW s \in Seq(S), s # <<>>
    PROVE  LET front == SubSeq(s, 1, Len(s) - 1)
           IN  /\ front \in Seq(S) /\ Len(s) \in Nat \ {0} /\ DOMAIN s = 1..Len(s)
               /\ s[Len(s)] \in S
               /\ DOMAIN front = 1..(Len(s) - 1) /\ Len(front) = Len(s) - 1
               /\ \A i \in 1..(Len(s) - 1) : front[i] = s[i]
<1>1. Len(s) \in Nat \ {0} /\ DOMAIN s = 1..Len(s) /\ \A i \in 1..Len(s) : s[i] \in S
    OBVIOUS
<1>2. \A i \in 1..(Len(s) - 1) : s[i] \in S /\ 1 + i - 1 = i
    BY <1>1
<1> DEFINE n == Len(s) - 1
<1>3. n \in Int /\ n - 1 + 1 = n /\ (IF 1 <= n THEN n - 1 + 1 ELSE 0) = n
    BY <1>1
<1>4. /\ SubSeq(s, 1, n) \in Seq(S)
      /\ Len(SubSeq(s, 1, n)) = n
      /\ \A i \in 1..n : SubSeq(s, 1, n)[i] = s[i]
    <2> HIDE DEF n
    <2>1. \A i \in 1..n : s[i] \in S BY <1>2, Zenon DEF n
    <2> QED BY <1>2, <1>3, <2>1, SubSeqProperties DEF n
<1>5. DOMAIN SubSeq(s, 1, n) = 1..n
    BY <1>4, LenProperties, Zenon
<1> QED BY <1>1, <1>4, <1>5
=============================================================================
