-------------------------- MODULE TableScan_proofs --------------------------
(***************************************************************************)
(* Queries of any tables by any requests, whatever their datasets answer   *)
(* and whatever vanishes and fails on the way: rows are given out in       *)
(* order, each once, in full batches and up to the limit; none is left out *)
(* if nothing failed; and no partition is opened that is not needed.       *)
(***************************************************************************)
EXTENDS TableScan, PartitionCalendar_proofs, FiniteSetTheorems, SequenceTheorems,
        WellFoundedInduction, TLAPS

(* Orders.                                                                 *)

Smaller == {ss \in Nat \X Nat : ss[1] < ss[2]}

(* The order of the naturals is well-founded.                              *)
LEMMA SmallerIsWellFounded == IsWellFoundedOn(Smaller, Nat)
<1>1. OpToRel(<, Nat) = Smaller
  BY DEF OpToRel, Smaller
<1> QED BY <1>1, NatLessThanWellFounded, Zenon

(* Of some naturals, one is the least.                                     *)
LEMMA LeastNatural ==
    ASSUME NEW T \in SUBSET Nat, T # {}
    PROVE  \E x \in T : \A y \in T : x <= y
<1>1. PICK x \in T : \A y \in T : ~(<<y, x>> \in Smaller)
  BY SmallerIsWellFounded, WFMin
<1>2. ASSUME NEW y \in T, ~(x <= y) PROVE FALSE
  <2>1. x \in Nat /\ y \in Nat /\ y < x
    BY <1>2
  <2>2. <<y, x>> \in Smaller
    BY <2>1 DEF Smaller
  <2> QED BY <1>1, <2>2
<1> QED BY <1>2

(* The first of some places is one of them.                                *)
LEMMA FirstIs ==
    ASSUME NEW S \in SUBSET Nat, S # {}
    PROVE  FirstOf(S) \in S /\ \A c \in S : FirstOf(S) <= c
<1>1. \E b \in S : \A c \in S : b <= c
  BY LeastNatural
<1> QED BY <1>1 DEF FirstOf

(* A text is before another if they first differ by a smaller number, or   *)
(* the first ends where the other goes on.                                 *)
TextLess(s, t) ==
    \E i \in 1 .. Len(t) :
        /\ i <= Len(s) + 1
        /\ \A k \in 1 .. i - 1 : s[k] = t[k]
        /\ i <= Len(s) => s[i] < t[i]

(* Two texts start alike if they agree at every place.                     *)
LEMMA StartsAlike ==
    ASSUME NEW s \in Seq(Int), NEW t \in Seq(Int), NEW n \in Nat, n <= Len(s), n <= Len(t)
    PROVE  SubSeq(s, 1, n) = SubSeq(t, 1, n) <=> \A k \in 1 .. n : s[k] = t[k]
<1>1. ASSUME NEW u \in Seq(Int), n <= Len(u)
      PROVE  /\ SubSeq(u, 1, n) \in Seq(Int) /\ Len(SubSeq(u, 1, n)) = n
             /\ \A k \in 1 .. n : SubSeq(u, 1, n)[k] = u[k]
  <2>1. Len(u) \in Nat /\ \A i \in 1 .. n : u[i] \in Int
    BY <1>1, LenProperties, ElementOfSeq
  <2>2. /\ SubSeq(u, 1, n) \in Seq(Int)
        /\ Len(SubSeq(u, 1, n)) = IF 1 <= n THEN n - 1 + 1 ELSE 0
        /\ \A i \in 1 .. n - 1 + 1 : SubSeq(u, 1, n)[i] = u[1 + i - 1]
    BY <2>1, SubSeqProperties
  <2> QED BY <2>2
<1>2. ASSUME SubSeq(s, 1, n) = SubSeq(t, 1, n)
      PROVE  \A k \in 1 .. n : s[k] = t[k]
  BY <1>1, <1>2
<1>3. ASSUME \A k \in 1 .. n : s[k] = t[k]
      PROVE  SubSeq(s, 1, n) = SubSeq(t, 1, n)
  <2> DEFINE a == SubSeq(s, 1, n)
             b == SubSeq(t, 1, n)
  <2>1. a \in Seq(Int) /\ b \in Seq(Int) /\ Len(a) = Len(b) /\ Len(a) = n
    BY <1>1
  <2>2. \A k \in 1 .. n : a[k] = b[k]
    BY <1>1, <1>3
  <2> HIDE DEF a, b
  <2>3. a = b
    BY <2>1, <2>2, SeqEqual
  <2> QED BY <2>3 DEF a, b
<1> QED BY <1>2, <1>3

(* The order of texts, place by place.                                     *)
LEMMA TextOrder ==
    ASSUME NEW s \in Seq(Int), NEW t \in Seq(Int)
    PROVE  TextBefore(s, t) <=> TextLess(s, t)
<1>1. Len(s) \in Nat /\ Len(t) \in Nat
  BY LenProperties
<1>2. ASSUME IsStrictPrefix(s, t) PROVE TextLess(s, t)
  <2>1. Len(s) <= Len(t) /\ SubSeq(s, 1, Len(s)) = SubSeq(t, 1, Len(s)) /\ s # t
    BY <1>2 DEF IsStrictPrefix, IsPrefix
  <2>2. \A k \in 1 .. Len(s) : s[k] = t[k]
    BY <1>1, <2>1, StartsAlike
  <2>3. Len(s) < Len(t)
    BY <1>1, <2>1, <2>2, SeqEqual
  <2>4. /\ Len(s) + 1 \in 1 .. Len(t) /\ ~(Len(s) + 1 <= Len(s))
        /\ (Len(s) + 1) - 1 = Len(s)
    BY <1>1, <2>3
  <2>5. \A k \in 1 .. (Len(s) + 1) - 1 : s[k] = t[k]
    BY <2>2, <2>4
  <2>6. Len(s) + 1 <= Len(s) + 1
    BY <1>1
  <2> QED BY <2>4, <2>5, <2>6 DEF TextLess
<1>3. ASSUME NEW i \in 1 .. Len(s), i <= Len(t), s[i] < t[i],
             SubSeq(s, 1, i - 1) = SubSeq(t, 1, i - 1)
      PROVE  TextLess(s, t)
  <2>1. i - 1 \in Nat /\ i - 1 <= Len(s) /\ i - 1 <= Len(t) /\ i \in 1 .. Len(t) /\ i <= Len(s) + 1
    BY <1>1, <1>3
  <2>2. \A k \in 1 .. i - 1 : s[k] = t[k]
    BY <1>3, <2>1, StartsAlike
  <2> QED BY <1>3, <2>1, <2>2 DEF TextLess
<1>4. ASSUME TextLess(s, t) PROVE TextBefore(s, t)
  <2>1. PICK i \in 1 .. Len(t) :
            /\ i <= Len(s) + 1
            /\ \A k \in 1 .. i - 1 : s[k] = t[k]
            /\ i <= Len(s) => s[i] < t[i]
    BY <1>4 DEF TextLess
  <2>2. i - 1 \in Nat /\ i - 1 <= Len(s) /\ i - 1 <= Len(t)
    BY <1>1, <2>1
  <2>3. SubSeq(s, 1, i - 1) = SubSeq(t, 1, i - 1)
    BY <2>1, <2>2, StartsAlike
  <2>4. CASE i <= Len(s)
    <3>1. i \in 1 .. Len(s) /\ i <= Len(t)
      BY <1>1, <2>4
    <3> QED BY <2>1, <2>3, <2>4, <3>1 DEF TextBefore
  <2>5. CASE ~(i <= Len(s))
    <3>1. i - 1 = Len(s) /\ Len(s) <= Len(t) /\ Len(s) # Len(t)
      BY <1>1, <2>1, <2>5
    <3> QED BY <2>3, <3>1 DEF TextBefore, IsStrictPrefix, IsPrefix
  <2> QED BY <2>4, <2>5
<1> QED BY <1>2, <1>3, <1>4 DEF TextBefore

(* It is a strict order, and of two texts one is first.                    *)
LEMMA TextOrderStrict ==
    ASSUME NEW s \in Seq(Int), NEW t \in Seq(Int)
    PROVE  ~TextBefore(s, s) /\ (s = t \/ TextBefore(s, t) \/ TextBefore(t, s))
<1>1. Len(s) \in Nat /\ Len(t) \in Nat
  BY LenProperties
<1>2. ~TextBefore(s, s)
  <2> SUFFICES ASSUME NEW i \in 1 .. Len(s), i <= Len(s) => s[i] < s[i] PROVE FALSE
    BY TextOrder DEF TextLess
  <2>1. i <= Len(s) /\ s[i] \in Int
    BY <1>1, ElementOfSeq
  <2> QED BY <2>1
<1>3. ASSUME s # t PROVE TextBefore(s, t) \/ TextBefore(t, s)
  <2> DEFINE T == {k \in Nat : /\ 1 <= k /\ k <= Len(s) + 1 /\ k <= Len(t) + 1
                               /\ k = Len(s) + 1 \/ k = Len(t) + 1 \/ s[k] # t[k]}
  <2>1. T # {}
    <3>1. CASE Len(s) <= Len(t)
      <4>1. Len(s) + 1 \in T
        BY <1>1, <3>1
      <4> QED BY <4>1
    <3>2. CASE ~(Len(s) <= Len(t))
      <4>1. Len(t) + 1 \in T
        BY <1>1, <3>2
      <4> QED BY <4>1
    <3> QED BY <3>1, <3>2
  <2>2. PICK i \in T : \A k \in T : i <= k
    BY <2>1, LeastNatural
  <2>3. \A k \in 1 .. i - 1 : s[k] = t[k]
    <3> SUFFICES ASSUME NEW k \in 1 .. i - 1, s[k] # t[k] PROVE FALSE
      OBVIOUS
    <3>1. k \in T /\ ~(i <= k)
      <4> DEFINE a == Len(s)
                 b == Len(t)
      <4>1. i \in Nat /\ i <= a + 1 /\ i <= b + 1
        OBVIOUS
      <4>2. a \in Nat /\ b \in Nat
        BY <1>1
      <4> HIDE DEF a, b, T
      <4>3. k \in Nat /\ 1 <= k /\ k <= a + 1 /\ k <= b + 1 /\ ~(i <= k)
        BY <4>1, <4>2
      <4> QED BY <4>3, Zenon DEF T, a, b
    <3> QED BY <2>2, <3>1
  <2>4. \A k \in 1 .. i - 1 : t[k] = s[k]
    BY <2>3
  <2>5. ~(i = Len(s) + 1 /\ i = Len(t) + 1)
    <3> SUFFICES ASSUME i = Len(s) + 1, i = Len(t) + 1 PROVE FALSE
      OBVIOUS
    <3>1. Len(s) = Len(t) /\ \A k \in 1 .. Len(s) : s[k] = t[k]
      BY <1>1, <2>3
    <3> QED BY <1>3, <3>1, SeqEqual
  <2>6. CASE i = Len(s) + 1
    <3>1. i \in 1 .. Len(t) /\ i <= Len(s) + 1 /\ ~(i <= Len(s))
      BY <1>1, <2>2, <2>5, <2>6
    <3>2. TextLess(s, t)
      BY <2>3, <3>1 DEF TextLess
    <3> QED BY <3>2, TextOrder
  <2>7. CASE i = Len(t) + 1
    <3>1. i \in 1 .. Len(s) /\ i <= Len(t) + 1 /\ ~(i <= Len(t))
      BY <1>1, <2>2, <2>5, <2>7
    <3>2. TextLess(t, s)
      BY <2>4, <3>1 DEF TextLess
    <3> QED BY <3>2, TextOrder
  <2>8. CASE i # Len(s) + 1 /\ i # Len(t) + 1
    <3>1. i \in 1 .. Len(s) /\ i \in 1 .. Len(t) /\ s[i] # t[i] /\ i <= Len(s) + 1 /\ i <= Len(t) + 1
      <4> DEFINE a == Len(s)
                 b == Len(t)
      <4>1. i \in Nat /\ 1 <= i /\ i <= a + 1 /\ i <= b + 1
        OBVIOUS
      <4>2. a \in Nat /\ b \in Nat /\ i # a + 1 /\ i # b + 1
        BY <1>1, <2>8
      <4>3. s[i] # t[i]
        BY <2>8, Zenon
      <4> HIDE DEF a, b, T
      <4>4. i \in 1 .. a /\ i \in 1 .. b
        BY <4>1, <4>2
      <4> QED BY <4>1, <4>3, <4>4, Zenon DEF a, b
    <3>2. s[i] \in Int /\ t[i] \in Int
      BY <3>1, ElementOfSeq
    <3>3. s[i] < t[i] \/ t[i] < s[i]
      <4> DEFINE x == s[i]
                 y == t[i]
      <4>1. x \in Int /\ y \in Int /\ x # y
        BY <3>1, <3>2
      <4> HIDE DEF x, y
      <4>2. x < y \/ y < x
        BY <4>1
      <4> QED BY <4>2 DEF x, y
    <3>4. TextLess(s, t) \/ TextLess(t, s)
      BY <2>3, <2>4, <3>1, <3>3 DEF TextLess
    <3> QED BY <3>4, TextOrder
  <2> QED BY <2>6, <2>7, <2>8
<1> QED BY <1>2, <1>3

(* It is transitive.                                                       *)
LEMMA TextOrderTransitive ==
    ASSUME NEW s \in Seq(Int), NEW t \in Seq(Int), NEW u \in Seq(Int),
           TextBefore(s, t), TextBefore(t, u)
    PROVE  TextBefore(s, u)
<1>1. Len(s) \in Nat /\ Len(t) \in Nat /\ Len(u) \in Nat
  BY LenProperties
<1>2. PICK i \in 1 .. Len(t) : /\ i <= Len(s) + 1 /\ \A k \in 1 .. i - 1 : s[k] = t[k]
                               /\ i <= Len(s) => s[i] < t[i]
  BY TextOrder DEF TextLess
<1>3. PICK j \in 1 .. Len(u) : /\ j <= Len(t) + 1 /\ \A k \in 1 .. j - 1 : t[k] = u[k]
                               /\ j <= Len(t) => t[j] < u[j]
  BY TextOrder DEF TextLess
<1>4. PICK n \in Nat : n = (IF i <= j THEN i ELSE j)
  <2>1. i \in Nat /\ j \in Nat
    BY <1>1
  <2> QED BY <2>1
<1>5. n \in 1 .. Len(u) /\ n <= Len(s) + 1
  BY <1>1, <1>2, <1>3, <1>4, SMTT(30)
<1>6. \A k \in 1 .. n - 1 : s[k] = u[k]
  BY <1>2, <1>3, <1>4
<1>7. n <= Len(s) => s[n] < u[n]
  <2> SUFFICES ASSUME n <= Len(s) PROVE s[n] < u[n]
    OBVIOUS
  <2>1. n \in 1 .. Len(s) /\ n \in 1 .. Len(t) /\ n \in 1 .. Len(u)
    BY <1>1, <1>2, <1>4, <1>5
  <2>2. s[n] \in Int /\ t[n] \in Int /\ u[n] \in Int
    BY <2>1, ElementOfSeq
  <2>3. CASE i < j
    <3>1. n = i /\ n \in 1 .. j - 1 /\ n <= Len(s)
      BY <1>1, <1>4, <2>1, <2>3
    <3>2. s[n] < t[n]
      BY <1>2, <3>1
    <3>3. t[n] = u[n]
      BY <1>3, <3>1
    <3> QED BY <3>2, <3>3
  <2>4. CASE j < i
    <3>1. n = j /\ n \in 1 .. i - 1 /\ n <= Len(t)
      BY <1>1, <1>4, <2>1, <2>4
    <3>2. t[n] < u[n]
      BY <1>3, <3>1
    <3>3. s[n] = t[n]
      BY <1>2, <3>1
    <3> QED BY <3>2, <3>3
  <2>5. CASE i = j
    <3>1. n = i /\ n = j /\ n <= Len(s) /\ n <= Len(t)
      BY <1>1, <1>4, <2>1, <2>5
    <3>2. s[n] < t[n]
      BY <1>2, <3>1
    <3>3. t[n] < u[n]
      BY <1>3, <3>1
    <3> DEFINE x == s[n]
               y == t[n]
               z == u[n]
    <3>4. x \in Int /\ y \in Int /\ z \in Int /\ x < y /\ y < z
      BY <2>2, <3>2, <3>3
    <3> HIDE DEF x, y, z
    <3>5. x < z
      BY <3>4
    <3> QED BY <3>5 DEF x, z
  <2> QED BY <1>2, <1>3, <2>3, <2>4, <2>5
<1> QED BY <1>5, <1>6, <1>7, TextOrder DEF TextLess

(* Counted by those before them, the members of a set that is in order     *)
(* make an ascending sequence of all of them.                              *)
RankOrder(S, R) ==
    /\ \A a \in S : <<a, a>> \notin R
    /\ \A a, b \in S : a = b \/ <<a, b>> \in R \/ <<b, a>> \in R
    /\ \A a, b, c \in S : <<a, b>> \in R /\ <<b, c>> \in R => <<a, c>> \in R
Ranking(s, S, R) ==
    /\ s = [i \in 1 .. Cardinality(S) |-> s[i]]
    /\ \A i \in 1 .. Cardinality(S) : \A a \in S :
          Cardinality({b \in S : <<b, a>> \in R}) = i - 1
          => s[i] \in S /\ Cardinality({b \in S : <<b, s[i]>> \in R}) = i - 1

(* Put in the places of their ranks, things come in their order.           *)
LEMMA Ranks ==
    ASSUME NEW S, IsFiniteSet(S), NEW R, RankOrder(S, R), NEW s, Ranking(s, S, R)
    PROVE  /\ s \in Seq(S)
           /\ \A i, j \in 1 .. Len(s) : i < j => <<s[i], s[j]>> \in R
           /\ \A a \in S : \E i \in 1 .. Len(s) : s[i] = a
<1> DEFINE n == Cardinality(S)
           behind(a) == {b \in S : <<b, a>> \in R}
           rank == [a \in S |-> Cardinality(behind(a)) + 1]
<1>1. n \in Nat
  BY FS_CardinalityType
<1>2. ASSUME NEW a \in S PROVE Cardinality(behind(a)) \in Nat /\ Cardinality(behind(a)) < n
  <2>1. behind(a) \in SUBSET S /\ behind(a) # S
    BY DEF RankOrder
  <2>2. IsFiniteSet(behind(a)) /\ Cardinality(behind(a)) <= n /\ Cardinality(behind(a)) # n
    BY <2>1, FS_Subset
  <2>3. Cardinality(behind(a)) \in Nat
    BY <2>2, FS_CardinalityType
  <2> QED BY <1>1, <2>2, <2>3
<1>3. ASSUME NEW a \in S, NEW b \in S, <<a, b>> \in R PROVE rank[a] < rank[b]
  <2>1. behind(a) \in SUBSET behind(b) /\ behind(a) # behind(b) /\ IsFiniteSet(behind(b))
    <3>1. behind(b) \in SUBSET S /\ a \in behind(b) /\ a \notin behind(a)
      BY <1>3 DEF RankOrder
    <3>2. IsFiniteSet(behind(b))
      BY <3>1, FS_Subset
    <3>3. \A c \in behind(a) : c \in behind(b)
      BY <1>3 DEF RankOrder
    <3> QED BY <3>1, <3>2, <3>3
  <2>2. Cardinality(behind(a)) <= Cardinality(behind(b)) /\ Cardinality(behind(a)) # Cardinality(behind(b))
    BY <2>1, FS_Subset
  <2> HIDE DEF behind
  <2> QED BY <1>2, <2>2
<1>4. \A a \in S : rank[a] \in 1 .. n
  <2> HIDE DEF behind, n
  <2> QED BY <1>1, <1>2
<1>5. \A a, b \in S : rank[a] = rank[b] => a = b
  <2> SUFFICES ASSUME NEW a \in S, NEW b \in S, a # b PROVE rank[a] # rank[b]
    OBVIOUS
  <2>1. rank[a] \in Int /\ rank[b] \in Int
    BY <1>4
  <2>2. <<a, b>> \in R \/ <<b, a>> \in R
    BY DEF RankOrder
  <2>3. rank[a] < rank[b] \/ rank[b] < rank[a]
    BY <1>3, <2>2
  <2> HIDE DEF rank
  <2> QED BY <2>1, <2>3
<1>6. rank \in Injection(S, 1 .. n)
  <2>1. rank \in [S -> 1 .. n]
    BY <1>4
  <2> HIDE DEF rank
  <2> QED BY <1>5, <2>1 DEF Injection, IsInjective
<1>7. rank \in Surjection(S, 1 .. n)
  <2>1. IsFiniteSet(1 .. n) /\ Cardinality(1 .. n) = n
    <3> HIDE DEF n
    <3>1. IsFiniteSet(1 .. n) /\ Cardinality(1 .. n) = IF 1 > n THEN 0 ELSE n - 1 + 1
      BY <1>1, FS_Interval
    <3> QED BY <1>1, <3>1
  <2> HIDE DEF rank
  <2> QED BY <1>6, <2>1, FS_Injection
<1>8. ASSUME NEW i \in 1 .. n
      PROVE  s[i] \in S /\ rank[s[i]] = i
  <2>1. PICK a \in S : rank[a] = i
    BY <1>7 DEF Surjection
  <2>2. Cardinality(behind(a)) = i - 1
    <3>1. rank[a] = Cardinality(behind(a)) + 1
      OBVIOUS
    <3> HIDE DEF behind, rank, n
    <3> QED BY <1>1, <1>2, <2>1, <3>1
  <2>4. s[i] \in S /\ Cardinality(behind(s[i])) = i - 1
    BY <2>2 DEF Ranking
  <2>5. rank[s[i]] = (i - 1) + 1
    BY <2>4
  <2>6. (i - 1) + 1 = i
    <3> HIDE DEF n
    <3> QED BY <1>1
  <2> QED BY <2>4, <2>5, <2>6
<1>9. s \in [1 .. n -> S] /\ Len(s) = n
  <2>1. s \in [1 .. n -> S]
    BY <1>8 DEF Ranking
  <2>2. DOMAIN s = 1 .. n
    BY <2>1
  <2> HIDE DEF n
  <2> QED BY <1>1, <2>1, <2>2
<1>10. s \in Seq(S)
  <2> HIDE DEF n
  <2> QED BY <1>1, <1>9
<1>11. ASSUME NEW i \in 1 .. n, NEW j \in 1 .. n, i < j
       PROVE  <<s[i], s[j]>> \in R
  <2> DEFINE a == s[i]
             b == s[j]
  <2>1. a \in S /\ b \in S /\ rank[a] = i /\ rank[b] = j
    BY <1>8
  <2> HIDE DEF a, b, n
  <2>2. i # j /\ ~(j < i) /\ i \in Int /\ j \in Int
    BY <1>11, <1>1
  <2>3. <<b, a>> \notin R
    BY <1>3, <2>1, <2>2
  <2>4. a # b
    BY <2>1, <2>2
  <2>5. <<a, b>> \in R
    BY <2>1, <2>3, <2>4 DEF RankOrder
  <2> QED BY <2>5 DEF a, b
<1>12. ASSUME NEW a \in S PROVE \E i \in 1 .. n : s[i] = a
  <2>1. rank[a] \in 1 .. n
    BY <1>4
  <2>2. s[rank[a]] \in S /\ rank[s[rank[a]]] = rank[a]
    BY <1>8, <2>1
  <2>3. s[rank[a]] = a
    BY <1>5, <2>2
  <2> QED BY <2>1, <2>3
<1> HIDE DEF n, rank
<1> QED BY <1>9, <1>10, <1>11, <1>12 DEF n

----------------------------------------------------------------------------
(* Tables, and the partitions a scan goes through.                         *)

(* What is known of a table: TableAssumption, of the one that is queried.  *)
LEMMA TableIs ==
    ASSUME table \in Tables
    PROVE  /\ table.scheme \in Schemes /\ IsFiniteSet(Names)
           /\ table.scheme = "none" => Names = {Root}
           /\ \A p \in Names : NameText(p) \in Seq(Int)
           /\ \A p, q \in Names : NameText(p) = NameText(q) => p = q
<1>1. \A p, q \in Names : NameText(p) \in Seq(Int) /\ (NameText(p) = NameText(q) => p = q)
  BY TableAssumption DEF Names, Datasets
<1>2. table.scheme \in Schemes /\ IsFiniteSet(Names) /\ (table.scheme = "none" => Names # {})
  BY TableAssumption DEF Names, Datasets
<1>3. ASSUME NEW p \in Names, table.scheme = "none" PROVE p = Root
  <2>1. /\ Len(table.parts[p].rows) \in Nat \ {0}
        /\ DOMAIN table.parts[p].rows = 1 .. Len(table.parts[p].rows)
        /\ \A i \in DOMAIN table.parts[p].rows :
              PartitionName(table.scheme, table.parts[p].rows[i].time, "date32") = p
    BY TableAssumption DEF Names, Datasets
  <2>2. 1 \in DOMAIN table.parts[p].rows
    BY <2>1
  <2>3. PartitionName("none", table.parts[p].rows[1].time, "date32") = p
    BY <1>3, <2>1, <2>2
  <2> QED BY <2>3 DEF PartitionName, NameOf, Root
<1> QED BY <1>1, <1>2, <1>3

(* Its rows.                                                               *)
LEMMA RowsAre ==
    ASSUME table \in Tables, NEW p \in Names
    PROVE  LET rows == Datasets[p].rows
           IN  /\ Len(rows) \in Nat \ {0}
               /\ \A i \in 1 .. Len(rows) :
                     rows[i].time \in Int /\ PartitionName(table.scheme, rows[i].time, "date32") = p
<1>1. /\ Len(table.parts[p].rows) \in Nat \ {0}
      /\ DOMAIN table.parts[p].rows = 1 .. Len(table.parts[p].rows)
      /\ \A i \in DOMAIN table.parts[p].rows :
            /\ table.parts[p].rows[i].time \in Int
            /\ PartitionName(table.scheme, table.parts[p].rows[i].time, "date32") = p
  BY TableAssumption DEF Names, Datasets
<1> QED BY <1>1 DEF Datasets

(* The first of them.                                                      *)
LEMMA FirstTimeIs ==
    ASSUME table \in Tables, NEW p \in Names
    PROVE  FirstTime(p) \in Int /\ PartitionName(table.scheme, FirstTime(p), "date32") = p
<1>1. 1 \in 1 .. Len(Datasets[p].rows)
  BY RowsAre
<1> QED BY <1>1, RowsAre DEF FirstTime

(* The days of a partition hold the times of its rows and of no others.    *)
HasDays(p) ==
    /\ Days(p) = <<Days(p)[1], Days(p)[2]>> /\ Days(p)[1] \in Int /\ Days(p)[2] \in Int
    /\ \A w \in Int : Days(p)[1] <= w /\ w < Days(p)[2] <=> PartitionName(table.scheme, w, "date32") = p

(* The days of a partition with rows are those of its name.                *)
LEMMA DaysAre ==
    ASSUME table \in Tables, NEW p \in Names, table.scheme # "none", Days(p) # None
    PROVE  HasDays(p)
<1> DEFINE v == FirstTime(p)
           s == table.scheme
           c == CivilFromDays(v)
<1>1. v \in Int /\ PartitionName(s, v, "date32") = p /\ s \in Schemes \ {"none"}
  BY FirstTimeIs, TableIs
<1>2. \A w : PartitionName(s, w, "date32") = NameOf(s, CivilFromDays(w))
  BY DEF PartitionName, ValueToDays
<1>3. p = NameOf(s, c)
  BY <1>1, <1>2
<1> HIDE DEF v, s, c
<1>4. p.scheme = s /\ p.y = c.y
  BY <1>1, <1>3 DEF NameOf, Schemes
<1>5. s = "year" \/ ~(c.y < 0)
  <2> SUFFICES ASSUME s # "year", c.y < 0 PROVE FALSE
    OBVIOUS
  <2>1. PartitionDays(s, p) = None
    BY <1>4 DEF PartitionDays
  <2>2. Days(p) = None
    BY <2>1 DEF Days, PartitionRange, ValuesOf, s
  <2> QED BY <2>2
<1>6. PICK lo, hi \in Int :
         /\ PartitionDays(s, p) = <<lo, hi>>
         /\ \A day \in Int : lo <= day /\ ~(hi <= day) <=> NameOf(s, CivilFromDays(day)) = p
  <2>1. \E lo, hi \in Int :
          /\ PartitionDays(s, NameOf(s, CivilFromDays(v))) = <<lo, hi>>
          /\ \A day \in Int :
                lo <= day /\ ~(hi <= day) <=> NameOf(s, CivilFromDays(day)) = NameOf(s, CivilFromDays(v))
    BY <1>1, <1>5, DaysOfName DEF c
  <2> QED BY <1>3, <2>1 DEF c
<1>7. Days(p) = <<lo, hi>>
  <2>1. <<lo, hi>> # None
    BY NoRangeAssumption
  <2>2. ValuesOf(<<lo, hi>>, "date32") = <<lo, hi>>
    BY <2>1 DEF ValuesOf, DaysToValue
  <2>3. Days(p) = ValuesOf(PartitionDays(s, p), "date32")
    BY DEF Days, PartitionRange, s
  <2> QED BY <1>6, <2>2, <2>3
<1>8. Days(p)[1] = lo /\ Days(p)[2] = hi
  BY <1>7
<1>9. ASSUME NEW w \in Int
      PROVE  Days(p)[1] <= w /\ w < Days(p)[2] <=> PartitionName(table.scheme, w, "date32") = p
  <2>1. w < hi <=> ~(hi <= w)
    OBVIOUS
  <2>2. lo <= w /\ ~(hi <= w) <=> NameOf(s, CivilFromDays(w)) = p
    BY <1>6
  <2>3. NameOf(s, CivilFromDays(w)) = PartitionName(table.scheme, w, "date32")
    BY <1>2 DEF s
  <2> QED BY <1>8, <2>1, <2>2, <2>3
<1> QED BY <1>7, <1>8, <1>9 DEF HasDays

(* The times of its rows lie in them.                                      *)
LEMMA RowsInDays ==
    ASSUME table \in Tables, NEW p \in Names, HasDays(p), NEW i \in 1 .. Len(Datasets[p].rows)
    PROVE  Days(p)[1] <= Datasets[p].rows[i].time /\ Datasets[p].rows[i].time < Days(p)[2]
BY RowsAre DEF HasDays

(* Partitions follow each other in time.                                   *)
LEMMA DaysApart ==
    ASSUME table \in Tables, NEW p \in Names, NEW q \in Names, HasDays(p), HasDays(q)
    PROVE  /\ Days(p)[1] < Days(p)[2]
           /\ p = q \/ Days(p)[2] <= Days(q)[1] \/ Days(q)[2] <= Days(p)[1]
<1>1. ASSUME NEW x \in Names, HasDays(x)
      PROVE  Days(x)[1] <= FirstTime(x) /\ FirstTime(x) < Days(x)[2]
  BY <1>1, FirstTimeIs DEF HasDays
<1>2. FirstTime(p) \in Int /\ FirstTime(q) \in Int
  BY FirstTimeIs
<1>3. /\ Days(p)[1] \in Int /\ Days(p)[2] \in Int /\ Days(q)[1] \in Int /\ Days(q)[2] \in Int
      /\ Days(p)[1] < Days(p)[2] /\ Days(q)[1] < Days(q)[2]
  BY <1>1, <1>2 DEF HasDays
<1>4. ASSUME NEW w \in Int, Days(p)[1] <= w, w < Days(p)[2], Days(q)[1] <= w, w < Days(q)[2]
      PROVE  p = q
  BY <1>4 DEF HasDays
<1>5. PICK a, b, c, d \in Int : a = Days(p)[1] /\ b = Days(p)[2] /\ c = Days(q)[1] /\ d = Days(q)[2]
  BY <1>3
<1>6. CASE a <= c
  BY <1>3, <1>4, <1>5, <1>6
<1>7. CASE ~(a <= c)
  BY <1>3, <1>4, <1>5, <1>7
<1> QED BY <1>3, <1>6, <1>7

(* So do their rows.                                                       *)
LEMMA DaysTellTimes ==
    ASSUME table \in Tables, NEW p \in Names, NEW q \in Names, HasDays(p), HasDays(q),
           Days(p)[2] <= Days(q)[1]
    PROVE  FirstTime(p) < FirstTime(q)
<1>1. /\ Days(p)[1] <= FirstTime(p) /\ FirstTime(p) < Days(p)[2]
      /\ Days(q)[1] <= FirstTime(q) /\ FirstTime(q) < Days(q)[2]
  BY FirstTimeIs DEF HasDays
<1> QED BY <1>1, FirstTimeIs DEF HasDays

(* Where the partitions of a scan come from.                               *)
Whole == IF table.scheme = "none" THEN Names ELSE there

(* discover_partitions: every partition that is there, in the order of     *)
(* names.                                                                  *)
LEMMA DiscoveredAre ==
    ASSUME table \in Tables, there \subseteq Names
    PROVE  /\ Discovered \in Seq(Whole)
           /\ \A i, j \in 1 .. Len(Discovered) :
                 i < j => TextBefore(NameText(Discovered[i]), NameText(Discovered[j]))
           /\ \A p \in Whole : \E i \in 1 .. Len(Discovered) : Discovered[i] = p
<1>1. CASE table.scheme = "none"
  <2>1. Discovered = <<Root>> /\ Whole = {Root}
    BY <1>1, TableIs DEF Discovered, Whole
  <2> QED BY <2>1
<1>2. CASE table.scheme # "none"
  <2> DEFINE R == {ab \in there \X there : TextBefore(NameText(ab[1]), NameText(ab[2]))}
  <2>1. Discovered = InNameOrder(there) /\ Whole = there
    BY <1>2 DEF Discovered, Whole
  <2>2. \A a \in there : {b \in there : TextBefore(NameText(b), NameText(a))} = {b \in there : <<b, a>> \in R}
    OBVIOUS
  <2> DEFINE s == InNameOrder(there)
  <2>3. Ranking(s, there, R)
    <3>1. s = [i \in 1 .. Cardinality(there) |-> s[i]]
      BY DEF InNameOrder
    <3>2. ASSUME NEW i \in 1 .. Cardinality(there), NEW a \in there,
                 Cardinality({b \in there : <<b, a>> \in R}) = i - 1
          PROVE  s[i] \in there /\ Cardinality({b \in there : <<b, s[i]>> \in R}) = i - 1
      <4> HIDE DEF R
      <4>1. Cardinality({b \in there : TextBefore(NameText(b), NameText(a))}) = i - 1
        BY <2>2, <3>2
      <4>2. s[i] = CHOOSE x \in there :
                Cardinality({b \in there : TextBefore(NameText(b), NameText(x))}) = i - 1
        BY DEF InNameOrder
      <4>3. /\ s[i] \in there
            /\ Cardinality({b \in there : TextBefore(NameText(b), NameText(s[i]))}) = i - 1
        BY <4>1, <4>2
      <4> QED BY <2>2, <4>3
    <3> HIDE DEF s, R
    <3> QED BY <3>1, <3>2 DEF Ranking
  <2>4. IsFiniteSet(there) /\ \A p \in there : NameText(p) \in Seq(Int)
    BY TableIs, FS_Subset
  <2>5. RankOrder(there, R)
    <3>1. \A a \in there : <<a, a>> \notin R
      BY <2>4, TextOrderStrict
    <3>2. \A a, b \in there : a = b \/ <<a, b>> \in R \/ <<b, a>> \in R
      BY <2>4, TextOrderStrict, TableIs
    <3>3. ASSUME NEW a \in there, NEW b \in there, NEW c \in there, <<a, b>> \in R, <<b, c>> \in R
          PROVE  <<a, c>> \in R
      <4>1. TextBefore(NameText(a), NameText(b)) /\ TextBefore(NameText(b), NameText(c))
        BY <3>3
      <4>2. TextBefore(NameText(a), NameText(c))
        BY <2>4, <4>1, TextOrderTransitive
      <4> QED BY <4>2
    <3> HIDE DEF R
    <3> QED BY <3>1, <3>2, <3>3 DEF RankOrder
  <2>6. \A a, b : <<a, b>> \in R => TextBefore(NameText(a), NameText(b))
    OBVIOUS
  <2> HIDE DEF R, s
  <2>7. /\ s \in Seq(there)
        /\ \A i, j \in 1 .. Len(s) : i < j => <<s[i], s[j]>> \in R
        /\ \A a \in there : \E i \in 1 .. Len(s) : s[i] = a
    BY <2>3, <2>4, <2>5, Ranks
  <2>8. Discovered = s
    BY <2>1 DEF s
  <2> QED BY <2>1, <2>6, <2>7, <2>8
<1> QED BY <1>1, <1>2

(* Partitions in the order of time.                                        *)
Timely(parts, names) ==
    /\ parts \in Seq(names)
    /\ \A i \in 1 .. Len(parts) : HasDays(parts[i])
    /\ \A i, j \in 1 .. Len(parts) : i < j => Days(parts[i])[2] <= Days(parts[j])[1]

(* Pruned's sort puts partitions with days in the order of time, all of    *)
(* them.                                                                   *)
LEMMA InTimeOrderIs ==
    ASSUME table \in Tables, NEW names \in SUBSET Names, \A p \in names : HasDays(p)
    PROVE  /\ Timely(InTimeOrder(names), names)
           /\ \A p \in names : \E i \in 1 .. Len(InTimeOrder(names)) : InTimeOrder(names)[i] = p
<1> DEFINE R == {ab \in names \X names : Days(ab[1])[1] < Days(ab[2])[1]}
<1>1. \A a \in names : {b \in names : Days(b)[1] < Days(a)[1]} = {b \in names : <<b, a>> \in R}
  OBVIOUS
<1> DEFINE seq == InTimeOrder(names)
<1>2. Ranking(seq, names, R)
  <2>1. seq = [i \in 1 .. Cardinality(names) |-> seq[i]]
    <3> DEFINE g(i) == CHOOSE p \in names : Cardinality({q \in names : Days(q)[1] < Days(p)[1]}) = i - 1
               m == Cardinality(names)
    <3>1. seq = [i \in 1 .. m |-> g(i)]
      BY DEF InTimeOrder
    <3> HIDE DEF g, m, seq
    <3>2. seq = [i \in 1 .. m |-> seq[i]]
      BY <3>1
    <3> QED BY <3>2 DEF m
  <2>2. ASSUME NEW i \in 1 .. Cardinality(names), NEW a \in names,
               Cardinality({b \in names : <<b, a>> \in R}) = i - 1
        PROVE  seq[i] \in names /\ Cardinality({b \in names : <<b, seq[i]>> \in R}) = i - 1
    <3> HIDE DEF R
    <3>1. Cardinality({b \in names : Days(b)[1] < Days(a)[1]}) = i - 1
      BY <1>1, <2>2
    <3>2. seq[i] = CHOOSE x \in names : Cardinality({b \in names : Days(b)[1] < Days(x)[1]}) = i - 1
      BY DEF InTimeOrder
    <3>3. seq[i] \in names /\ Cardinality({b \in names : Days(b)[1] < Days(seq[i])[1]}) = i - 1
      BY <3>1, <3>2
    <3> QED BY <1>1, <3>3
  <2> HIDE DEF seq, R
  <2> QED BY <2>1, <2>2 DEF Ranking
<1>3. IsFiniteSet(names) /\ \A p \in names : Days(p)[1] \in Int /\ Days(p)[2] \in Int
  BY TableIs, FS_Subset DEF HasDays
<1>4. \A a, b \in names : /\ Days(a)[1] < Days(a)[2]
                          /\ a = b \/ Days(a)[2] <= Days(b)[1] \/ Days(b)[2] <= Days(a)[1]
  BY DaysApart
<1>5. RankOrder(names, R)
  <2>1. \A a \in names : <<a, a>> \notin R
    BY <1>3
  <2>2. \A a, b \in names : a = b \/ <<a, b>> \in R \/ <<b, a>> \in R
    BY <1>3, <1>4
  <2>3. \A a, b, c \in names : <<a, b>> \in R /\ <<b, c>> \in R => <<a, c>> \in R
    BY <1>3
  <2> HIDE DEF R
  <2> QED BY <2>1, <2>2, <2>3 DEF RankOrder
<1>6. \A a, b \in names : <<a, b>> \in R => Days(a)[2] <= Days(b)[1]
  BY <1>3, <1>4
<1> HIDE DEF R, seq
<1>7. /\ seq \in Seq(names)
      /\ \A i, j \in 1 .. Len(seq) : i < j => <<seq[i], seq[j]>> \in R
      /\ \A p \in names : \E i \in 1 .. Len(seq) : seq[i] = p
  BY <1>2, <1>3, <1>5, Ranks
<1>8. \A i \in 1 .. Len(seq) : seq[i] \in names
  BY <1>7, ElementOfSeq
<1>9. Timely(seq, names)
  BY <1>6, <1>7, <1>8 DEF Timely
<1> QED BY <1>7, <1>9 DEF seq

(* A part of them.                                                         *)
PartOf(e, parts, b, c) ==
    /\ \A i \in 1 .. Len(e) : e[i] = parts[b + i - 1] /\ b + i - 1 \in b .. c /\ b + i - 1 \in 1 .. Len(parts)
    /\ \A i \in b .. c : \E k \in 1 .. Len(e) : e[k] = parts[i]

(* Some in a row of partitions in the order of time are in it, too.        *)
LEMMA TimelyPart ==
    ASSUME table \in Tables, NEW names \in SUBSET Names, NEW parts, Timely(parts, names),
           NEW b \in Nat, NEW c \in Nat, 1 <= b, b <= Len(parts) + 1, c <= Len(parts)
    PROVE  Timely(SubSeq(parts, b, c), names) /\ PartOf(SubSeq(parts, b, c), parts, b, c)
<1>1. parts \in Seq(names) /\ Len(parts) \in Nat
  BY LenProperties DEF Timely
<1>2. \A i \in b .. c : parts[i] \in names
  BY <1>1, ElementOfSeq
<1> DEFINE s == SubSeq(parts, b, c)
<1>3. /\ s \in Seq(names) /\ Len(s) = (IF b <= c THEN c - b + 1 ELSE 0)
      /\ \A i \in 1 .. c - b + 1 : s[i] = parts[b + i - 1]
  BY <1>2, SubSeqProperties
<1> HIDE DEF s
<1>4. \A i \in 1 .. Len(s) : /\ s[i] = parts[b + i - 1]
                             /\ b + i - 1 \in b .. c /\ b + i - 1 \in 1 .. Len(parts)
  BY <1>1, <1>3
<1>5. ASSUME NEW i \in b .. c PROVE \E k \in 1 .. Len(s) : s[k] = parts[i]
  <2>1. i - b + 1 \in 1 .. Len(s) /\ i - b + 1 \in 1 .. c - b + 1 /\ b + (i - b + 1) - 1 = i
    BY <1>3
  <2> QED BY <1>3, <2>1
<1>6. \A i \in 1 .. Len(s) : HasDays(s[i])
  BY <1>4 DEF Timely
<1>7. ASSUME NEW i \in 1 .. Len(s), NEW j \in 1 .. Len(s), i < j
      PROVE  Days(s[i])[2] <= Days(s[j])[1]
  <2>1. b + i - 1 < b + j - 1
    BY <1>3, <1>7
  <2> QED BY <1>4, <2>1 DEF Timely
<1>8. Timely(s, names) /\ PartOf(s, parts, b, c)
  BY <1>3, <1>4, <1>5, <1>6, <1>7 DEF Timely, PartOf
<1> QED BY <1>8 DEF s

(* In partitions in the order of time, the days end in the order in which  *)
(* they begin.                                                             *)
LEMMA TimelyDays ==
    ASSUME table \in Tables, NEW names \in SUBSET Names, NEW parts, Timely(parts, names),
           NEW i \in 1 .. Len(parts), NEW j \in 1 .. Len(parts), i < j
    PROVE  /\ Days(parts[i])[1] \in Int /\ Days(parts[i])[2] \in Int
           /\ Days(parts[j])[1] \in Int /\ Days(parts[j])[2] \in Int
           /\ Days(parts[i])[1] < Days(parts[i])[2] /\ Days(parts[i])[2] <= Days(parts[j])[1]
           /\ Days(parts[j])[1] < Days(parts[j])[2]
<1>1. parts[i] \in Names /\ parts[j] \in Names
  BY ElementOfSeq DEF Timely
<1>2. HasDays(parts[i]) /\ HasDays(parts[j]) /\ Days(parts[i])[2] <= Days(parts[j])[1]
  BY DEF Timely
<1> QED BY <1>1, <1>2, DaysApart DEF HasDays

(* partition_point: those that end behind a time, and no others.           *)
LEMMA EndingAfterIs ==
    ASSUME table \in Tables, NEW names \in SUBSET Names, NEW parts, Timely(parts, names), NEW lo \in Int
    PROVE  LET e == EndingAfter(parts, lo)
           IN  /\ Timely(e, names)
               /\ \A i \in 1 .. Len(e) : Days(e[i])[2] > lo
               /\ \A i \in 1 .. Len(parts) :
                     Days(parts[i])[2] > lo => \E k \in 1 .. Len(e) : e[k] = parts[i]
<1> DEFINE T == {i \in DOMAIN parts : Days(parts[i])[2] > lo} \cup {Len(parts) + 1}
           b == FirstOf(T)
           e == EndingAfter(parts, lo)
<1>1. Len(parts) \in Nat /\ DOMAIN parts = 1 .. Len(parts)
  BY LenProperties DEF Timely
<1>2. T \in SUBSET Nat /\ T # {}
  BY <1>1
<1>3. b \in T /\ \A x \in T : b <= x
  <2> HIDE DEF T
  <2> QED BY <1>2, FirstIs
<1>4. b \in Nat /\ 1 <= b /\ b <= Len(parts) + 1
  <2>1. (\A x \in T : 1 <= x) /\ Len(parts) + 1 \in T
    BY <1>1
  <2> HIDE DEF b, T
  <2> QED BY <1>2, <1>3, <2>1
<1>5. e = SubSeq(parts, b, Len(parts))
  BY DEF EndingAfter
<1>6. ASSUME NEW i \in b .. Len(parts) PROVE Days(parts[i])[2] > lo
  <2>1. b \in 1 .. Len(parts) /\ i \in 1 .. Len(parts) /\ b # Len(parts) + 1
    BY <1>1, <1>4
  <2>2. Days(parts[b])[2] > lo
    BY <1>3, <2>1
  <2>3. CASE i = b
    BY <2>2, <2>3
  <2>4. CASE i # b
    <3>1. b < i
      BY <1>4, <2>4
    <3> HIDE DEF b
    <3> QED BY <2>1, <2>2, <3>1, TimelyDays, SMTT(30)
  <2> QED BY <2>3, <2>4
<1>7. ASSUME NEW i \in 1 .. Len(parts), Days(parts[i])[2] > lo PROVE i \in b .. Len(parts)
  <2>1. i \in T
    BY <1>1, <1>7
  <2> HIDE DEF b, T
  <2> QED BY <1>1, <1>3, <1>4, <2>1
<1> HIDE DEF b, e
<1>8. /\ Timely(e, names)
      /\ \A i \in 1 .. Len(e) : e[i] = parts[b + i - 1] /\ b + i - 1 \in b .. Len(parts)
      /\ \A i \in b .. Len(parts) : \E k \in 1 .. Len(e) : e[k] = parts[i]
  <2>1. Len(parts) <= Len(parts)
    BY <1>1
  <2>2. Timely(e, names) /\ PartOf(e, parts, b, Len(parts))
    BY <1>1, <1>4, <1>5, <2>1, TimelyPart
  <2> QED BY <2>2 DEF PartOf
<1>9. \A i \in 1 .. Len(e) : Days(e[i])[2] > lo
  BY <1>6, <1>8
<1> QED BY <1>7, <1>8, <1>9 DEF e

(* take_while: those that start before a time, and no others.              *)
Begun(e, parts, hi) ==
    /\ \A i \in 1 .. Len(e) : Days(e[i])[1] < hi /\ \E k \in 1 .. Len(parts) : e[i] = parts[k]
    /\ \A i \in 1 .. Len(parts) : Days(parts[i])[1] < hi => \E k \in 1 .. Len(e) : e[k] = parts[i]

(* The last partitions that start too late are dropped, and no others.     *)
LEMMA StartingBeforeIs ==
    ASSUME table \in Tables, NEW names \in SUBSET Names, NEW parts, Timely(parts, names), NEW hi \in Int
    PROVE  Timely(StartingBefore(parts, hi), names) /\ Begun(StartingBefore(parts, hi), parts, hi)
<1> DEFINE T == {i \in DOMAIN parts : Days(parts[i])[1] >= hi} \cup {Len(parts) + 1}
           b == FirstOf(T)
           e == StartingBefore(parts, hi)
<1>1. Len(parts) \in Nat /\ DOMAIN parts = 1 .. Len(parts)
  BY LenProperties DEF Timely
<1>2. T \in SUBSET Nat /\ T # {}
  BY <1>1
<1>3. b \in T /\ \A x \in T : b <= x
  <2> HIDE DEF T
  <2> QED BY <1>2, FirstIs
<1>4. b \in Nat /\ 1 <= b /\ b <= Len(parts) + 1 /\ b - 1 \in Nat /\ b - 1 <= Len(parts)
  <2>1. (\A x \in T : 1 <= x) /\ Len(parts) + 1 \in T
    BY <1>1
  <2> HIDE DEF b, T
  <2>2. b \in Nat /\ 1 <= b /\ b <= Len(parts) + 1
    BY <1>2, <1>3, <2>1
  <2> QED BY <1>1, <2>2
<1>5. e = SubSeq(parts, 1, b - 1)
  BY DEF StartingBefore
<1>6. ASSUME NEW i \in 1 .. b - 1 PROVE Days(parts[i])[1] < hi
  <2>1. i \in DOMAIN parts /\ ~(b <= i)
    BY <1>1, <1>4
  <2>2. ~(Days(parts[i])[1] >= hi)
    BY <1>3, <2>1
  <2>3. Days(parts[i])[1] \in Int
    BY <1>1, <2>1 DEF Timely, HasDays
  <2> QED BY <2>2, <2>3
<1>7. ASSUME NEW i \in 1 .. Len(parts), Days(parts[i])[1] < hi PROVE i \in 1 .. b - 1
  <2>1. CASE b = Len(parts) + 1
    BY <1>1, <2>1
  <2>2. CASE b # Len(parts) + 1
    <3>1. b \in 1 .. Len(parts) /\ Days(parts[b])[1] >= hi
      BY <1>1, <1>3, <2>2
    <3>2. i # b /\ ~(b < i)
      <4> HIDE DEF b
      <4>1. Days(parts[b])[1] \in Int /\ Days(parts[i])[1] \in Int
        BY <3>1 DEF Timely, HasDays
      <4>2. b < i => Days(parts[b])[1] < Days(parts[i])[1]
        BY <3>1, TimelyDays
      <4> QED BY <1>7, <3>1, <4>1, <4>2
    <3> HIDE DEF b
    <3> QED BY <1>1, <1>4, <3>2
  <2> QED BY <2>1, <2>2
<1> HIDE DEF b, e
<1>8. /\ Timely(e, names)
      /\ \A i \in 1 .. Len(e) : /\ e[i] = parts[1 + i - 1]
                                /\ 1 + i - 1 \in 1 .. b - 1 /\ 1 + i - 1 \in 1 .. Len(parts)
      /\ \A i \in 1 .. b - 1 : \E k \in 1 .. Len(e) : e[k] = parts[i]
  <2>1. 1 \in Nat /\ 1 <= 1 /\ 1 <= Len(parts) + 1
    BY <1>1
  <2>2. Timely(e, names) /\ PartOf(e, parts, 1, b - 1)
    BY <1>4, <1>5, <2>1, TimelyPart
  <2> QED BY <2>2 DEF PartOf
<1>9. \A i \in 1 .. Len(e) : Days(e[i])[1] < hi /\ \E k \in 1 .. Len(parts) : e[i] = parts[k]
  BY <1>6, <1>8
<1>10. Begun(e, parts, hi)
  BY <1>7, <1>8, <1>9 DEF Begun
<1> QED BY <1>8, <1>10 DEF e

(* scan_table with a time: the partitions whose days meet it, in order.    *)
LEMMA PrunedAre ==
    ASSUME table \in Tables, there \subseteq Names, NEW lo \in Int, NEW hi \in Int,
           Pruned(lo, hi) # Unset
    PROVE  LET e == Pruned(lo, hi)
           IN  /\ Timely(e, Whole)
               /\ \A i \in 1 .. Len(e) : Days(e[i])[1] < hi /\ lo < Days(e[i])[2]
               /\ \A p \in Whole : /\ HasDays(p)
                                   /\ Days(p)[1] < hi /\ lo < Days(p)[2] =>
                                         \E k \in 1 .. Len(e) : e[k] = p
<1> DEFINE names == Range(Discovered)
           a == InTimeOrder(names)
           b == EndingAfter(a, lo)
           e == StartingBefore(b, hi)
<1>1. /\ Discovered # <<>> /\ \A i \in DOMAIN Discovered : Days(Discovered[i]) # None
      /\ Pruned(lo, hi) = e
  BY DEF Pruned
<1>2. Discovered \in Seq(Whole) /\ DOMAIN Discovered = 1 .. Len(Discovered)
  BY DiscoveredAre, LenProperties
<1>3. names = Whole
  <2>1. \A p \in Whole : \E i \in DOMAIN Discovered : Discovered[i] = p
    BY <1>2, DiscoveredAre
  <2>2. \A i \in DOMAIN Discovered : Discovered[i] \in Whole
    BY <1>2, ElementOfSeq
  <2> QED BY <2>1, <2>2 DEF Range
<1>4. Whole \in SUBSET Names
  BY DEF Whole
<1>5. table.scheme # "none"
  <2> SUFFICES ASSUME table.scheme = "none" PROVE FALSE
    OBVIOUS
  <2>1. Discovered = <<Root>>
    BY DEF Discovered
  <2>2. Days(Root) = None
    BY DEF Days, PartitionRange, PartitionDays, ValuesOf
  <2>3. Days(Discovered[1]) = None /\ 1 \in DOMAIN Discovered
    BY <2>1, <2>2
  <2> QED BY <1>1, <2>3
<1>6. \A p \in Whole : HasDays(p)
  <2> SUFFICES ASSUME NEW p \in Whole PROVE HasDays(p)
    OBVIOUS
  <2>1. PICK i \in DOMAIN Discovered : Discovered[i] = p
    BY <1>2, DiscoveredAre
  <2>2. Days(p) # None /\ p \in Names
    BY <1>1, <1>4, <2>1
  <2> QED BY <1>5, <2>2, DaysAre
<1> HIDE DEF names
<1>7. Timely(a, Whole) /\ \A p \in Whole : \E i \in 1 .. Len(a) : a[i] = p
  BY <1>3, <1>4, <1>6, InTimeOrderIs
<1> HIDE DEF a
<1>8. /\ Timely(b, Whole) /\ \A i \in 1 .. Len(b) : Days(b[i])[2] > lo
      /\ \A i \in 1 .. Len(a) : Days(a[i])[2] > lo => \E k \in 1 .. Len(b) : b[k] = a[i]
  BY <1>4, <1>7, EndingAfterIs
<1> HIDE DEF b
<1> HIDE DEF e
<1>9. /\ Timely(e, Whole)
      /\ \A i \in 1 .. Len(e) : Days(e[i])[1] < hi /\ \E k \in 1 .. Len(b) : e[i] = b[k]
      /\ \A i \in 1 .. Len(b) : Days(b[i])[1] < hi => \E k \in 1 .. Len(e) : e[k] = b[i]
  <2>1. e = StartingBefore(b, hi)
    BY DEF e
  <2>2. Timely(e, Whole) /\ Begun(e, b, hi)
    BY <1>4, <1>8, <2>1, StartingBeforeIs
  <2> QED BY <2>2 DEF Begun
<1>10. ASSUME NEW i \in 1 .. Len(e) PROVE lo < Days(e[i])[2]
  <2>1. PICK k \in 1 .. Len(b) : e[i] = b[k]
    BY <1>9
  <2>2. Days(e[i])[2] > lo /\ Days(e[i])[2] \in Int
    BY <1>8, <2>1 DEF Timely, HasDays
  <2> QED BY <2>2
<1>11. ASSUME NEW p \in Whole, Days(p)[1] < hi, lo < Days(p)[2]
       PROVE  \E k \in 1 .. Len(e) : e[k] = p
  <2>1. Days(p)[2] > lo
    BY <1>6, <1>11 DEF HasDays
  <2>2. PICK k \in 1 .. Len(a) : a[k] = p
    BY <1>7
  <2>3. PICK m \in 1 .. Len(b) : b[m] = p
    BY <1>8, <2>1, <2>2
  <2> QED BY <1>9, <1>11, <2>3
<1> QED BY <1>1, <1>6, <1>9, <1>10, <1>11

----------------------------------------------------------------------------
(* What is asked for, as it does not depend on the state.                  *)
PrecedesIn(t, r, p, q) ==
    IF r.time = Unset THEN TextBefore(NameText(p), NameText(q))
    ELSE t.parts[p].rows[1].time < t.parts[q].rows[1].time
RowPrecedes(t, r, a, b) == IF a[1] = b[1] THEN a[2] < b[2] ELSE PrecedesIn(t, r, a[1], b[1])
Follow(t, r, A, B) == \A a \in A, b \in B : RowPrecedes(t, r, a, b)
RowsAsked(t, r, p) == {Row(p, k) : k \in Wanted[t][r][p]}
Stretch(p, o, n) == {Row(p, k) : k \in o .. o + n - 1}
RowsAt(p, ranges) == {Row(p, k) : k \in RowsIn(ranges)}

(* Where a query is: the partitions from next on are ahead, those ranges   *)
(* are left of cur, and of the rows asked for, ans, the rows S have been   *)
(* handed out and not been lost.                                           *)
PartsOk(t, r, parts, next, ans) ==
    /\ parts \in Seq(DOMAIN t.parts) /\ next \in 1 .. Len(parts) + 1
    /\ \A i, j \in 1 .. Len(parts) : i < j => PrecedesIn(t, r, parts[i], parts[j])
    /\ \A i \in 1 .. Len(parts) : RowsAsked(t, r, parts[i]) \subseteq ans
    /\ IsFiniteSet(ans) /\ ans \subseteq (DOMAIN t.parts) \X Nat

RangesOk(parts, next, cur, ranges, ans) ==
    /\ ranges \in Seq(Nat \X Nat) /\ Ascending(ranges)
    /\ ranges # <<>> => next > 1 /\ cur = parts[next - 1] /\ RowsAt(cur, ranges) \subseteq ans

Behind(t, r, parts, next, cur, ranges, S) ==
    /\ \A a \in S : \A i \in next .. Len(parts) : PrecedesIn(t, r, a[1], parts[i])
    /\ \A a \in S : \A b \in RowsAt(cur, ranges) : RowPrecedes(t, r, a, b)

CountOk(r, left, S, f) ==
    IF r.limit = Unset THEN left = Unset
    ELSE /\ left \in Nat /\ Cardinality(S) + left <= r.limit
         /\ ~f => Cardinality(S) + left = r.limit

NoneMissed(t, r, parts, next, cur, ranges, left, S, ans, f) ==
    ~f => IF left = 0 THEN \A a \in S, b \in ans \ S : RowPrecedes(t, r, a, b)
          ELSE \A a \in ans : \/ a \in S \/ a \in RowsAt(cur, ranges)
                              \/ \E i \in next .. Len(parts) : a \in RowsAsked(t, r, parts[i])

Core(t, r, parts, next, cur, ranges, left, S, ans, f) ==
    /\ PartsOk(t, r, parts, next, ans)
    /\ RangesOk(parts, next, cur, ranges, ans)
    /\ S \subseteq ans
    /\ Behind(t, r, parts, next, cur, ranges, S)
    /\ CountOk(r, left, S, f)
    /\ NoneMissed(t, r, parts, next, cur, ranges, left, S, ans, f)

(* Partitions and rows are in a strict order.                              *)
LEMMA PartOrder ==
    ASSUME NEW t \in Tables, NEW r, NEW p \in DOMAIN t.parts, NEW q \in DOMAIN t.parts
    PROVE  /\ ~PrecedesIn(t, r, p, p)
           /\ \A w \in DOMAIN t.parts :
                 PrecedesIn(t, r, p, q) /\ PrecedesIn(t, r, q, w) => PrecedesIn(t, r, p, w)
<1>1. ASSUME NEW x \in DOMAIN t.parts
      PROVE  NameText(x) \in Seq(Int) /\ t.parts[x].rows[1].time \in Int
  <2>1. NameText(x) \in Seq(Int)
    BY TableAssumption
  <2>2. /\ Len(t.parts[x].rows) \in Nat \ {0}
        /\ DOMAIN t.parts[x].rows = 1 .. Len(t.parts[x].rows)
        /\ \A i \in DOMAIN t.parts[x].rows : t.parts[x].rows[i].time \in Int
    BY TableAssumption
  <2>3. 1 \in DOMAIN t.parts[x].rows
    BY <2>2
  <2> QED BY <2>1, <2>2, <2>3
<1>2. CASE r.time = Unset
  BY <1>1, <1>2, TextOrderStrict, TextOrderTransitive DEF PrecedesIn
<1>3. CASE r.time # Unset
  BY <1>1, <1>3 DEF PrecedesIn
<1> QED BY <1>2, <1>3

(* No row is before itself, and a row of an earlier partition is before    *)
(* one of a later.                                                         *)
LEMMA RowOrder ==
    ASSUME NEW t \in Tables, NEW r, NEW a \in (DOMAIN t.parts) \X Nat, NEW b \in (DOMAIN t.parts) \X Nat
    PROVE  /\ ~RowPrecedes(t, r, a, a)
           /\ PrecedesIn(t, r, a[1], b[1]) => RowPrecedes(t, r, a, b)
<1>1. a[1] \in DOMAIN t.parts /\ b[1] \in DOMAIN t.parts /\ a[2] \in Nat
  OBVIOUS
<1>2. PrecedesIn(t, r, a[1], b[1]) => a[1] # b[1]
  BY <1>1, PartOrder
<1> QED BY <1>1, <1>2 DEF RowPrecedes

(* A stretch of rows.                                                      *)
LEMMA StretchSize ==
    ASSUME NEW p, NEW o \in Nat, NEW n \in Nat
    PROVE  IsFiniteSet(Stretch(p, o, n)) /\ Cardinality(Stretch(p, o, n)) = n
<1> DEFINE f == [k \in 1 .. n |-> Row(p, o + k - 1)]
<1>1. ASSUME NEW k \in 1 .. n PROVE o + k - 1 \in o .. o + n - 1
  OBVIOUS
<1>2. ASSUME NEW x \in o .. o + n - 1 PROVE \E k \in 1 .. n : o + k - 1 = x
  <2>1. x - o + 1 \in 1 .. n /\ o + (x - o + 1) - 1 = x
    OBVIOUS
  <2> QED BY <2>1
<1>3. f \in [1 .. n -> Stretch(p, o, n)]
  BY <1>1 DEF Stretch
<1>4. ASSUME NEW i \in 1 .. n, NEW j \in 1 .. n, f[i] = f[j] PROVE i = j
  BY <1>4 DEF Row
<1>5. \A x \in Stretch(p, o, n) : \E k \in 1 .. n : f[k] = x
  BY <1>2 DEF Stretch
<1> HIDE DEF f
<1>6. f \in Bijection(1 .. n, Stretch(p, o, n))
  BY <1>3, <1>4, <1>5 DEF Bijection, Injection, Surjection, IsInjective
<1>7. ExistsBijection(1 .. n, Stretch(p, o, n))
  BY <1>6 DEF ExistsBijection
<1> QED BY <1>7, FS_NatBijection, FS_CountingElements

(* Of ranges that ascend, the first is before the others.                  *)
LEMMA RangesSplit ==
    ASSUME NEW ranges \in Seq(Nat \X Nat), ranges # <<>>, Ascending(ranges)
    PROVE  /\ Head(ranges) \in Nat \X Nat /\ Head(ranges)[2] > 0
           /\ Tail(ranges) \in Seq(Nat \X Nat) /\ Ascending(Tail(ranges))
           /\ \A k : k \in RowsIn(ranges) <=> \/ k \in Head(ranges)[1] .. EndOf(Head(ranges)) - 1
                                              \/ k \in RowsIn(Tail(ranges))
           /\ \A k \in RowsIn(Tail(ranges)) : k \in Nat /\ EndOf(Head(ranges)) <= k
<1> DEFINE T == Tail(ranges)
<1>1. /\ T \in Seq(Nat \X Nat) /\ Len(T) = Len(ranges) - 1 /\ \A i \in 1 .. Len(T) : T[i] = ranges[i + 1]
      /\ Len(ranges) \in Nat \ {0} /\ Head(ranges) = ranges[1] /\ ranges[1] \in Nat \X Nat
  BY HeadTailProperties, EmptySeq, ElementOfSeq
<1>2. DOMAIN ranges = 1 .. Len(ranges) /\ DOMAIN T = 1 .. Len(T)
  BY <1>1, LenProperties
<1> HIDE DEF T
<1>3. \A i \in 1 .. Len(T) : i + 1 \in 1 .. Len(ranges) /\ 1 < i + 1
  BY <1>1
<1>4. Ascending(T)
  <2>1. \A i \in DOMAIN T : T[i][2] > 0
    BY <1>1, <1>2, <1>3 DEF Ascending
  <2>2. ASSUME NEW i \in DOMAIN T, NEW j \in DOMAIN T, i < j PROVE EndOf(T[i]) <= T[j][1]
    <3>0. i \in 1 .. Len(T) /\ j \in 1 .. Len(T)
      BY <1>2
    <3>1. i + 1 < j + 1 /\ i + 1 \in DOMAIN ranges /\ j + 1 \in DOMAIN ranges
      <4>1. i + 1 \in 1 .. Len(ranges) /\ j + 1 \in 1 .. Len(ranges)
        BY <1>3, <3>0
      <4>2. i + 1 < j + 1
        BY <2>2, <3>0
      <4> QED BY <1>2, <4>1, <4>2
    <3>2. EndOf(ranges[i + 1]) <= ranges[j + 1][1]
      BY <3>1 DEF Ascending
    <3>3. T[i] = ranges[i + 1] /\ T[j] = ranges[j + 1]
      BY <1>1, <3>0
    <3> QED BY <3>2, <3>3
  <2> QED BY <2>1, <2>2 DEF Ascending
<1>5. 1 \in DOMAIN ranges
  BY <1>1, <1>2
<1>6. ranges[1][2] > 0
  BY <1>5 DEF Ascending
<1>7. \A k : k \in RowsIn(ranges) <=> \E i \in 1 .. Len(ranges) : k \in ranges[i][1] .. EndOf(ranges[i]) - 1
  BY <1>2 DEF RowsIn
<1>8. \A k : k \in RowsIn(T) <=> \E i \in 1 .. Len(T) : k \in T[i][1] .. EndOf(T[i]) - 1
  BY <1>2 DEF RowsIn
<1>9. ASSUME NEW k, k \in RowsIn(ranges)
      PROVE  k \in ranges[1][1] .. EndOf(ranges[1]) - 1 \/ k \in RowsIn(T)
  <2>1. PICK i \in 1 .. Len(ranges) : k \in ranges[i][1] .. EndOf(ranges[i]) - 1
    BY <1>7, <1>9
  <2>2. CASE i = 1
    BY <2>1, <2>2
  <2>3. CASE i # 1
    <3>1. i - 1 \in 1 .. Len(T) /\ (i - 1) + 1 = i
      BY <1>1, <2>3
    <3>2. T[i - 1] = ranges[i]
      BY <1>1, <3>1
    <3> QED BY <1>8, <2>1, <3>1, <3>2
  <2> QED BY <2>2, <2>3
<1>10. ASSUME NEW k \in RowsIn(T) PROVE k \in RowsIn(ranges) /\ k \in Nat /\ EndOf(ranges[1]) <= k
  <2>1. PICK i \in 1 .. Len(T) : k \in T[i][1] .. EndOf(T[i]) - 1
    BY <1>8
  <2>2. k \in ranges[i + 1][1] .. EndOf(ranges[i + 1]) - 1 /\ i + 1 \in 1 .. Len(ranges)
    BY <1>1, <1>3, <2>1
  <2>3. EndOf(ranges[1]) <= ranges[i + 1][1]
    BY <1>2, <1>3, <1>5 DEF Ascending
  <2>4. ranges[i + 1][1] \in Nat /\ ranges[i + 1][2] \in Nat /\ ranges[1][1] \in Nat /\ ranges[1][2] \in Nat
    <3>1. ranges[i + 1] \in Nat \X Nat
      BY <2>2, ElementOfSeq
    <3> QED BY <1>1, <3>1
  <2>5. k \in Nat /\ EndOf(ranges[1]) <= k
    <3> DEFINE x == ranges[1][1]
               y == ranges[1][2]
               u == ranges[i + 1][1]
               v == ranges[i + 1][2]
               a == EndOf(ranges[1])
               b == EndOf(ranges[i + 1])
    <3>1. a = x + y /\ b = u + v
      BY DEF EndOf
    <3>2. k \in u .. b - 1 /\ a <= u
      BY <2>2, <2>3
    <3>3. x \in Nat /\ y \in Nat /\ u \in Nat /\ v \in Nat
      BY <2>4
    <3> HIDE DEF x, y, u, v, a, b
    <3>4. k \in Nat /\ a <= k
      BY <3>1, <3>2, <3>3
    <3> QED BY <3>4 DEF a
  <2> QED BY <1>7, <2>2, <2>5
<1>11. \A k \in ranges[1][1] .. EndOf(ranges[1]) - 1 : k \in RowsIn(ranges)
  BY <1>1, <1>7, <1>2, <1>5
<1> QED BY <1>1, <1>4, <1>6, <1>9, <1>10, <1>11 DEF T

(* No ranges hold no rows.                                                 *)
LEMMA NoRows == RowsIn(<<>>) = {} /\ Ascending(<<>>) /\ \A p : RowsAt(p, <<>>) = {}
BY DEF RowsIn, Ascending, RowsAt

(* What a dataset answers: AnswerAssumption.                               *)
LEMMA AnswerIs ==
    ASSUME NEW t \in Tables, NEW r \in Requests, NEW p \in DOMAIN t.parts, Found[t][r][p] # Failed
    PROVE  /\ Found[t][r][p] \in Seq(Nat \X Nat) /\ Ascending(Found[t][r][p])
           /\ RowsAt(p, Found[t][r][p]) = RowsAsked(t, r, p)
           /\ Needed[r] \subseteq DOMAIN t.parts[p].cols
BY AnswerAssumption DEF RowsAt, RowsAsked

(* What is asked of a dataset: AnswerAssumption.                           *)
LEMMA WantedIs ==
    ASSUME NEW t \in Tables, NEW r \in Requests, NEW p \in DOMAIN t.parts
    PROVE  /\ Wanted[t][r][p] \subseteq 0 .. Len(t.parts[p].rows) - 1
           /\ r.time # Unset =>
                 \A k \in Wanted[t][r][p] :
                    r.time[1] <= t.parts[p].rows[k + 1].time /\ t.parts[p].rows[k + 1].time < r.time[2]
BY AnswerAssumption

----------------------------------------------------------------------------
(* The steps of a query.                                                   *)

(* It begins with nothing handed out and all that is asked for ahead.      *)
LEMMA CoreStarts ==
    ASSUME NEW t \in Tables, NEW r \in Requests, NEW parts, NEW cur, NEW ans, NEW f,
           PartsOk(t, r, parts, 1, ans),
           \A a \in ans : \E i \in 1 .. Len(parts) : a \in RowsAsked(t, r, parts[i])
    PROVE  Core(t, r, parts, 1, cur, <<>>, r.limit, {}, ans, f)
<1>1. RangesOk(parts, 1, cur, <<>>, ans)
  BY NoRows, EmptySeq DEF RangesOk
<1>2. Behind(t, r, parts, 1, cur, <<>>, {})
  BY DEF Behind
<1>3. CountOk(r, r.limit, {}, f)
  BY RequestAssumption, FS_EmptySet DEF CountOk
<1>4. NoneMissed(t, r, parts, 1, cur, <<>>, r.limit, {}, ans, f)
  BY DEF NoneMissed
<1> QED BY <1>1, <1>2, <1>3, <1>4 DEF Core

(* A limit, and what is left of it.                                        *)
LEMMA Cut ==
    ASSUME NEW left \in Nat \cup {Unset}, left # 0, NEW n \in Nat \ {0}
    PROVE  /\ CutTo(n, left) \in Nat \ {0} /\ CutTo(n, left) <= n
           /\ Less(left, CutTo(n, left)) \in Nat \cup {Unset}
           /\ left = Unset => CutTo(n, left) = n /\ Less(left, CutTo(n, left)) = Unset
           /\ left # Unset => /\ CutTo(n, left) <= left
                              /\ Less(left, CutTo(n, left)) = left - CutTo(n, left)
           /\ left = CutTo(n, left) <=> Less(left, CutTo(n, left)) = 0
           /\ left # CutTo(n, left) => CutTo(n, left) = n
           /\ CutTo(CutTo(n, left), left) = CutTo(n, left)
BY UnsetAssumption DEF CutTo, Less, Lower

(* A range is handed out, cut to what is left of the limit.                *)
FirstCut(cur, ranges, left, n, new, rest) ==
    /\ n = CutTo(Head(ranges)[2], left) /\ new = Stretch(cur, Head(ranges)[1], n)
    /\ rest = IF left = n THEN <<>> ELSE Tail(ranges)

(* What is handed out follows what was, and the account stays right.       *)
LEMMA CoreTakes ==
    ASSUME NEW t \in Tables, NEW r \in Requests, NEW parts, NEW next, NEW cur, NEW ranges,
           NEW left \in Nat \cup {Unset}, NEW S, NEW ans, NEW f,
           Core(t, r, parts, next, cur, ranges, left, S, ans, f), ranges # <<>>, left # 0,
           NEW n, NEW new, NEW rest, FirstCut(cur, ranges, left, n, new, rest),
           NEW all, all = S \cup new
    PROVE  /\ Core(t, r, parts, next, cur, rest, Less(left, n), all, ans, f)
           /\ Follow(t, r, S, new)
<1> DEFINE h == Head(ranges)
           P == DOMAIN t.parts
<1>0. /\ n = CutTo(Head(ranges)[2], left) /\ new = Stretch(cur, Head(ranges)[1], n)
      /\ rest = IF left = n THEN <<>> ELSE Tail(ranges)
  BY DEF FirstCut
<1>1. /\ PartsOk(t, r, parts, next, ans) /\ RangesOk(parts, next, cur, ranges, ans) /\ S \subseteq ans
      /\ Behind(t, r, parts, next, cur, ranges, S) /\ CountOk(r, left, S, f)
      /\ NoneMissed(t, r, parts, next, cur, ranges, left, S, ans, f)
  BY DEF Core
<1>2. /\ parts \in Seq(P) /\ next \in 1 .. Len(parts) + 1 /\ IsFiniteSet(ans) /\ ans \subseteq P \X Nat
      /\ \A i, j \in 1 .. Len(parts) : i < j => PrecedesIn(t, r, parts[i], parts[j])
  BY <1>1 DEF PartsOk
<1>3. /\ ranges \in Seq(Nat \X Nat) /\ Ascending(ranges)
      /\ next > 1 /\ cur = parts[next - 1] /\ RowsAt(cur, ranges) \subseteq ans
  BY <1>1 DEF RangesOk
<1>4. /\ h \in Nat \X Nat /\ h[2] \in Nat \ {0} /\ h[1] \in Nat
      /\ Tail(ranges) \in Seq(Nat \X Nat) /\ Ascending(Tail(ranges))
      /\ \A k : k \in RowsIn(ranges) <=> \/ k \in h[1] .. EndOf(h) - 1
                                         \/ k \in RowsIn(Tail(ranges))
      /\ \A k \in RowsIn(Tail(ranges)) : k \in Nat /\ EndOf(h) <= k
  BY <1>3, RangesSplit
<1> HIDE DEF h
<1>5. /\ n \in Nat \ {0} /\ n <= h[2] /\ Less(left, n) \in Nat \cup {Unset}
      /\ left = Unset => n = h[2] /\ Less(left, n) = Unset
      /\ left # Unset => n <= left /\ Less(left, n) = left - n
      /\ left = n <=> Less(left, n) = 0
      /\ left # n => n = h[2]
  BY <1>0, <1>4, Cut DEF h
<1>6. new = {Row(cur, k) : k \in h[1] .. h[1] + n - 1}
  BY <1>0 DEF h, Stretch
<1>7. \A k \in h[1] .. h[1] + n - 1 : k \in h[1] .. EndOf(h) - 1 /\ k \in RowsIn(ranges)
  <2>1. EndOf(h) \in Nat /\ h[1] + n <= EndOf(h)
    BY <1>4, <1>5 DEF EndOf
  <2>2. \A k \in h[1] .. h[1] + n - 1 : k \in h[1] .. EndOf(h) - 1
    BY <1>4, <1>5, <2>1
  <2> QED BY <1>4, <2>2
<1>8. new \subseteq RowsAt(cur, ranges)
  BY <1>6, <1>7 DEF RowsAt
<1>9. \A a \in S, b \in new : RowPrecedes(t, r, a, b)
  BY <1>1, <1>8 DEF Behind
<1>10. next - 1 \in 1 .. Len(parts) /\ Len(parts) \in Nat /\ cur \in P
  BY <1>2, <1>3, ElementOfSeq
<1>11. rest \in Seq(Nat \X Nat) /\ Ascending(rest)
  BY <1>0, <1>4, NoRows, EmptySeq
<1>12. RowsAt(cur, rest) \subseteq RowsAt(cur, ranges)
  BY <1>0, <1>4, NoRows DEF RowsAt
<1>13. RangesOk(parts, next, cur, rest, ans)
  BY <1>3, <1>11, <1>12 DEF RangesOk
<1>14. S \cup new \subseteq ans
  BY <1>1, <1>3, <1>8
<1>15. Behind(t, r, parts, next, cur, rest, S \cup new)
  <2>1. ASSUME NEW a \in new, NEW i \in next .. Len(parts) PROVE PrecedesIn(t, r, a[1], parts[i])
    <3>1. a[1] = cur
      BY <1>6 DEF Row
    <3>2. i \in 1 .. Len(parts) /\ next - 1 < i
      BY <1>2, <1>10
    <3> QED BY <1>2, <1>3, <1>10, <3>1, <3>2
  <2>2. ASSUME NEW a \in new, NEW b \in RowsAt(cur, rest) PROVE RowPrecedes(t, r, a, b)
    <3>1. PICK k \in h[1] .. h[1] + n - 1 : a = Row(cur, k)
      BY <1>6
    <3>2. PICK l \in RowsIn(rest) : b = Row(cur, l)
      BY DEF RowsAt
    <3>3. l \in RowsIn(Tail(ranges))
      BY <1>0, <3>2, NoRows
    <3>4. k < l
      BY <1>4, <1>7, <3>1, <3>3 DEF EndOf
    <3> QED BY <3>1, <3>2, <3>4 DEF RowPrecedes, Row
  <2>3. \A a \in S : \A i \in next .. Len(parts) : PrecedesIn(t, r, a[1], parts[i])
    BY <1>1 DEF Behind
  <2>4. \A a \in S : \A b \in RowsAt(cur, rest) : RowPrecedes(t, r, a, b)
    BY <1>1, <1>12 DEF Behind
  <2> QED BY <2>1, <2>2, <2>3, <2>4 DEF Behind
<1>16. /\ IsFiniteSet(S) /\ Cardinality(S) \in Nat
       /\ Cardinality(S \cup new) = Cardinality(S) + n
  <2>1. IsFiniteSet(S) /\ Cardinality(S) \in Nat
    BY <1>1, <1>2, FS_Subset, FS_CardinalityType
  <2>2. IsFiniteSet(new) /\ Cardinality(new) = n
    BY <1>0, <1>4, <1>5, StretchSize DEF h
  <2>3. S \cap new = {}
    <3> SUFFICES ASSUME NEW a \in S \cap new PROVE FALSE
      OBVIOUS
    <3>1. RowPrecedes(t, r, a, a) /\ a \in P \X Nat
      BY <1>1, <1>2, <1>9
    <3> QED BY <3>1, RowOrder
  <2>4. Cardinality(S \cup new) = Cardinality(S) + n - 0
    BY <2>1, <2>2, <2>3, FS_Union, FS_EmptySet
  <2> QED BY <1>5, <2>1, <2>4
<1>17. CountOk(r, Less(left, n), S \cup new, f)
  <2>1. CASE r.limit = Unset
    BY <1>1, <1>5, <2>1 DEF CountOk
  <2>2. CASE r.limit # Unset
    <3>1. left \in Nat /\ Cardinality(S) + left <= r.limit /\ (~f => Cardinality(S) + left = r.limit)
      BY <1>1, <2>2 DEF CountOk
    <3>2. left # Unset
      BY <3>1, UnsetAssumption
    <3>3. Less(left, n) = left - n /\ n <= left
      BY <1>5, <3>2
    <3>4. (Cardinality(S) + n) + (left - n) = Cardinality(S) + left /\ left - n \in Nat
      BY <1>5, <1>16, <3>1, <3>3
    <3> QED BY <1>16, <2>2, <3>1, <3>3, <3>4 DEF CountOk
  <2> QED BY <2>1, <2>2
<1>18. NoneMissed(t, r, parts, next, cur, rest, Less(left, n), S \cup new, ans, f)
  <2> SUFFICES ASSUME ~f
               PROVE  IF Less(left, n) = 0
                      THEN \A a \in S \cup new, b \in ans \ (S \cup new) : RowPrecedes(t, r, a, b)
                      ELSE \A a \in ans :
                              \/ a \in S \cup new \/ a \in RowsAt(cur, rest)
                              \/ \E i \in next .. Len(parts) : a \in RowsAsked(t, r, parts[i])
    BY DEF NoneMissed
  <2>1. \A a \in ans : \/ a \in S \/ a \in RowsAt(cur, ranges)
                       \/ \E i \in next .. Len(parts) : a \in RowsAsked(t, r, parts[i])
    BY <1>1 DEF NoneMissed
  <2>2. CASE Less(left, n) = 0
    <3> SUFFICES ASSUME NEW a \in S \cup new, NEW b \in ans \ (S \cup new)
                 PROVE  RowPrecedes(t, r, a, b)
      BY <2>2
    <3>1. CASE b \in RowsAt(cur, ranges)
      <4>1. a \in S => RowPrecedes(t, r, a, b)
        BY <1>1, <3>1 DEF Behind
      <4>2. ASSUME a \in new PROVE RowPrecedes(t, r, a, b)
        <5>1. PICK k \in h[1] .. h[1] + n - 1 : a = Row(cur, k)
          BY <1>6, <4>2
        <5>2. PICK l \in RowsIn(ranges) : b = Row(cur, l)
          BY <3>1 DEF RowsAt
        <5>3. l \notin h[1] .. h[1] + n - 1
          BY <1>6, <5>2
        <5>4. k < l
          BY <1>4, <1>5, <1>7, <5>1, <5>2, <5>3, SMTT(30) DEF EndOf
        <5> QED BY <5>1, <5>2, <5>4 DEF RowPrecedes, Row
      <4> QED BY <4>1, <4>2
    <3>2. ASSUME NEW i \in next .. Len(parts), b \in RowsAsked(t, r, parts[i])
          PROVE  RowPrecedes(t, r, a, b)
      <4>1. b[1] = parts[i]
        BY <3>2 DEF RowsAsked, Row
      <4>2. PrecedesIn(t, r, a[1], b[1])
        BY <1>15, <4>1 DEF Behind
      <4>3. a \in P \X Nat /\ b \in P \X Nat
        BY <1>2, <1>14
      <4> QED BY <4>2, <4>3, RowOrder
    <3> QED BY <2>1, <3>1, <3>2
  <2>3. CASE Less(left, n) # 0
    <3> SUFFICES ASSUME NEW a \in RowsAt(cur, ranges) PROVE a \in new \/ a \in RowsAt(cur, rest)
      BY <2>1, <2>3
    <3>1. n = h[2] /\ rest = Tail(ranges)
      BY <1>0, <1>5, <2>3
    <3>2. PICK k \in RowsIn(ranges) : a = Row(cur, k)
      BY DEF RowsAt
    <3>3. k \in h[1] .. h[1] + n - 1 \/ k \in RowsIn(rest)
      <4>1. EndOf(h) = h[1] + n
        BY <3>1 DEF EndOf
      <4>2. k \in h[1] .. EndOf(h) - 1 \/ k \in RowsIn(Tail(ranges))
        BY <1>4
      <4>3. h[1] .. EndOf(h) - 1 = h[1] .. h[1] + n - 1
        BY <1>4, <1>5, <4>1
      <4> QED BY <3>1, <4>2, <4>3
    <3> QED BY <1>6, <3>2, <3>3 DEF RowsAt
  <2> QED BY <2>2, <2>3
<1> QED BY <1>1, <1>9, <1>13, <1>14, <1>15, <1>17, <1>18 DEF Core, Follow

(* The next partition is opened.                                           *)
LEMMA CoreOpens ==
    ASSUME NEW t \in Tables, NEW r \in Requests, NEW parts, NEW next, NEW cur,
           NEW left, NEW S, NEW ans, NEW f,
           Core(t, r, parts, next, cur, <<>>, left, S, ans, f), left # 0, next <= Len(parts),
           NEW p, p = parts[next], Found[t][r][p] # Failed
    PROVE  Core(t, r, parts, next + 1, p, Found[t][r][p], left, S, ans, f)
<1> DEFINE P == DOMAIN t.parts
           found == Found[t][r][p]
<1>1. /\ PartsOk(t, r, parts, next, ans) /\ S \subseteq ans
      /\ Behind(t, r, parts, next, cur, <<>>, S) /\ CountOk(r, left, S, f)
      /\ NoneMissed(t, r, parts, next, cur, <<>>, left, S, ans, f)
  BY DEF Core
<1>2. /\ parts \in Seq(P) /\ next \in 1 .. Len(parts) /\ IsFiniteSet(ans) /\ ans \subseteq P \X Nat
      /\ Len(parts) \in Nat /\ p \in P
      /\ \A i \in 1 .. Len(parts) : RowsAsked(t, r, parts[i]) \subseteq ans
  <2>1. /\ parts \in Seq(P) /\ next \in 1 .. Len(parts) + 1 /\ IsFiniteSet(ans) /\ ans \subseteq P \X Nat
        /\ \A i \in 1 .. Len(parts) : RowsAsked(t, r, parts[i]) \subseteq ans
    BY <1>1 DEF PartsOk
  <2>2. Len(parts) \in Nat /\ next \in 1 .. Len(parts)
    BY <2>1, LenProperties
  <2> QED BY <2>1, <2>2, ElementOfSeq
<1>3. found \in Seq(Nat \X Nat) /\ Ascending(found) /\ RowsAt(p, found) = RowsAsked(t, r, p)
  BY <1>2, AnswerIs
<1> HIDE DEF found
<1>4. PartsOk(t, r, parts, next + 1, ans)
  <2>1. next + 1 \in 1 .. Len(parts) + 1
    BY <1>2
  <2> QED BY <1>1, <2>1 DEF PartsOk
<1>5. RangesOk(parts, next + 1, p, found, ans)
  <2>1. next + 1 > 1 /\ (next + 1) - 1 = next
    BY <1>2
  <2> QED BY <1>2, <1>3, <2>1 DEF RangesOk
<1>6. Behind(t, r, parts, next + 1, p, found, S)
  <2>1. \A i \in next + 1 .. Len(parts) : i \in next .. Len(parts)
    BY <1>2
  <2>2. next \in next .. Len(parts)
    BY <1>2
  <2>3. \A a \in S : \A i \in next + 1 .. Len(parts) : PrecedesIn(t, r, a[1], parts[i])
    BY <1>1, <2>1 DEF Behind
  <2>4. ASSUME NEW a \in S, NEW b \in RowsAt(p, found) PROVE RowPrecedes(t, r, a, b)
    <3>1. PrecedesIn(t, r, a[1], p)
      BY <1>1, <2>2 DEF Behind
    <3>2. b \in P \X Nat /\ a \in P \X Nat
      BY <1>1, <1>2, <1>3
    <3>3. b[1] = p
      BY DEF RowsAt, Row
    <3> QED BY <3>1, <3>2, <3>3, RowOrder
  <2> QED BY <2>3, <2>4 DEF Behind
<1>7. NoneMissed(t, r, parts, next + 1, p, found, left, S, ans, f)
  <2> SUFFICES ASSUME ~f, NEW a \in ans, a \notin S
               PROVE  \/ a \in RowsAt(p, found)
                      \/ \E i \in next + 1 .. Len(parts) : a \in RowsAsked(t, r, parts[i])
    BY DEF NoneMissed
  <2>1. PICK i \in next .. Len(parts) : a \in RowsAsked(t, r, parts[i])
    BY <1>1, NoRows DEF NoneMissed
  <2>2. i = next \/ i \in next + 1 .. Len(parts)
    BY <1>2
  <2> QED BY <1>3, <2>1, <2>2
<1> QED BY <1>1, <1>4, <1>5, <1>6, <1>7 DEF Core, found

(* A failed call loses rows that had been handed out, and may pass a       *)
(* partition by.                                                           *)
LEMMA CoreLoses ==
    ASSUME NEW t \in Tables, NEW r \in Requests, NEW parts, NEW next, NEW cur, NEW ranges,
           NEW left, NEW S, NEW ans, NEW f,
           Core(t, r, parts, next, cur, ranges, left, S, ans, f),
           NEW kept \in SUBSET S, NEW then,
           then = next \/ (then = next + 1 /\ next <= Len(parts) /\ ranges = <<>>)
    PROVE  Core(t, r, parts, then, cur, ranges, left, kept, ans, TRUE)
<1>1. /\ PartsOk(t, r, parts, next, ans) /\ S \subseteq ans /\ RangesOk(parts, next, cur, ranges, ans)
      /\ Behind(t, r, parts, next, cur, ranges, S) /\ CountOk(r, left, S, f)
  BY DEF Core
<1>2. parts \in Seq(DOMAIN t.parts) /\ next \in 1 .. Len(parts) + 1 /\ IsFiniteSet(ans)
  BY <1>1 DEF PartsOk
<1>3. Len(parts) \in Nat
  BY <1>2, LenProperties
<1>4. then \in 1 .. Len(parts) + 1 /\ \A i \in then .. Len(parts) : i \in next .. Len(parts)
  BY <1>2, <1>3
<1>5. PartsOk(t, r, parts, then, ans)
  BY <1>1, <1>4 DEF PartsOk
<1>6. RangesOk(parts, then, cur, ranges, ans)
  BY <1>1 DEF RangesOk
<1>7. Behind(t, r, parts, then, cur, ranges, kept)
  BY <1>1, <1>4 DEF Behind
<1>8. CountOk(r, left, kept, TRUE)
  <2>1. IsFiniteSet(S) /\ Cardinality(S) \in Nat
    BY <1>1, <1>2, FS_Subset, FS_CardinalityType
  <2>2. Cardinality(kept) <= Cardinality(S) /\ Cardinality(kept) \in Nat
    BY <2>1, FS_Subset, FS_CardinalityType
  <2> QED BY <1>1, <2>1, <2>2, RequestAssumption, UnsetAssumption DEF CountOk
<1> QED BY <1>1, <1>5, <1>6, <1>7, <1>8 DEF Core, NoneMissed

(* At the end, nothing is left out but for the limit.                      *)
LEMMA CoreEnds ==
    ASSUME NEW t \in Tables, NEW r \in Requests, NEW parts, NEW next, NEW cur, NEW ranges,
           NEW left, NEW S, NEW ans,
           Core(t, r, parts, next, cur, ranges, left, S, ans, FALSE),
           left = 0 \/ (ranges = <<>> /\ next > Len(parts))
    PROVE  IF r.limit = Unset THEN S = ans
           ELSE /\ Cardinality(S) = Lower(r.limit, Cardinality(ans))
                /\ \A a \in S, b \in ans \ S : RowPrecedes(t, r, a, b)
<1>1. /\ PartsOk(t, r, parts, next, ans) /\ S \subseteq ans /\ CountOk(r, left, S, FALSE)
      /\ NoneMissed(t, r, parts, next, cur, ranges, left, S, ans, FALSE)
  BY DEF Core
<1>2. IsFiniteSet(ans) /\ next \in 1 .. Len(parts) + 1 /\ parts \in Seq(DOMAIN t.parts)
  BY <1>1 DEF PartsOk
<1>3. /\ IsFiniteSet(S) /\ Cardinality(S) \in Nat /\ Cardinality(ans) \in Nat
      /\ Cardinality(S) <= Cardinality(ans)
  BY <1>1, <1>2, FS_Subset, FS_CardinalityType
<1>4. CASE left = 0
  <2>1. r.limit # Unset
    BY <1>1, <1>4, UnsetAssumption DEF CountOk
  <2>2. Cardinality(S) + 0 = r.limit
    BY <1>1, <1>4, <2>1 DEF CountOk
  <2>3. \A a \in S, b \in ans \ S : RowPrecedes(t, r, a, b)
    BY <1>1, <1>4 DEF NoneMissed
  <2> QED BY <1>3, <2>1, <2>2, <2>3 DEF Lower
<1>5. CASE left # 0
  <2>1. ranges = <<>> /\ next .. Len(parts) = {}
    BY <1>2, <1>5, LenProperties
  <2>2. S = ans
    BY <1>1, <1>5, <2>1, NoRows DEF NoneMissed
  <2>3. CASE r.limit # Unset
    <3>1. left \in Nat /\ Cardinality(S) + left = r.limit
      BY <1>1, <2>3 DEF CountOk
    <3> QED BY <1>3, <2>2, <2>3, <3>1 DEF Lower
  <2> QED BY <2>2, <2>3
<1> QED BY <1>4, <1>5

----------------------------------------------------------------------------
(* Batches.                                                                *)
InOrder(t, r, rows) == \A k, l \in DOMAIN rows : k < l => RowPrecedes(t, r, rows[k], rows[l])

(* The batches given out, the rows of the next one, and those behind them  *)
(* that have been fetched.                                                 *)
GivenBy(batches) == UNION {Range(batches[i]) : i \in DOMAIN batches}
Batches(t, r, batches, rows, fetched) ==
    /\ \A i \in DOMAIN batches : InOrder(t, r, batches[i])
    /\ \A i, j \in DOMAIN batches : i < j => Follow(t, r, Range(batches[i]), Range(batches[j]))
    /\ InOrder(t, r, rows)
    /\ Follow(t, r, GivenBy(batches), Range(rows))
    /\ Follow(t, r, GivenBy(batches) \cup Range(rows), fetched)
RowsOf(x) == IF x = Unset THEN {} ELSE Stretch(x.part, x.range[1], x.range[2])

(* Rows fetched and rows of a batch may be lost, and rows are fetched when *)
(* there are none.                                                         *)
LEMMA BatchesLose ==
    ASSUME NEW t, NEW r, NEW batches, NEW rows, NEW fetched, Batches(t, r, batches, rows, fetched),
           NEW kept \in SUBSET fetched
    PROVE  Batches(t, r, batches, rows, kept) /\ Batches(t, r, batches, <<>>, kept)
<1>1. Range(<<>>) = {} /\ InOrder(t, r, <<>>)
  BY DEF Range, InOrder
<1> QED BY <1>1 DEF Batches, Follow

(* Rows fetched behind all others keep the order.                          *)
LEMMA BatchesFetch ==
    ASSUME NEW t, NEW r, NEW batches, NEW rows, NEW fetched, Batches(t, r, batches, rows, fetched),
           NEW new, Follow(t, r, GivenBy(batches) \cup Range(rows), new)
    PROVE  Batches(t, r, batches, rows, new)
BY DEF Batches

(* A batch is given out.                                                   *)
LEMMA GivenWith ==
    ASSUME NEW X, NEW batches \in Seq(Seq(X)), NEW rows \in Seq(X)
    PROVE  /\ GivenBy(Append(batches, rows)) = GivenBy(batches) \cup Range(rows)
           /\ DOMAIN Append(batches, rows) = DOMAIN batches \cup {Len(batches) + 1}
           /\ \A i \in DOMAIN batches :
                 /\ Append(batches, rows)[i] = batches[i]
                 /\ i < Len(batches) + 1 /\ i \in Nat
           /\ Append(batches, rows)[Len(batches) + 1] = rows
<1> DEFINE B == Append(batches, rows)
<1>1. /\ B \in Seq(Seq(X)) /\ Len(B) = Len(batches) + 1 /\ Len(batches) \in Nat
      /\ \A i \in 1 .. Len(batches) : B[i] = batches[i]
      /\ B[Len(batches) + 1] = rows
  BY AppendProperties, LenProperties
<1>2. DOMAIN batches = 1 .. Len(batches) /\ DOMAIN B = 1 .. Len(B)
  BY <1>1, LenProperties
<1> HIDE DEF B
<1>3. DOMAIN B = DOMAIN batches \cup {Len(batches) + 1}
  BY <1>1, <1>2
<1>4. \A i \in DOMAIN batches : B[i] = batches[i] /\ i < Len(batches) + 1 /\ i \in Nat
  BY <1>1, <1>2
<1>5. GivenBy(B) = GivenBy(batches) \cup Range(rows)
  <2>1. ASSUME NEW a, a \in GivenBy(B) PROVE a \in GivenBy(batches) \cup Range(rows)
    <3>1. PICK i \in DOMAIN B : a \in Range(B[i])
      BY <2>1 DEF GivenBy
    <3> QED BY <1>1, <1>3, <1>4, <3>1 DEF GivenBy
  <2>2. ASSUME NEW a, a \in GivenBy(batches) PROVE a \in GivenBy(B)
    <3>1. PICK i \in DOMAIN batches : a \in Range(batches[i])
      BY <2>2 DEF GivenBy
    <3> QED BY <1>3, <1>4, <3>1 DEF GivenBy
  <2>3. ASSUME NEW a, a \in Range(rows) PROVE a \in GivenBy(B)
    BY <1>1, <1>3, <2>3 DEF GivenBy
  <2> QED BY <2>1, <2>2, <2>3
<1> QED BY <1>1, <1>3, <1>4, <1>5 DEF B

(* With the batch given out, the order stays.                              *)
LEMMA BatchesGive ==
    ASSUME NEW t, NEW r, NEW X, NEW batches \in Seq(Seq(X)), NEW rows \in Seq(X), NEW fetched,
           Batches(t, r, batches, rows, fetched)
    PROVE  Batches(t, r, Append(batches, rows), <<>>, fetched)
<1> DEFINE B == Append(batches, rows)
           n == Len(batches) + 1
<1>1. /\ GivenBy(B) = GivenBy(batches) \cup Range(rows) /\ DOMAIN B = DOMAIN batches \cup {n}
      /\ \A i \in DOMAIN batches : B[i] = batches[i] /\ i < n /\ i \in Nat
      /\ B[n] = rows /\ n \in Nat
  BY GivenWith, LenProperties
<1> HIDE DEF B, n
<1>2. Range(<<>>) = {} /\ InOrder(t, r, <<>>)
  BY DEF Range, InOrder
<1>3. \A i \in DOMAIN B : InOrder(t, r, B[i])
  BY <1>1 DEF Batches
<1>4. ASSUME NEW i \in DOMAIN B, NEW j \in DOMAIN B, i < j
      PROVE  Follow(t, r, Range(B[i]), Range(B[j]))
  <2>1. i \in DOMAIN batches
    <3> SUFFICES ASSUME i = n PROVE FALSE
      BY <1>1
    <3>1. j \in Nat /\ (j = n \/ j < n)
      BY <1>1
    <3> QED BY <1>1, <1>4, <3>1
  <2>2. CASE j \in DOMAIN batches
    BY <1>1, <1>4, <2>1, <2>2 DEF Batches
  <2>3. CASE j = n
    <3>1. Range(batches[i]) \subseteq GivenBy(batches)
      BY <2>1 DEF GivenBy
    <3> QED BY <1>1, <2>1, <2>3, <3>1 DEF Batches, Follow
  <2> QED BY <1>1, <2>2, <2>3
<1>5. Follow(t, r, GivenBy(B), Range(<<>>)) /\ Follow(t, r, GivenBy(B) \cup Range(<<>>), fetched)
  BY <1>1, <1>2 DEF Batches, Follow
<1> QED BY <1>2, <1>3, <1>4, <1>5 DEF Batches, B

(* Of the rows fetched, the first are put to the batch.                    *)
Read(p, o, n) == [k \in 1 .. n |-> Row(p, o + k - 1)]

Splits(p, o, m, n) ==
    /\ Stretch(p, o, m) = Stretch(p, o, n) \cup Stretch(p, o + n, m - n)
    /\ Range(Read(p, o, n)) = Stretch(p, o, n)

(* A range is what is read of it and the rest.                             *)
LEMMA StretchSplit ==
    ASSUME NEW p, NEW o \in Nat, NEW m \in Nat, NEW n \in Nat, n <= m
    PROVE  Splits(p, o, m, n)
<1>1. \A k : k \in o .. o + m - 1 <=> k \in o .. o + n - 1 \/ k \in o + n .. (o + n) + (m - n) - 1
  OBVIOUS
<1>2. \A k : k \in o .. o + n - 1 <=> \E i \in 1 .. n : k = o + i - 1
  <2>1. \A i \in 1 .. n : o + i - 1 \in o .. o + n - 1
    OBVIOUS
  <2>2. ASSUME NEW k \in o .. o + n - 1 PROVE \E i \in 1 .. n : k = o + i - 1
    <3>1. k - o + 1 \in 1 .. n /\ o + (k - o + 1) - 1 = k
      OBVIOUS
    <3> QED BY <3>1
  <2> QED BY <2>1, <2>2
<1>3. Stretch(p, o, m) = Stretch(p, o, n) \cup Stretch(p, o + n, m - n)
  BY <1>1 DEF Stretch
<1>4. Range(Read(p, o, n)) = {Row(p, o + i - 1) : i \in 1 .. n}
  BY DEF Range, Read
<1>5. Range(Read(p, o, n)) = Stretch(p, o, n)
  BY <1>2, <1>4 DEF Stretch
<1> QED BY <1>3, <1>5 DEF Splits

BatchRead(t, r, P, batches, rows, p, o, m, n, more) ==
    /\ more \in Seq(P \X Nat) /\ Len(more) = Len(rows) + n
    /\ Range(more) = Range(rows) \cup Stretch(p, o, n)
    /\ Batches(t, r, batches, more, Stretch(p, o + n, m - n))

(* What is read of a range follows the rows of the batch, and its rest     *)
(* follows those.                                                          *)
LEMMA BatchesRead ==
    ASSUME NEW t, NEW r, NEW batches, NEW P, NEW rows \in Seq(P \X Nat),
           NEW p \in P, NEW o \in Nat, NEW m \in Nat, NEW n \in Nat, n <= m,
           Batches(t, r, batches, rows, Stretch(p, o, m)),
           NEW more, more = rows \o Read(p, o, n)
    PROVE  BatchRead(t, r, P, batches, rows, p, o, m, n, more)
<1> DEFINE s == Read(p, o, n)
           A == Stretch(p, o, n)
           B == Stretch(p, o + n, m - n)
           F == Stretch(p, o, m)
<1>1. F = A \cup B /\ Range(s) = A
  <2>1. Splits(p, o, m, n)
    BY StretchSplit
  <2> QED BY <2>1 DEF Splits
<1>2. s \in Seq(P \X Nat) /\ Len(s) = n
  <2>1. \A k \in 1 .. n : o + k - 1 \in Nat
    OBVIOUS
  <2>2. s \in [1 .. n -> P \X Nat]
    BY <2>1 DEF Read, Row
  <2> QED BY <2>2
<1>3. \A k \in 1 .. n : s[k] = Row(p, o + k - 1)
  BY DEF Read
<1> HIDE DEF s, A, B, F
<1>4. /\ more \in Seq(P \X Nat) /\ Len(more) = Len(rows) + n
      /\ \A i \in 1 .. Len(rows) + n : more[i] = IF i <= Len(rows) THEN rows[i] ELSE s[i - Len(rows)]
      /\ Len(rows) \in Nat /\ DOMAIN rows = 1 .. Len(rows) /\ DOMAIN more = 1 .. Len(rows) + n
  <2>1. more = rows \o s
    BY DEF s
  <2>2. /\ more \in Seq(P \X Nat) /\ Len(more) = Len(rows) + Len(s)
        /\ \A i \in 1 .. Len(rows) + Len(s) :
              more[i] = IF i <= Len(rows) THEN rows[i] ELSE s[i - Len(rows)]
    <3> DEFINE S == P \X Nat
    <3>1. rows \in Seq(S) /\ s \in Seq(S)
      BY <1>2
    <3> HIDE DEF S
    <3>2. /\ rows \o s \in Seq(S) /\ Len(rows \o s) = Len(rows) + Len(s)
          /\ \A i \in 1 .. Len(rows) + Len(s) :
                (rows \o s)[i] = IF i <= Len(rows) THEN rows[i] ELSE s[i - Len(rows)]
      BY <3>1, ConcatProperties
    <3> QED BY <2>1, <3>2, Zenon DEF S
  <2>3. Len(rows) \in Nat /\ DOMAIN rows = 1 .. Len(rows) /\ DOMAIN more = 1 .. Len(more)
    BY <2>2, LenProperties
  <2> QED BY <1>2, <2>2, <2>3
<1>5. Range(more) = Range(rows) \cup A
  <2>1. more = rows \o s
    BY DEF s
  <2> QED BY <1>1, <1>2, <2>1, RangeConcatenation
<1>6. ASSUME NEW k \in DOMAIN more, NEW l \in DOMAIN more, k < l
      PROVE  RowPrecedes(t, r, more[k], more[l])
  <2>1. CASE l <= Len(rows)
    <3>1. k \in DOMAIN rows /\ l \in DOMAIN rows /\ more[k] = rows[k] /\ more[l] = rows[l]
      BY <1>4, <1>6, <2>1
    <3> QED BY <1>6, <3>1 DEF Batches, InOrder
  <2>2. CASE k <= Len(rows) /\ ~(l <= Len(rows))
    <3>1. /\ k \in DOMAIN rows /\ more[k] = rows[k]
          /\ l - Len(rows) \in 1 .. n /\ more[l] = s[l - Len(rows)]
      <4>1. k \in 1 .. Len(rows) + n /\ l \in 1 .. Len(rows) + n /\ Len(rows) \in Nat
        BY <1>4
      <4>2. /\ more[k] = IF k <= Len(rows) THEN rows[k] ELSE s[k - Len(rows)]
            /\ more[l] = IF l <= Len(rows) THEN rows[l] ELSE s[l - Len(rows)]
        BY <1>4, <4>1
      <4>3. k \in 1 .. Len(rows) /\ l - Len(rows) \in 1 .. n
        BY <2>2, <4>1, SMTT(30)
      <4> QED BY <1>4, <2>2, <4>2, <4>3
    <3>2. more[k] \in Range(rows) /\ more[l] \in F
      <4>1. DOMAIN s = 1 .. n
        BY <1>2, LenProperties
      <4>2. more[l] \in Range(s)
        BY <3>1, <4>1 DEF Range
      <4> QED BY <1>1, <3>1, <4>2 DEF Range
    <3> QED BY <3>2 DEF Batches, Follow, F
  <2>3. CASE ~(k <= Len(rows))
    <3>1. /\ k - Len(rows) \in 1 .. n /\ more[k] = s[k - Len(rows)]
          /\ l - Len(rows) \in 1 .. n /\ more[l] = s[l - Len(rows)]
      <4>1. /\ k \in 1 .. Len(rows) + n /\ l \in 1 .. Len(rows) + n
            /\ ~(k <= Len(rows)) /\ ~(l <= Len(rows))
        BY <1>4, <1>6, <2>3
      <4>2. more[k] = s[k - Len(rows)] /\ more[l] = s[l - Len(rows)]
        BY <1>4, <4>1
      <4>3. k - Len(rows) \in 1 .. n /\ l - Len(rows) \in 1 .. n
        BY <1>4, <4>1, SMTT(30)
      <4> QED BY <4>2, <4>3
    <3>2. o + (k - Len(rows)) - 1 < o + (l - Len(rows)) - 1
      BY <1>4, <1>6
    <3>3. /\ more[k] = Row(p, o + (k - Len(rows)) - 1)
          /\ more[l] = Row(p, o + (l - Len(rows)) - 1)
      BY <1>3, <3>1
    <3> QED BY <3>2, <3>3 DEF RowPrecedes, Row
  <2> QED BY <1>4, <2>1, <2>2, <2>3
<1>7. ASSUME NEW a \in A, NEW b \in B PROVE RowPrecedes(t, r, a, b)
  <2>1. PICK k \in o .. o + n - 1 : a = Row(p, k)
    BY DEF A, Stretch
  <2>2. PICK l \in o + n .. (o + n) + (m - n) - 1 : b = Row(p, l)
    BY DEF B, Stretch
  <2>3. k < l
    OBVIOUS
  <2> QED BY <2>1, <2>2, <2>3 DEF RowPrecedes, Row
<1>8. Follow(t, r, GivenBy(batches), Range(more)) /\ Follow(t, r, GivenBy(batches) \cup Range(more), B)
  <2>1. Follow(t, r, GivenBy(batches), Range(rows)) /\ Follow(t, r, GivenBy(batches) \cup Range(rows), F)
    BY DEF Batches, F
  <2> QED BY <1>1, <1>5, <1>7, <2>1 DEF Follow
<1>9. InOrder(t, r, more)
  BY <1>6 DEF InOrder
<1>10. Batches(t, r, batches, more, B)
  BY <1>8, <1>9 DEF Batches
<1> QED BY <1>4, <1>5, <1>10 DEF A, B, BatchRead

----------------------------------------------------------------------------
(* The state.                                                              *)
AllRows == Names \X Nat
Takes == [part : Names, range : Nat \X Nat]
AnyField == (UNION {DOMAIN Datasets[p].cols : p \in Names}) \cup (UNION {r.proj : r \in Requests})
Places == {"new", "refused", "idle", "resolve", "pull", "read", "done"}

Shape ==
    /\ table \in Tables /\ there \subseteq Names /\ req \in Requests \cup {Unset}
    /\ open \in [Names -> {Unset} \cup SUBSET AnyField]
    /\ \A p \in Names : open[p] = Unset \/ open[p] \subseteq DOMAIN Datasets[p].cols
    /\ scan \in [parts : Seq(Names), next : Nat, cur : Names \cup {Unset}, ranges : Seq(Nat \X Nat),
                 room : Nat \cup {Unset}, left : Nat \cup {Unset}]
    /\ reader \in [proj : SUBSET AnyField, pending : Takes \cup {Unset}, ended : BOOLEAN]
    /\ call \in [at : Places, take : Takes \cup {Unset}, rows : Seq(AllRows)]
    /\ out \in Seq(Seq(AllRows)) /\ failed \in BOOLEAN

(* Where a call is.                                                        *)
Control ==
    /\ req = Unset <=> call.at = "new"
    /\ call.at = "new" => /\ scan.parts = <<>> /\ scan.next = 1 /\ scan.ranges = <<>>
                          /\ open = [p \in Names |-> Unset] /\ out = <<>> /\ answer = {}
                          /\ reader.proj = {}
    /\ call.at = "refused" => /\ scan.parts = <<>> /\ scan.next = 1 /\ scan.ranges = <<>>
                              /\ failed /\ out = <<>>
    /\ call.at \in {"new", "refused"} => reader.pending = Unset
    /\ call.take # Unset <=> call.at = "read" \/ (call.at = "resolve" /\ req.batch = Unset)
    /\ call.take # Unset => reader.pending = Unset
    /\ call.at = "resolve" => req.batch # 0
    /\ call.at \in {"pull", "read"} =>
          IF req.batch = Unset THEN call.rows = <<>> ELSE Len(call.rows) < req.batch
    /\ call.at \notin {"pull", "read"} => call.rows = <<>>
    /\ call.at = "done" <=> reader.ended
    /\ call.at = "done" =>
          reader.pending = Unset /\ (scan.left = 0 \/ (scan.ranges = <<>> /\ scan.next > Len(scan.parts)))
    /\ scan.ranges # <<>> => scan.room = scan.left

(* What is open.                                                           *)
OpenOk ==
    /\ call.take # Unset => open[call.take.part] # Unset /\ call.take.range[2] > 0
    /\ reader.pending # Unset => open[reader.pending.part] # Unset /\ reader.pending.range[2] > 0
    /\ scan.ranges # <<>> => open[scan.cur] # Unset
    /\ call.at \notin {"new", "refused"} =>
          /\ reader.proj = {} => req.proj = {}
          /\ \A p \in Names : open[p] # Unset /\ p \notin Tried => req.proj = {}

Sizes ==
    \A i \in DOMAIN out :
        /\ out[i] # <<>>
        /\ req.batch # Unset =>
             \/ Len(out[i]) = req.batch
             \/ i = Len(out) /\ reader.ended /\ Len(out[i]) < req.batch

(* The rows on their way.                                                  *)
Fetched == RowsOf(call.take) \cup RowsOf(reader.pending)
Passed == GivenBy(out) \cup Range(call.rows) \cup Fetched

OutOk == Batches(table, req, out, call.rows, Fetched)

(* The days of the partitions meet the time asked for, and the limit is    *)
(* not reached before the last that is open.                               *)
DaysIn(t, p) == PartitionRange(t.scheme, p, "date32")
InWindow(t, r, parts) ==
    \A i \in 1 .. Len(parts) : r.time # Unset =>
        DaysIn(t, parts[i])[1] < r.time[2] /\ r.time[1] < DaysIn(t, parts[i])[2]
FewBefore(r, parts, i, ans) ==
    r.limit # Unset => Cardinality({a \in ans : a[1] \in {parts[k] : k \in 1 .. i - 1}}) < r.limit

Query ==
    call.at \notin {"new", "refused"} =>
        /\ Core(table, req, scan.parts, scan.next, scan.cur, scan.ranges, scan.left, Passed, answer, failed)
        /\ InWindow(table, req, scan.parts)
        /\ ~failed => \A i \in 1 .. scan.next - 1 : FewBefore(req, scan.parts, i, answer)

IInv == Shape /\ Control /\ OpenOk /\ Sizes /\ OutOk /\ Query

(* What is asked for are rows of the table.                                *)
LEMMA AskedIs ==
    ASSUME table \in Tables, there \subseteq Names, NEW r \in Requests
    PROVE  /\ IsFiniteSet(Asked(r, Whole)) /\ Asked(r, Whole) \subseteq AllRows
           /\ \A p \in Whole : RowsAsked(table, r, p) \subseteq Asked(r, Whole)
           /\ \A a \in Asked(r, Whole) : \E p \in Whole : a \in RowsAsked(table, r, p)
<1> DEFINE of == [p \in Whole |-> RowsAsked(table, r, p)]
           sets == {of[p] : p \in Whole}
<1>1. Whole \subseteq Names /\ IsFiniteSet(Whole)
  BY TableIs, FS_Subset DEF Whole
<1>2. Asked(r, Whole) = UNION sets
  BY DEF Asked, RowsAsked
<1>3. ASSUME NEW p \in Names PROVE IsFiniteSet(RowsAsked(table, r, p)) /\ RowsAsked(table, r, p) \subseteq AllRows
  <2> DEFINE n == Len(table.parts[p].rows)
  <2>1. n \in Nat /\ p \in DOMAIN table.parts
    BY RowsAre DEF Names, Datasets
  <2>2. Wanted[table][r][p] \subseteq 0 .. n - 1
    BY <2>1, WantedIs
  <2> HIDE DEF n
  <2>3. Wanted[table][r][p] \subseteq 0 .. 0 + n - 1 /\ Wanted[table][r][p] \subseteq Nat
    BY <2>1, <2>2
  <2>4. RowsAsked(table, r, p) \in SUBSET Stretch(p, 0, n)
    BY <2>3 DEF RowsAsked, Stretch
  <2>5. IsFiniteSet(Stretch(p, 0, n))
    BY <2>1, StretchSize
  <2>6. IsFiniteSet(RowsAsked(table, r, p))
    BY <2>4, <2>5, FS_Subset
  <2>7. RowsAsked(table, r, p) \subseteq AllRows
    BY <2>3 DEF RowsAsked, AllRows, Row
  <2> QED BY <2>6, <2>7
<1>4. IsFiniteSet(sets)
  <2>1. of \in Surjection(Whole, sets)
    BY DEF Surjection
  <2> HIDE DEF of, sets
  <2> QED BY <1>1, <2>1, FS_Surjection
<1>5. \A x \in sets : IsFiniteSet(x) /\ x \subseteq AllRows
  BY <1>1, <1>3
<1>6. IsFiniteSet(UNION sets)
  <2> HIDE DEF sets
  <2> QED BY <1>4, <1>5, FS_UNION
<1> QED BY <1>2, <1>5, <1>6

(* The partitions chosen for a request hold all it asks for, in order.     *)
LEMMA PlanIs ==
    ASSUME table \in Tables, there \subseteq Names, NEW r \in Requests,
           NEW parts, parts = IF r.time = Unset THEN Discovered ELSE Pruned(r.time[1], r.time[2]),
           parts # Unset, NEW ans, ans = Asked(r, Whole)
    PROVE  /\ parts \in Seq(Names) /\ PartsOk(table, r, parts, 1, ans) /\ InWindow(table, r, parts)
           /\ \A a \in ans : \E i \in 1 .. Len(parts) : a \in RowsAsked(table, r, parts[i])
<1>1. /\ IsFiniteSet(ans) /\ ans \subseteq Names \X Nat
      /\ \A p \in Whole : RowsAsked(table, r, p) \subseteq ans
      /\ \A a \in ans : \E p \in Whole : a \in RowsAsked(table, r, p)
  BY AskedIs DEF AllRows
<1>2. Whole \subseteq Names /\ Names = DOMAIN table.parts
  BY DEF Whole, Names, Datasets
<1>3. ASSUME parts \in Seq(Whole),
             \A i, j \in 1 .. Len(parts) : i < j => PrecedesIn(table, r, parts[i], parts[j]),
             \A a \in ans, p \in Whole :
                a \in RowsAsked(table, r, p) => \E i \in 1 .. Len(parts) : parts[i] = p
      PROVE  /\ parts \in Seq(Names) /\ PartsOk(table, r, parts, 1, ans)
             /\ \A a \in ans : \E i \in 1 .. Len(parts) : a \in RowsAsked(table, r, parts[i])
  <2>1. parts \in Seq(Names) /\ Len(parts) \in Nat /\ \A i \in 1 .. Len(parts) : parts[i] \in Whole
    BY <1>2, <1>3, SeqMonotonic, LenProperties, ElementOfSeq
  <2>2. PartsOk(table, r, parts, 1, ans)
    BY <1>1, <1>2, <1>3, <2>1 DEF PartsOk
  <2> QED BY <1>1, <1>3, <2>1, <2>2
<1>4. CASE r.time = Unset
  <2>1. parts = Discovered
    BY <1>4
  <2>2. /\ parts \in Seq(Whole)
        /\ \A i, j \in 1 .. Len(parts) : i < j => TextBefore(NameText(parts[i]), NameText(parts[j]))
        /\ \A p \in Whole : \E i \in 1 .. Len(parts) : parts[i] = p
    BY <2>1, DiscoveredAre
  <2>3. InWindow(table, r, parts)
    BY <1>4 DEF InWindow
  <2> QED BY <1>3, <1>4, <2>2, <2>3 DEF PrecedesIn
<1>5. CASE r.time # Unset
  <2> DEFINE lo == r.time[1]
             hi == r.time[2]
  <2>1. lo \in Int /\ hi \in Int
    BY <1>5, RequestAssumption
  <2> HIDE DEF lo, hi
  <2>2. parts = Pruned(lo, hi)
    BY <1>5 DEF lo, hi
  <2>3. /\ Timely(parts, Whole)
        /\ \A i \in 1 .. Len(parts) : Days(parts[i])[1] < hi /\ lo < Days(parts[i])[2]
        /\ \A p \in Whole : /\ HasDays(p)
                            /\ Days(p)[1] < hi /\ lo < Days(p)[2] =>
                                  \E k \in 1 .. Len(parts) : parts[k] = p
    BY <2>1, <2>2, PrunedAre
  <2>4. parts \in Seq(Whole) /\ \A i \in 1 .. Len(parts) : parts[i] \in Names
    BY <1>2, <2>3, ElementOfSeq DEF Timely
  <2>5. ASSUME NEW i \in 1 .. Len(parts), NEW j \in 1 .. Len(parts), i < j
        PROVE  PrecedesIn(table, r, parts[i], parts[j])
    <3>1. HasDays(parts[i]) /\ HasDays(parts[j]) /\ Days(parts[i])[2] <= Days(parts[j])[1]
      BY <2>3, <2>5 DEF Timely
    <3>2. FirstTime(parts[i]) < FirstTime(parts[j])
      BY <2>4, <3>1, DaysTellTimes
    <3> QED BY <1>5, <3>2 DEF PrecedesIn, FirstTime, Datasets
  <2>6. ASSUME NEW p \in Whole, NEW a \in RowsAsked(table, r, p)
        PROVE  \E i \in 1 .. Len(parts) : parts[i] = p
    <3>1. PICK k \in Wanted[table][r][p] : a = Row(p, k)
      BY DEF RowsAsked
    <3> DEFINE n == Len(Datasets[p].rows)
               time == Datasets[p].rows[k + 1].time
    <3>2. p \in Names /\ n \in Nat
      BY <1>2, RowsAre
    <3>3. k \in 0 .. n - 1 /\ lo <= time /\ time < hi
      BY <1>2, <1>5, <3>2, WantedIs DEF lo, hi, Datasets
    <3>4. k + 1 \in 1 .. n
      BY <3>2, <3>3
    <3>5. time \in Int
      BY <3>2, <3>4, RowsAre
    <3>6. Days(p)[1] <= time /\ time < Days(p)[2]
      BY <2>3, <3>2, <3>4, RowsInDays
    <3>7. Days(p)[1] \in Int /\ Days(p)[2] \in Int
      BY <2>3 DEF HasDays
    <3> HIDE DEF time, n
    <3>8. Days(p)[1] < hi /\ lo < Days(p)[2]
      BY <2>1, <3>3, <3>5, <3>6, <3>7
    <3> QED BY <2>3, <3>8
  <2>7. InWindow(table, r, parts)
    BY <2>3 DEF InWindow, DaysIn, Days, lo, hi
  <2> QED BY <1>3, <2>4, <2>5, <2>6, <2>7
<1> QED BY <1>4, <1>5

----------------------------------------------------------------------------
(* Every step keeps it.                                                    *)

(* What the shape says of the parts.                                       *)
LEMMA Parts ==
    ASSUME Shape
    PROVE  /\ scan.parts \in Seq(Names) /\ Len(scan.parts) \in Nat /\ scan.next \in Nat
           /\ scan.cur \in Names \cup {Unset} /\ scan.ranges \in Seq(Nat \X Nat)
           /\ scan.room \in Nat \cup {Unset} /\ scan.left \in Nat \cup {Unset}
           /\ reader.proj \in SUBSET AnyField /\ reader.pending \in Takes \cup {Unset}
           /\ call.at \in Places /\ call.take \in Takes \cup {Unset} /\ call.rows \in Seq(AllRows)
           /\ Len(call.rows) \in Nat /\ reader.ended \in BOOLEAN
BY LenProperties DEF Shape

(* What is put together with nothing.                                      *)
LEMMA Nothing ==
    /\ RowsOf(Unset) = {} /\ Range(<<>>) = {} /\ GivenBy(<<>>) = {} /\ Len(<<>>) = 0
    /\ DOMAIN <<>> = {} /\ \A S : <<>> \in Seq(S)
BY DEF RowsOf, Range, GivenBy

(* Nothing else is Unset.                                                  *)
LEMMA NotUnset ==
    ASSUME table \in Tables
    PROVE  /\ Unset \notin Nat /\ Unset \notin Requests /\ Unset \notin Takes /\ Unset # 0
           /\ Unset \notin Seq(Names)
           /\ \A p \in Names : \A s \in SUBSET DOMAIN Datasets[p].cols : Unset # s
BY UnsetAssumption DEF Names, Datasets, Takes

(* A partition that is open is one.                                        *)
LEMMA CurIs ==
    ASSUME Shape, Control, Query, scan.ranges # <<>>
    PROVE  scan.cur \in Names /\ Ascending(scan.ranges)
<1>1. Core(table, req, scan.parts, scan.next, scan.cur, scan.ranges, scan.left, Passed, answer, failed)
  BY DEF Control, Query
<1>2. scan.cur = scan.parts[scan.next - 1] /\ scan.next > 1 /\ Ascending(scan.ranges)
  BY <1>1 DEF Core, RangesOk
<1>3. scan.next \in 1 .. Len(scan.parts) + 1
  BY <1>1 DEF Core, PartsOk
<1>4. scan.next - 1 \in 1 .. Len(scan.parts) /\ scan.parts \in Seq(Names)
  <2> DEFINE a == scan.next
             b == Len(scan.parts)
  <2>1. scan.parts \in Seq(Names) /\ a \in Nat /\ b \in Nat
    BY Parts
  <2>2. a > 1 /\ a \in 1 .. b + 1
    BY <1>2, <1>3
  <2> HIDE DEF a, b
  <2>3. a - 1 \in 1 .. b
    BY <2>1, <2>2
  <2> QED BY <2>1, <2>3 DEF a, b
<1>5. scan.parts[scan.next - 1] \in Names
  BY <1>4, ElementOfSeq
<1> QED BY <1>2, <1>5

(* scan_table.                                                             *)
LEMMA ScanTableKeeps ==
    ASSUME IInv, NEW r \in Requests, ScanTable(r)
    PROVE  IInv'
<1> DEFINE parts == IF r.time = Unset THEN Discovered ELSE Pruned(r.time[1], r.time[2])
           ans == Asked(r, Whole)
<1>1. Shape /\ Control /\ OpenOk /\ Sizes /\ OutOk /\ Query
  BY DEF IInv
<1>2. /\ table \in Tables /\ there \subseteq Names /\ call.at = "new" /\ Start(r, parts)
      /\ req' = r /\ table' = table /\ there' = there /\ open' = open /\ out' = out /\ answer' = ans
  BY <1>1 DEF ScanTable, Shape, Whole
<1>3. /\ scan.parts = <<>> /\ scan.next = 1 /\ scan.ranges = <<>> /\ open = [p \in Names |-> Unset]
      /\ out = <<>> /\ reader.pending = Unset /\ call.take = Unset /\ call.rows = <<>>
      /\ reader.ended = FALSE
  BY <1>1, <1>2, Parts DEF Control
<1>4. /\ Names' = Names /\ Datasets' = Datasets /\ AnyField' = AnyField /\ AllRows' = AllRows
      /\ Takes' = Takes
  BY <1>2 DEF Names, Datasets, AnyField, AllRows, Takes
<1>5. r # Unset /\ r.limit \in Nat \cup {Unset} /\ r.proj \in SUBSET AnyField
  BY <1>2, NotUnset, RequestAssumption DEF AnyField
<1> HIDE DEF parts, ans
<1>6. CASE parts = Unset
  <2>1. /\ call' = [call EXCEPT !.at = "refused"] /\ failed' = TRUE
        /\ scan' = scan /\ reader' = reader
    BY <1>2, <1>6 DEF Start
  <2>2. call'.at = "refused" /\ call'.take = call.take /\ call'.rows = call.rows
    BY <1>1, <2>1 DEF Shape
  <2>3. Shape'
    BY <1>1, <1>2, <1>4, <2>1 DEF Shape, Places
  <2>4. Control'
    BY <1>2, <1>3, <1>5, <2>1, <2>2 DEF Control
  <2>5. OpenOk'
    BY <1>3, <2>1, <2>2 DEF OpenOk
  <2>6. Sizes' /\ OutOk'
    BY <1>2, <1>3, <2>1, <2>2, Nothing DEF Sizes, OutOk, Batches, InOrder, Follow, Fetched
  <2>7. Query'
    BY <2>2 DEF Query
  <2> QED BY <2>3, <2>4, <2>5, <2>6, <2>7 DEF IInv
<1>7. CASE parts # Unset
  <2>1. /\ call' = Idle /\ scan' = [scan EXCEPT !.parts = parts, !.left = r.limit]
        /\ reader' = [reader EXCEPT !.proj = r.proj] /\ failed' = failed
    BY <1>2, <1>7 DEF Start
  <2>2. /\ parts \in Seq(Names) /\ PartsOk(table, r, parts, 1, ans) /\ InWindow(table, r, parts)
        /\ \A a \in ans : \E i \in 1 .. Len(parts) : a \in RowsAsked(table, r, parts[i])
    BY <1>2, <1>7, PlanIs DEF parts, ans
  <2>3. call'.at = "idle" /\ call'.take = Unset /\ call'.rows = <<>>
    BY <2>1 DEF Idle
  <2>4. /\ scan'.parts = parts /\ scan'.left = r.limit /\ scan'.next = 1 /\ scan'.cur = scan.cur
        /\ scan'.ranges = <<>> /\ reader'.proj = r.proj /\ reader'.pending = Unset /\ ~reader'.ended
    BY <1>1, <1>3, <2>1 DEF Shape
  <2>5. Shape'
    <3>1. scan' \in [parts : Seq(Names), next : Nat, cur : Names \cup {Unset}, ranges : Seq(Nat \X Nat),
                     room : Nat \cup {Unset}, left : Nat \cup {Unset}]
      BY <1>1, <1>5, <2>1, <2>2 DEF Shape
    <3>2. reader' \in [proj : SUBSET AnyField, pending : Takes \cup {Unset}, ended : BOOLEAN]
      BY <1>1, <1>5, <2>1 DEF Shape
    <3>3. call' \in [at : Places, take : Takes \cup {Unset}, rows : Seq(AllRows)]
      BY <2>1, Nothing DEF Idle, Places
    <3> QED BY <1>1, <1>2, <1>4, <2>1, <3>1, <3>2, <3>3 DEF Shape
  <2>6. Control'
    BY <1>2, <1>3, <1>5, <2>3, <2>4 DEF Control
  <2>7. OpenOk'
    BY <1>2, <1>3, <1>4, <2>3, <2>4 DEF OpenOk
  <2>8. Sizes' /\ OutOk'
    BY <1>2, <1>3, <2>3, <2>4, Nothing DEF Sizes, OutOk, Batches, InOrder, Follow, Fetched
  <2>9. Passed' = {}
    BY <1>2, <1>3, <2>3, <2>4, Nothing DEF Passed, Fetched
  <2>10. Core(table, r, parts, 1, scan.cur, <<>>, r.limit, {}, ans, failed)
    BY <1>2, <2>2, CoreStarts
  <2>11. Query'
    BY <1>2, <2>1, <2>2, <2>4, <2>9, <2>10 DEF Query
  <2> QED BY <2>5, <2>6, <2>7, <2>8, <2>11 DEF IInv
<1> QED BY <1>6, <1>7

(* A call that fails: what had been put together and taken is lost, and a  *)
(* partition may have been passed.                                         *)
LEMMA FailKeeps ==
    ASSUME IInv, Fail, call.at \notin {"new", "refused", "done"},
           table' = table, req' = req, answer' = answer, there' = there,
           reader' = reader,
           \/ scan' = scan
           \/ /\ scan' = [scan EXCEPT !.next = @ + 1]
              /\ scan.ranges = <<>> /\ scan.next <= Len(scan.parts),
           open' = open \/ \E p \in Names : /\ open' = [open EXCEPT ![p] = Opened(p)]
                                            /\ p \in Tried' \/ req.proj = {}
    PROVE  IInv'
<1>1. Shape /\ Control /\ OpenOk /\ Sizes /\ OutOk /\ Query
  BY DEF IInv
<1>2. /\ call' = Idle /\ failed' = TRUE /\ out' = out
      /\ call'.at = "idle" /\ call'.take = Unset /\ call'.rows = <<>>
  BY DEF Fail, Idle
<1>3. /\ Names' = Names /\ Datasets' = Datasets /\ AnyField' = AnyField /\ AllRows' = AllRows
      /\ Takes' = Takes
  BY DEF Names, Datasets, AnyField, AllRows, Takes
<1>4. /\ scan'.parts = scan.parts /\ scan'.cur = scan.cur /\ scan'.ranges = scan.ranges
      /\ scan'.room = scan.room /\ scan'.left = scan.left
      /\ \/ scan'.next = scan.next
         \/ scan'.next = scan.next + 1 /\ scan.next <= Len(scan.parts) /\ scan.ranges = <<>>
  BY <1>1 DEF Shape
<1>5. open' \in [Names -> {Unset} \cup SUBSET AnyField]
      /\ \A p \in Names : /\ open[p] # Unset => open'[p] = open[p]
                          /\ open'[p] = Unset \/ open'[p] \subseteq DOMAIN Datasets[p].cols
                          /\ open'[p] # Unset => open[p] # Unset \/ p \in Tried' \/ req.proj = {}
  <2>1. /\ open \in [Names -> {Unset} \cup SUBSET AnyField]
        /\ \A p \in Names : open[p] = Unset \/ open[p] \subseteq DOMAIN Datasets[p].cols
    BY <1>1 DEF Shape
  <2>2. CASE open' = open
    BY <2>1, <2>2
  <2>3. ASSUME NEW q \in Names, open' = [open EXCEPT ![q] = Opened(q)],
               q \in Tried' \/ req.proj = {}
        PROVE  /\ open' \in [Names -> {Unset} \cup SUBSET AnyField]
               /\ \A p \in Names : /\ open[p] # Unset => open'[p] = open[p]
                                   /\ open'[p] = Unset \/ open'[p] \subseteq DOMAIN Datasets[p].cols
                                   /\ open'[p] # Unset => open[p] # Unset \/ p \in Tried' \/ req.proj = {}
    <3>1. /\ Opened(q) \in {Unset} \cup SUBSET AnyField
          /\ open[q] # Unset => Opened(q) = open[q]
          /\ Opened(q) = Unset \/ Opened(q) \subseteq DOMAIN Datasets[q].cols
      BY <2>1 DEF Opened
    <3>2. open' \in [Names -> {Unset} \cup SUBSET AnyField]
      BY <2>1, <2>3, <3>1
    <3>3. \A p \in Names : open'[p] = IF p = q THEN Opened(q) ELSE open[p]
      BY <2>1, <2>3
    <3> QED BY <2>1, <2>3, <3>1, <3>2, <3>3
  <2> QED BY <2>2, <2>3
<1>6. Tried \subseteq Tried'
  <2>1. \A i \in 1 .. scan.next - 1 : i \in 1 .. scan'.next - 1
    BY <1>1, <1>4, Parts
  <2> QED BY <1>4, <2>1 DEF Tried
<1>7. Shape'
  <2>1. scan' \in [parts : Seq(Names), next : Nat, cur : Names \cup {Unset}, ranges : Seq(Nat \X Nat),
                   room : Nat \cup {Unset}, left : Nat \cup {Unset}]
    <3>1. CASE scan' = scan
      BY <1>1, <3>1 DEF Shape
    <3>2. CASE scan' = [scan EXCEPT !.next = @ + 1]
      <4>1. scan.next + 1 \in Nat
        BY <1>1, Parts
      <4> QED BY <1>1, <3>2, <4>1 DEF Shape
    <3> QED BY <3>1, <3>2
  <2>2. call' \in [at : Places, take : Takes \cup {Unset}, rows : Seq(AllRows)]
    BY <1>2, Nothing DEF Idle, Places
  <2> QED BY <1>1, <1>2, <1>3, <1>5, <2>1, <2>2 DEF Shape
<1>8. Control'
  BY <1>1, <1>2, <1>4 DEF Control
<1>9. OpenOk'
  <2>1. reader.pending # Unset => reader.pending.part \in Names
    BY <1>1, Parts DEF Takes
  <2>2. scan.ranges # <<>> => scan.cur \in Names
    BY <1>1, CurIs
  <2> QED BY <1>1, <1>2, <1>3, <1>4, <1>5, <1>6, <2>1, <2>2 DEF OpenOk
<1>10. Sizes'
  BY <1>1, <1>2 DEF Sizes
<1>11. Fetched' \subseteq Fetched /\ Passed' \subseteq Passed
  BY <1>2, Nothing DEF Fetched, Passed
<1>12. OutOk'
  BY <1>1, <1>2, <1>11, BatchesLose DEF OutOk
<1>13. req \in Requests
  BY <1>1 DEF Control, Shape
<1>14. Query'
  <2>1. /\ Core(table, req, scan.parts, scan.next, scan.cur, scan.ranges, scan.left, Passed, answer, failed)
        /\ InWindow(table, req, scan.parts) /\ table \in Tables
    BY <1>1 DEF Query, Shape
  <2>2. Core(table, req, scan.parts, scan'.next, scan.cur, scan.ranges, scan.left, Passed', answer, TRUE)
    BY <1>4, <1>11, <1>13, <2>1, CoreLoses
  <2> QED BY <1>2, <1>4, <2>1, <2>2 DEF Query
<1> QED BY <1>7, <1>8, <1>9, <1>10, <1>12, <1>14 DEF IInv

(* next begins.                                                            *)
LEMMA CallNextKeeps ==
    ASSUME IInv, CallNext
    PROVE  IInv'
<1>1. Shape /\ Control /\ OpenOk /\ Sizes /\ OutOk /\ Query
  BY DEF IInv
<1>2. /\ call.at = "idle" /\ table' = table /\ there' = there /\ open' = open /\ req' = req
      /\ scan' = scan /\ reader' = reader /\ answer' = answer
  BY DEF CallNext
<1>3. CASE req.batch = 0
  <2>1. Fail
    BY <1>3 DEF CallNext
  <2> QED BY <1>2, <2>1, FailKeeps
<1>4. CASE req.batch # 0
  <2> DEFINE at == IF req.batch = Unset THEN "pull" ELSE "resolve"
  <2>1. call' = [call EXCEPT !.at = at] /\ out' = out /\ failed' = failed
    BY <1>4 DEF CallNext
  <2>2. call'.at = at /\ call'.take = call.take /\ call'.rows = call.rows
    BY <1>1, <2>1 DEF Shape
  <2>3. call.take = Unset /\ call.rows = <<>>
    BY <1>1, <1>2 DEF Control
  <2>4. /\ Names' = Names /\ Datasets' = Datasets /\ AnyField' = AnyField /\ AllRows' = AllRows
        /\ Takes' = Takes /\ Tried' = Tried
    BY <1>2 DEF Names, Datasets, AnyField, AllRows, Takes, Tried
  <2>5. Shape'
    BY <1>1, <1>2, <2>1, <2>4 DEF Shape, Places
  <2>6. Control'
    BY <1>1, <1>2, <1>4, <2>1, <2>2, <2>3 DEF Control
  <2>7. OpenOk'
    BY <1>1, <1>2, <2>2, <2>3, <2>4 DEF OpenOk
  <2>8. Sizes'
    BY <1>1, <1>2, <2>1 DEF Sizes
  <2>9. Fetched' = Fetched /\ Passed' = Passed
    BY <1>2, <2>1, <2>2 DEF Fetched, Passed
  <2>10. OutOk'
    BY <1>1, <1>2, <2>1, <2>2, <2>9 DEF OutOk
  <2>11. Query'
    BY <1>1, <1>2, <2>1, <2>9 DEF Query
  <2> QED BY <2>5, <2>6, <2>7, <2>8, <2>10, <2>11 DEF IInv
<1> QED BY <1>3, <1>4

(* resolve_projection.                                                     *)
LEMMA ResolveKeeps ==
    ASSUME IInv, Resolve
    PROVE  IInv'
<1> DEFINE last == IF Discovered = <<>> THEN Unset ELSE Last(Discovered)
<1>1. Shape /\ Control /\ OpenOk /\ Sizes /\ OutOk /\ Query
  BY DEF IInv
<1>2. /\ call.at = "resolve" /\ table' = table /\ there' = there /\ req' = req
      /\ scan' = scan /\ answer' = answer
  BY DEF Resolve
<1>3. CASE ~(reader.proj # {} \/ CanOpen(last))
  <2>1. Fail /\ reader' = reader /\ open' = open
    BY <1>3 DEF Resolve
  <2> QED BY <1>2, <2>1, FailKeeps
<1>4. CASE reader.proj # {} \/ CanOpen(last)
  <2> DEFINE at == IF req.batch = Unset THEN "read" ELSE "pull"
  <2>1. call' = [call EXCEPT !.at = at] /\ out' = out /\ failed' = failed
    BY <1>4 DEF Resolve
  <2>2. call'.at = at /\ call'.take = call.take /\ call'.rows = call.rows
    BY <1>1, <2>1 DEF Shape
  <2>3. call.rows = <<>> /\ req.batch # 0 /\ (call.take # Unset <=> req.batch = Unset)
    BY <1>1, <1>2 DEF Control
  <2>4. /\ Names' = Names /\ Datasets' = Datasets /\ AnyField' = AnyField /\ AllRows' = AllRows
        /\ Takes' = Takes /\ Tried' = Tried
    BY <1>2 DEF Names, Datasets, AnyField, AllRows, Takes, Tried
  <2>5. \/ reader' = reader /\ open' = open
        \/ /\ reader.proj = {} /\ last \in Names
           /\ reader' = [reader EXCEPT !.proj = DOMAIN Datasets[last].cols]
           /\ open' = [open EXCEPT ![last] = Opened(last)]
    BY <1>4 DEF Resolve, CanOpen
  <2> HIDE DEF last
  <2>6. /\ reader'.pending = reader.pending /\ reader'.ended = reader.ended
        /\ reader'.proj = {} => reader.proj = {}
    BY <1>1, <2>5 DEF Shape
  <2>7. reader' \in [proj : SUBSET AnyField, pending : Takes \cup {Unset}, ended : BOOLEAN]
    <3>1. last \in Names => DOMAIN Datasets[last].cols \in SUBSET AnyField
      BY DEF AnyField
    <3> QED BY <1>1, <2>5, <3>1 DEF Shape
  <2>8. /\ open' \in [Names -> {Unset} \cup SUBSET AnyField]
        /\ \A p \in Names : /\ open[p] # Unset => open'[p] = open[p]
                            /\ open'[p] = Unset \/ open'[p] \subseteq DOMAIN Datasets[p].cols
                            /\ open'[p] # Unset => open[p] # Unset \/ reader.proj = {}
    BY <1>1, <2>5 DEF Shape, Opened
  <2>9. Shape'
    BY <1>1, <1>2, <2>1, <2>4, <2>7, <2>8 DEF Shape, Places
  <2>10. Control'
    <3>1. req.batch # Unset => req.batch \in Nat /\ 0 < req.batch
      <4>1. req \in Requests
        BY <1>1, <1>2 DEF Control, Shape
      <4> QED BY <2>3, <4>1, RequestAssumption
    <3> QED BY <1>1, <1>2, <2>1, <2>2, <2>3, <2>6, <3>1, Nothing DEF Control
  <2>11. OpenOk'
    <3>1. /\ call.take # Unset => call.take.part \in Names
          /\ reader.pending # Unset => reader.pending.part \in Names
      BY <1>1, Parts DEF Takes
    <3>2. scan.ranges # <<>> => scan.cur \in Names
      BY <1>1, CurIs
    <3> QED BY <1>1, <1>2, <2>2, <2>4, <2>6, <2>8, <3>1, <3>2 DEF OpenOk
  <2>12. Sizes'
    BY <1>1, <1>2, <2>1, <2>6 DEF Sizes
  <2>13. Fetched' = Fetched /\ Passed' = Passed
    BY <2>1, <2>2, <2>6 DEF Fetched, Passed
  <2>14. OutOk'
    BY <1>1, <1>2, <2>1, <2>2, <2>13 DEF OutOk
  <2>15. Query'
    BY <1>1, <1>2, <2>1, <2>13 DEF Query
  <2> QED BY <2>9, <2>10, <2>11, <2>12, <2>14, <2>15 DEF IInv
<1> QED BY <1>3, <1>4

(* pull_range: the rest of the last range.                                 *)
LEMMA PullPendingKeeps ==
    ASSUME IInv, PullPending
    PROVE  IInv'
<1>1. Shape /\ Control /\ OpenOk /\ Sizes /\ OutOk /\ Query
  BY DEF IInv
<1>2. /\ call.at = "pull" /\ reader.pending # Unset
      /\ table' = table /\ there' = there /\ open' = open /\ req' = req /\ scan' = scan
      /\ out' = out /\ failed' = failed /\ answer' = answer
      /\ reader' = [reader EXCEPT !.pending = Unset]
  BY DEF PullPending
<1> DEFINE x == [part |-> reader.pending.part, range |-> reader.pending.range]
           at == IF req.batch = Unset THEN "resolve" ELSE "read"
<1>3. call' = [call EXCEPT !.at = at, !.take = x]
  BY DEF PullPending, Take
<1>4. x = reader.pending /\ x \in Takes /\ x # Unset
  <2>1. reader.pending \in Takes
    BY <1>1, <1>2, Parts
  <2>2. x = reader.pending
    BY <2>1 DEF Takes
  <2> HIDE DEF x
  <2> QED BY <1>2, <2>1, <2>2
<1> HIDE DEF x
<1>5. call'.at = at /\ call'.take = x /\ call'.rows = call.rows
  BY <1>1, <1>3 DEF Shape
<1>6. reader'.pending = Unset /\ reader'.ended = reader.ended /\ reader'.proj = reader.proj
  BY <1>1, <1>2 DEF Shape
<1>7. /\ Names' = Names /\ Datasets' = Datasets /\ AnyField' = AnyField /\ AllRows' = AllRows
      /\ Takes' = Takes /\ Tried' = Tried
  BY <1>2 DEF Names, Datasets, AnyField, AllRows, Takes, Tried
<1>8. call.take = Unset /\ (req.batch = Unset => call.rows = <<>>) /\ ~reader.ended
  BY <1>1, <1>2, Parts DEF Control
<1>9. req \in Requests
  BY <1>1, <1>2 DEF Control, Shape
<1>10. Shape'
  <2>1. reader' \in [proj : SUBSET AnyField, pending : Takes \cup {Unset}, ended : BOOLEAN]
    BY <1>1, <1>2 DEF Shape
  <2>2. call' \in [at : Places, take : Takes \cup {Unset}, rows : Seq(AllRows)]
    BY <1>1, <1>3, <1>4 DEF Shape, Places
  <2> QED BY <1>1, <1>2, <1>7, <2>1, <2>2 DEF Shape
<1>11. Control'
  BY <1>1, <1>2, <1>4, <1>5, <1>6, <1>8, <1>9, NotUnset DEF Control, Shape
<1>12. OpenOk'
  BY <1>1, <1>2, <1>4, <1>5, <1>6, <1>7 DEF OpenOk
<1>13. Sizes'
  BY <1>1, <1>2, <1>6 DEF Sizes
<1>14. Fetched' = Fetched /\ Passed' = Passed
  BY <1>2, <1>4, <1>5, <1>6, <1>8, Nothing DEF Fetched, Passed
<1>15. OutOk'
  BY <1>1, <1>2, <1>5, <1>14 DEF OutOk
<1>16. Query'
  BY <1>1, <1>2, <1>5, <1>14 DEF Query
<1> QED BY <1>10, <1>11, <1>12, <1>13, <1>15, <1>16 DEF IInv

(* TableScanner.next: a range of the partition that is open.               *)
LEMMA PullRangeKeeps ==
    ASSUME IInv, PullRange
    PROVE  IInv'
<1>1. Shape /\ Control /\ OpenOk /\ Sizes /\ OutOk /\ Query
  BY DEF IInv
<1> DEFINE h == Head(scan.ranges)
           handed == CutTo(h[2], scan.room)
           n == CutTo(handed, scan.left)
           x == [part |-> scan.cur, range |-> <<h[1], n>>]
           at == IF req.batch = Unset THEN "resolve" ELSE "read"
           rest == IF scan.room = handed THEN <<>> ELSE Tail(scan.ranges)
           new == Stretch(scan.cur, h[1], n)
<1>2. /\ call.at = "pull" /\ reader.pending = Unset /\ scan.left # 0 /\ scan.ranges # <<>>
      /\ table' = table /\ there' = there /\ open' = open /\ req' = req /\ reader' = reader
      /\ out' = out /\ failed' = failed /\ answer' = answer
      /\ call' = [call EXCEPT !.at = at, !.take = x]
      /\ scan' = [scan EXCEPT !.ranges = rest, !.room = Less(@, handed), !.left = Less(@, n)]
  BY DEF PullRange, LimitMet, Take
<1>3. /\ scan.ranges \in Seq(Nat \X Nat) /\ scan.room = scan.left /\ scan.left \in Nat \cup {Unset}
      /\ scan.parts \in Seq(Names)
  BY <1>1, <1>2, Parts DEF Control
<1>4. /\ Core(table, req, scan.parts, scan.next, scan.cur, scan.ranges, scan.left, Passed, answer, failed)
      /\ InWindow(table, req, scan.parts)
      /\ ~failed => \A i \in 1 .. scan.next - 1 : FewBefore(req, scan.parts, i, answer)
  BY <1>1, <1>2 DEF Query
<1>5. scan.cur \in Names /\ Ascending(scan.ranges)
  BY <1>1, <1>2, CurIs
<1>6. h \in Nat \X Nat /\ h[1] \in Nat /\ h[2] \in Nat \ {0} /\ Tail(scan.ranges) \in Seq(Nat \X Nat)
  BY <1>2, <1>3, <1>5, RangesSplit
<1> HIDE DEF h
<1>7. /\ handed = CutTo(h[2], scan.left) /\ n = CutTo(h[2], scan.left)
      /\ n \in Nat \ {0} /\ Less(scan.left, n) \in Nat \cup {Unset}
  <2> DEFINE a == h[2]
             l == scan.left
  <2>1. handed = CutTo(a, l) /\ n = CutTo(CutTo(a, l), l)
    BY <1>3
  <2>2. a \in Nat \ {0} /\ l \in Nat \cup {Unset} /\ l # 0
    BY <1>2, <1>3, <1>6
  <2> HIDE DEF a, l, handed, n
  <2>3. /\ CutTo(a, l) \in Nat \ {0} /\ Less(l, CutTo(a, l)) \in Nat \cup {Unset}
        /\ CutTo(CutTo(a, l), l) = CutTo(a, l)
    BY <2>2, Cut
  <2>4. handed = CutTo(a, l) /\ n = CutTo(a, l)
    BY <2>1, <2>3
  <2>5. n \in Nat \ {0} /\ Less(l, n) \in Nat \cup {Unset}
    BY <2>3, <2>4
  <2> QED BY <2>4, <2>5 DEF a, l
<1> HIDE DEF handed, n
<1>8. handed = n /\ rest = IF scan.left = n THEN <<>> ELSE Tail(scan.ranges)
  BY <1>3, <1>7
<1> HIDE DEF rest
<1>9. rest \in Seq(Nat \X Nat) /\ (rest # <<>> => scan.ranges # <<>>)
  BY <1>2, <1>6, <1>8, Nothing
<1>10. x \in Takes /\ x # Unset /\ x.part = scan.cur /\ x.range[1] = h[1] /\ x.range[2] = n
  <2>1. x \in Takes
    BY <1>5, <1>6, <1>7 DEF Takes
  <2>2. x # Unset
    BY <1>1, <2>1, NotUnset DEF Shape
  <2> QED BY <2>1, <2>2
<1> HIDE DEF x
<1>11. call'.at = at /\ call'.take = x /\ call'.rows = call.rows
  BY <1>1, <1>2 DEF Shape
<1>12. /\ scan'.parts = scan.parts /\ scan'.next = scan.next /\ scan'.cur = scan.cur
       /\ scan'.ranges = rest /\ scan'.room = Less(scan.left, n) /\ scan'.left = Less(scan.left, n)
  BY <1>1, <1>2, <1>3, <1>8 DEF Shape
<1>13. /\ Names' = Names /\ Datasets' = Datasets /\ AnyField' = AnyField /\ AllRows' = AllRows
       /\ Takes' = Takes /\ Tried' = Tried
  BY <1>2, <1>12 DEF Names, Datasets, AnyField, AllRows, Takes, Tried
<1>14. call.take = Unset /\ (req.batch = Unset => call.rows = <<>>) /\ ~reader.ended
  BY <1>1, <1>2, Parts DEF Control
<1>15. req \in Requests /\ table \in Tables
  BY <1>1, <1>2 DEF Control, Shape
<1>16. Fetched = {} /\ Fetched' = new /\ Passed' = Passed \cup new
  <2>1. Fetched = {}
    BY <1>2, <1>14, Nothing DEF Fetched
  <2>2. Fetched' = new
    BY <1>2, <1>10, <1>11, Nothing DEF Fetched, RowsOf
  <2> QED BY <1>2, <1>11, <2>1, <2>2 DEF Passed
<1>17. /\ Core(table, req, scan.parts, scan.next, scan.cur, rest, Less(scan.left, n), Passed \cup new,
               answer, failed)
       /\ Follow(table, req, Passed, new)
  <2>1. FirstCut(scan.cur, scan.ranges, scan.left, n, new, rest)
    BY <1>7, <1>8 DEF h, FirstCut
  <2> HIDE DEF new
  <2> QED BY <1>2, <1>3, <1>4, <1>15, <2>1, CoreTakes
<1> HIDE DEF new
<1>18. Shape'
  <2>1. scan' \in [parts : Seq(Names), next : Nat, cur : Names \cup {Unset}, ranges : Seq(Nat \X Nat),
                   room : Nat \cup {Unset}, left : Nat \cup {Unset}]
    <3> DEFINE a == Less(scan.room, handed)
               b == Less(scan.left, n)
    <3>1. scan \in [parts : Seq(Names), next : Nat, cur : Names \cup {Unset}, ranges : Seq(Nat \X Nat),
                    room : Nat \cup {Unset}, left : Nat \cup {Unset}]
      BY <1>1 DEF Shape
    <3>2. scan' = [scan EXCEPT !.ranges = rest, !.room = a, !.left = b]
      BY <1>2
    <3>3. a \in Nat \cup {Unset} /\ b \in Nat \cup {Unset}
      BY <1>3, <1>7, <1>8
    <3>4. rest \in Seq(Nat \X Nat)
      BY <1>9
    <3> HIDE DEF a, b
    <3> QED BY <3>1, <3>2, <3>3, <3>4
  <2>2. call' \in [at : Places, take : Takes \cup {Unset}, rows : Seq(AllRows)]
    BY <1>1, <1>2, <1>10 DEF Shape, Places
  <2> QED BY <1>1, <1>2, <1>13, <2>1, <2>2 DEF Shape
<1>19. Control'
  BY <1>1, <1>2, <1>10, <1>11, <1>12, <1>14, <1>15, NotUnset DEF Control
<1>20. OpenOk'
  <2>1. n > 0
    BY <1>7
  <2> QED BY <1>1, <1>2, <1>9, <1>10, <1>11, <1>12, <1>13, <2>1 DEF OpenOk
<1>21. Sizes'
  BY <1>1, <1>2 DEF Sizes
<1>22. OutOk'
  <2>1. Follow(table, req, GivenBy(out) \cup Range(call.rows), new)
    BY <1>16, <1>17 DEF Passed, Follow
  <2>2. Batches(table, req, out, call.rows, new)
    BY <1>1, <2>1, BatchesFetch DEF OutOk
  <2> QED BY <1>2, <1>11, <1>16, <2>2 DEF OutOk
<1>23. Query'
  BY <1>2, <1>4, <1>11, <1>12, <1>16, <1>17 DEF Query
<1> QED BY <1>18, <1>19, <1>20, <1>21, <1>22, <1>23 DEF IInv

(* When the next partition is wanted, the rows asked for before it are all *)
(* handed out, and are fewer than the limit.                               *)
LEMMA FewSoFar ==
    ASSUME NEW t \in Tables, NEW r \in Requests, NEW parts, NEW next, NEW cur, NEW left, NEW S, NEW ans,
           Core(t, r, parts, next, cur, <<>>, left, S, ans, FALSE), left # 0
    PROVE  FewBefore(r, parts, next, ans)
<1> SUFFICES ASSUME r.limit # Unset
             PROVE  Cardinality({a \in ans : a[1] \in {parts[k] : k \in 1 .. next - 1}}) < r.limit
  BY DEF FewBefore
<1> DEFINE few == {a \in ans : a[1] \in {parts[k] : k \in 1 .. next - 1}}
<1>1. /\ PartsOk(t, r, parts, next, ans) /\ S \subseteq ans /\ CountOk(r, left, S, FALSE)
      /\ NoneMissed(t, r, parts, next, cur, <<>>, left, S, ans, FALSE)
  BY DEF Core
<1>2. /\ IsFiniteSet(ans) /\ next \in 1 .. Len(parts) + 1 /\ parts \in Seq(DOMAIN t.parts)
      /\ \A i, j \in 1 .. Len(parts) : i < j => PrecedesIn(t, r, parts[i], parts[j])
  BY <1>1 DEF PartsOk
<1>3. IsFiniteSet(S) /\ Cardinality(S) \in Nat
  BY <1>1, <1>2, FS_Subset, FS_CardinalityType
<1>4. few \subseteq S
  <2> SUFFICES ASSUME NEW a \in ans, NEW k \in 1 .. next - 1, a[1] = parts[k], a \notin S
               PROVE  FALSE
    OBVIOUS
  <2>1. PICK i \in next .. Len(parts) : a \in RowsAsked(t, r, parts[i])
    BY <1>1, NoRows DEF NoneMissed
  <2>2. parts[i] = parts[k]
    BY <2>1 DEF RowsAsked, Row
  <2>3. Len(parts) \in Nat
    BY <1>2, LenProperties
  <2>4. k \in 1 .. Len(parts) /\ i \in 1 .. Len(parts) /\ k < i
    BY <1>2, <2>3
  <2>5. PrecedesIn(t, r, parts[k], parts[k]) /\ parts[k] \in DOMAIN t.parts
    BY <1>2, <2>2, <2>4, ElementOfSeq
  <2> QED BY <2>5, PartOrder
<1>5. Cardinality(few) <= Cardinality(S) /\ Cardinality(few) \in Nat
  BY <1>3, <1>4, FS_Subset, FS_CardinalityType
<1>6. left \in Nat /\ Cardinality(S) + left = r.limit
  BY <1>1 DEF CountOk
<1> HIDE DEF few
<1>7. Cardinality(few) < r.limit
  BY <1>3, <1>5, <1>6
<1> QED BY <1>7 DEF few

(* TableScanner.next: the next partition.                                  *)
LEMMA PullOpenKeeps ==
    ASSUME IInv, PullOpen
    PROVE  IInv'
<1>1. Shape /\ Control /\ OpenOk /\ Sizes /\ OutOk /\ Query
  BY DEF IInv
<1> DEFINE p == scan.parts[scan.next]
           found == Found[table][req][p]
           fields == Opened(p) \cup FieldsFor(found)
<1>2. /\ call.at = "pull" /\ reader.pending = Unset /\ scan.left # 0 /\ scan.ranges = <<>>
      /\ scan.next <= Len(scan.parts) /\ OpenNext(p, found)
      /\ table' = table /\ there' = there /\ req' = req /\ reader' = reader /\ answer' = answer
  BY DEF PullOpen, LimitMet
<1>3. table \in Tables /\ req \in Requests
  BY <1>1, <1>2 DEF Control, Shape
<1>4. /\ Core(table, req, scan.parts, scan.next, scan.cur, <<>>, scan.left, Passed, answer, failed)
      /\ InWindow(table, req, scan.parts)
      /\ ~failed => \A i \in 1 .. scan.next - 1 : FewBefore(req, scan.parts, i, answer)
  BY <1>1, <1>2 DEF Query
<1>5. scan.next \in 1 .. Len(scan.parts) /\ scan.next \in Nat /\ scan.parts \in Seq(Names)
  <2>1. scan.next \in 1 .. Len(scan.parts) + 1
    BY <1>4 DEF Core, PartsOk
  <2> QED BY <1>1, <1>2, <2>1, Parts
<1>6. p \in Names
  BY <1>5, ElementOfSeq
<1>7. CASE ~Openable(p, found)
  <2>1. /\ scan' = [scan EXCEPT !.next = @ + 1] /\ Fail
        /\ open' = IF CanOpen(p) THEN [open EXCEPT ![p] = Opened(p)] ELSE open
    BY <1>2, <1>7 DEF OpenNext
  <2>2. p \in Tried'
    <3>1. scan'.parts = scan.parts /\ scan'.next = scan.next + 1
      BY <1>1, <2>1 DEF Shape
    <3>2. scan.next \in 1 .. (scan.next + 1) - 1
      BY <1>5
    <3> QED BY <3>1, <3>2 DEF Tried
  <2> HIDE DEF p, found
  <2> QED BY <1>2, <1>6, <2>1, <2>2, FailKeeps
<1>8. CASE Openable(p, found)
  <2>1. /\ scan' = [scan EXCEPT !.next = @ + 1, !.cur = p, !.ranges = found, !.room = scan.left]
        /\ open' = [open EXCEPT ![p] = fields] /\ call' = call /\ out' = out /\ failed' = failed
        /\ found # Failed
    BY <1>2, <1>8 DEF OpenNext, Openable
  <2>2. /\ found \in Seq(Nat \X Nat)
        /\ fields \subseteq DOMAIN Datasets[p].cols /\ fields # Unset /\ fields \in SUBSET AnyField
    <3>1. found \in Seq(Nat \X Nat) /\ Needed[req] \subseteq DOMAIN Datasets[p].cols
      BY <1>3, <1>6, <2>1, AnswerIs DEF Names, Datasets
    <3>2. fields \subseteq DOMAIN Datasets[p].cols
      BY <1>1, <1>6, <2>1, <3>1 DEF Shape, Opened, FieldsFor
    <3>3. DOMAIN Datasets[p].cols \subseteq AnyField
      BY <1>6 DEF AnyField
    <3> HIDE DEF fields, p
    <3>4. fields # Unset
      BY <1>3, <1>6, <3>2, NotUnset
    <3> QED BY <3>1, <3>2, <3>3, <3>4
  <2>3. Core(table, req, scan.parts, scan.next + 1, p, found, scan.left, Passed, answer, failed)
    BY <1>2, <1>3, <1>4, <2>1, CoreOpens
  <2>4. ~failed => FewBefore(req, scan.parts, scan.next, answer)
    <3>1. ASSUME ~failed PROVE Core(table, req, scan.parts, scan.next, scan.cur, <<>>, scan.left,
                                    Passed, answer, FALSE)
      BY <1>1, <1>4, <3>1 DEF Shape
    <3> QED BY <1>2, <1>3, <3>1, FewSoFar
  <2> HIDE DEF fields, found, p
  <2>5. /\ scan'.parts = scan.parts /\ scan'.next = scan.next + 1 /\ scan'.cur = p
        /\ scan'.ranges = found /\ scan'.room = scan.left /\ scan'.left = scan.left
    BY <1>1, <2>1 DEF Shape
  <2>6. /\ Names' = Names /\ Datasets' = Datasets /\ AnyField' = AnyField /\ AllRows' = AllRows
        /\ Takes' = Takes
    BY <1>2 DEF Names, Datasets, AnyField, AllRows, Takes
  <2>7. /\ open' \in [Names -> {Unset} \cup SUBSET AnyField]
        /\ \A q \in Names : q # p => open'[q] = open[q]
        /\ open'[p] = fields
    BY <1>1, <1>6, <2>1, <2>2 DEF Shape
  <2>8. Tried \subseteq Tried' /\ p \in Tried'
    <3>1. \A i \in 1 .. scan.next - 1 : i \in 1 .. (scan.next + 1) - 1
      BY <1>5
    <3>2. scan.next \in 1 .. (scan.next + 1) - 1
      BY <1>5
    <3>3. p = scan.parts[scan.next]
      BY DEF p
    <3> QED BY <2>5, <3>1, <3>2, <3>3 DEF Tried
  <2>9. Shape'
    <3>1. scan.next + 1 \in Nat
      BY <1>5
    <3>2. scan' \in [parts : Seq(Names), next : Nat, cur : Names \cup {Unset}, ranges : Seq(Nat \X Nat),
                     room : Nat \cup {Unset}, left : Nat \cup {Unset}]
      BY <1>1, <1>6, <2>1, <2>2, <3>1 DEF Shape
    <3>3. \A q \in Names : open'[q] = Unset \/ open'[q] \subseteq DOMAIN Datasets[q].cols
      BY <1>1, <2>2, <2>7 DEF Shape
    <3> QED BY <1>1, <1>2, <2>1, <2>6, <2>7, <3>2, <3>3 DEF Shape
  <2>10. Control'
    BY <1>1, <1>2, <2>1, <2>5 DEF Control
  <2>11. OpenOk'
    <3>1. /\ call.take # Unset => call.take.part \in Names
          /\ reader.pending # Unset => reader.pending.part \in Names
      BY <1>1, Parts DEF Takes
    <3>2. \A q \in Names : open[q] # Unset => open'[q] # Unset
      BY <2>2, <2>7
    <3>3. \A q \in Names : open'[q] # Unset /\ q \notin Tried' => open[q] # Unset /\ q \notin Tried
      BY <2>7, <2>8
    <3>4. open'[p] # Unset
      BY <2>2, <2>7
    <3> QED BY <1>1, <1>2, <2>1, <2>5, <2>6, <3>1, <3>2, <3>3, <3>4 DEF OpenOk
  <2>12. Sizes'
    BY <1>1, <1>2, <2>1 DEF Sizes
  <2>13. Fetched' = Fetched /\ Passed' = Passed
    BY <1>2, <2>1 DEF Fetched, Passed
  <2>14. OutOk'
    BY <1>1, <1>2, <2>1, <2>13 DEF OutOk
  <2>15. Query'
    <3>1. \A i \in 1 .. (scan.next + 1) - 1 : i = scan.next \/ i \in 1 .. scan.next - 1
      BY <1>5
    <3> QED BY <1>2, <1>4, <2>1, <2>3, <2>4, <2>5, <2>13, <3>1 DEF Query
  <2> QED BY <2>9, <2>10, <2>11, <2>12, <2>14, <2>15 DEF IInv
<1> QED BY <1>7, <1>8

(* Rows are given out as a batch, if there are any.                        *)
GivenOut(t, r, X, batches, rows, fetched, then) ==
    /\ then \in Seq(Seq(X)) /\ GivenBy(then) = GivenBy(batches) \cup Range(rows)
    /\ Batches(t, r, then, <<>>, fetched)
    /\ \A i \in DOMAIN then : \/ i \in DOMAIN batches /\ i # Len(then) /\ then[i] = batches[i]
                              \/ i = Len(then) /\ then[i] = rows /\ rows # <<>>
                              \/ then = batches /\ rows = <<>>

(* Return gives out the rows put together, and none are left.              *)
LEMMA Gives ==
    ASSUME NEW t, NEW r, NEW X, NEW batches \in Seq(Seq(X)), NEW rows \in Seq(X), NEW fetched,
           Batches(t, r, batches, rows, fetched),
           NEW then, then = IF rows = <<>> THEN batches ELSE Append(batches, rows)
    PROVE  GivenOut(t, r, X, batches, rows, fetched, then)
<1>1. CASE rows = <<>>
  <2>1. Batches(t, r, batches, <<>>, fetched) /\ Range(rows) = {}
    BY <1>1, BatchesLose, Nothing
  <2> QED BY <1>1, <2>1 DEF GivenOut
<1>2. CASE rows # <<>>
  <2>1. then = Append(batches, rows)
    BY <1>2
  <2>2. then \in Seq(Seq(X)) /\ Len(then) = Len(batches) + 1
    BY <2>1, AppendProperties
  <2>3. Batches(t, r, then, <<>>, fetched)
    BY <2>1, BatchesGive
  <2>4. /\ GivenBy(then) = GivenBy(batches) \cup Range(rows)
        /\ DOMAIN then = DOMAIN batches \cup {Len(batches) + 1}
        /\ \A i \in DOMAIN batches : then[i] = batches[i] /\ i < Len(batches) + 1 /\ i \in Nat
        /\ then[Len(batches) + 1] = rows
    BY <2>1, GivenWith
  <2>5. \A i \in DOMAIN batches : i # Len(then)
    BY <2>2, <2>4, LenProperties
  <2> HIDE <1>2
  <2>6. \A i \in DOMAIN then : \/ i \in DOMAIN batches /\ i # Len(then) /\ then[i] = batches[i]
                               \/ i = Len(then) /\ then[i] = rows
    BY <2>2, <2>4, <2>5
  <2> QED BY <1>2, <2>2, <2>3, <2>4, <2>6 DEF GivenOut
<1> QED BY <1>1, <1>2

(* next_batch: nothing is left, and the last batch may be short.           *)
LEMMA PullEndKeeps ==
    ASSUME IInv, PullEnd
    PROVE  IInv'
<1>1. Shape /\ Control /\ OpenOk /\ Sizes /\ OutOk /\ Query
  BY DEF IInv
<1>2. /\ call.at = "pull" /\ reader.pending = Unset
      /\ scan.left = 0 \/ (scan.ranges = <<>> /\ scan.next > Len(scan.parts))
      /\ reader' = [reader EXCEPT !.ended = TRUE]
      /\ table' = table /\ there' = there /\ open' = open /\ req' = req /\ scan' = scan
      /\ answer' = answer
  BY DEF PullEnd, LimitMet
<1>3. reader'.ended = TRUE /\ reader'.pending = Unset /\ reader'.proj = reader.proj
  BY <1>1, <1>2 DEF Shape
<1>4. /\ call' = [Idle EXCEPT !.at = "done"] /\ failed' = failed
      /\ out' = IF call.rows = <<>> THEN out ELSE Append(out, call.rows)
  BY <1>3 DEF PullEnd, Return
<1>5. call'.at = "done" /\ call'.take = Unset /\ call'.rows = <<>>
  BY <1>4 DEF Idle
<1>6. /\ Names' = Names /\ Datasets' = Datasets /\ AnyField' = AnyField /\ AllRows' = AllRows
      /\ Takes' = Takes /\ Tried' = Tried
  BY <1>2 DEF Names, Datasets, AnyField, AllRows, Takes, Tried
<1>7. /\ call.take = Unset /\ ~reader.ended
      /\ IF req.batch = Unset THEN call.rows = <<>> ELSE Len(call.rows) < req.batch
  BY <1>1, <1>2, Parts DEF Control
<1>8. Fetched = {} /\ Fetched' = {}
  BY <1>2, <1>3, <1>5, <1>7, Nothing DEF Fetched
<1>9. GivenOut(table, req, AllRows, out, call.rows, Fetched, out')
  <2>1. out \in Seq(Seq(AllRows)) /\ call.rows \in Seq(AllRows)
    BY <1>1, Parts DEF Shape
  <2>2. Batches(table, req, out, call.rows, Fetched)
    BY <1>1 DEF OutOk
  <2> QED BY <1>4, <2>1, <2>2, Gives
<1>10. Passed' = Passed
  <2>1. GivenBy(out') = GivenBy(out) \cup Range(call.rows)
    BY <1>9 DEF GivenOut
  <2> QED BY <1>5, <1>8, <2>1, Nothing DEF Passed
<1>11. Shape'
  <2>1. reader' \in [proj : SUBSET AnyField, pending : Takes \cup {Unset}, ended : BOOLEAN]
    BY <1>1, <1>2 DEF Shape
  <2>2. call' \in [at : Places, take : Takes \cup {Unset}, rows : Seq(AllRows)]
    BY <1>4, Nothing DEF Idle, Places
  <2>3. out' \in Seq(Seq(AllRows))
    BY <1>9 DEF GivenOut
  <2> QED BY <1>1, <1>2, <1>4, <1>6, <2>1, <2>2, <2>3 DEF Shape
<1>12. Control'
  BY <1>1, <1>2, <1>3, <1>5 DEF Control
<1>13. OpenOk'
  BY <1>1, <1>2, <1>3, <1>5, <1>6 DEF OpenOk
<1>14. Sizes'
  <2> SUFFICES ASSUME NEW i \in DOMAIN out'
               PROVE  /\ out'[i] # <<>>
                      /\ req.batch # Unset =>
                            \/ Len(out'[i]) = req.batch
                            \/ i = Len(out') /\ Len(out'[i]) < req.batch
    BY <1>2, <1>3 DEF Sizes
  <2>1. \A j \in DOMAIN out : out[j] # <<>> /\ (req.batch # Unset => Len(out[j]) = req.batch)
    BY <1>1, <1>7 DEF Sizes
  <2> QED BY <1>7, <1>9, <2>1 DEF GivenOut
<1>15. OutOk'
  BY <1>2, <1>5, <1>8, <1>9 DEF OutOk, GivenOut
<1>16. Query'
  BY <1>1, <1>2, <1>4, <1>5, <1>10 DEF Query
<1> QED BY <1>11, <1>12, <1>13, <1>14, <1>15, <1>16 DEF IInv

(* read_rows: the fields are opened, what the batch has room for is put to *)
(* it, and the rest of the range is kept.                                  *)
LEMMA RestIs ==
    ASSUME table \in Tables, NEW x \in Takes, NEW n \in Nat, n <= x.range[2], NEW rest, rest = Rest(x, n)
    PROVE  /\ rest \in Takes \cup {Unset}
           /\ RowsOf(rest) = Stretch(x.part, x.range[1] + n, x.range[2] - n)
           /\ rest # Unset => rest.part = x.part /\ rest.range[2] > 0
<1>1. x.part \in Names /\ x.range \in Nat \X Nat /\ x.range[1] \in Nat /\ x.range[2] \in Nat
  BY DEF Takes
<1>2. CASE n = x.range[2]
  <2>1. rest = Unset
    BY <1>2 DEF Rest
  <2>2. \A k : k \notin x.range[1] + n .. (x.range[1] + n) + (x.range[2] - n) - 1
    BY <1>1, <1>2
  <2>3. Stretch(x.part, x.range[1] + n, x.range[2] - n) = {}
    BY <2>2 DEF Stretch
  <2> QED BY <2>1, <2>3, Nothing
<1>3. CASE n # x.range[2]
  <2> DEFINE o == x.range[1] + n
             m == x.range[2] - n
  <2>1. rest = [part |-> x.part, range |-> <<o, m>>]
    BY <1>3 DEF Rest
  <2>2. o \in Nat /\ m \in Nat /\ m > 0
    BY <1>1, <1>3
  <2> HIDE DEF o, m
  <2>3. rest \in Takes /\ rest.part = x.part /\ rest.range[1] = o /\ rest.range[2] = m
    BY <1>1, <2>1, <2>2 DEF Takes
  <2>4. rest # Unset
    BY <2>3, NotUnset
  <2>5. RowsOf(rest) = Stretch(x.part, o, m)
    BY <2>3, <2>4 DEF RowsOf
  <2> QED BY <2>2, <2>3, <2>5 DEF o, m
<1> QED BY <1>2, <1>3

(* read_rows and the end of next_batch.                                    *)
LEMMA ReadRowsKeeps ==
    ASSUME IInv, ReadRows
    PROVE  IInv'
<1>1. Shape /\ Control /\ OpenOk /\ Sizes /\ OutOk /\ Query
  BY DEF IInv
<1> DEFINE x == call.take
           cols == reader.proj \ Reserved
           n == IF req.batch = Unset THEN x.range[2] ELSE Room(x)
           more == call.rows \o [k \in 1 .. n |-> Row(x.part, x.range[1] + k - 1)]
           ok == cols \subseteq DOMAIN Datasets[x.part].cols /\ (x.part \in there \/ cols \subseteq Opened(x.part))
           full == req.batch = Unset \/ Len(more) >= req.batch
<1>2. /\ call.at = "read" /\ table' = table /\ there' = there /\ req' = req /\ scan' = scan
      /\ answer' = answer
  BY DEF ReadRows
<1>3. CASE ~ok
  <2>1. Fail /\ open' = open /\ reader' = reader
    BY <1>3 DEF ReadRows
  <2> QED BY <1>2, <2>1, FailKeeps
<1>4. CASE ok
  <2>1. /\ open' = [open EXCEPT ![x.part] = @ \cup cols]
        /\ reader' = [reader EXCEPT !.pending = Rest(x, n)]
        /\ full => Return(more)
        /\ ~full => /\ call' = [at |-> "pull", take |-> Unset, rows |-> more]
                    /\ out' = out /\ failed' = failed
    BY <1>4 DEF ReadRows
  <2>2. table \in Tables /\ req \in Requests
    BY <1>1, <1>2 DEF Control, Shape
  <2>3. /\ x \in Takes /\ x # Unset /\ reader.pending = Unset /\ ~reader.ended
        /\ open[x.part] # Unset /\ x.range[2] > 0
        /\ IF req.batch = Unset THEN call.rows = <<>> ELSE Len(call.rows) < req.batch
        /\ call.rows \in Seq(AllRows) /\ Len(call.rows) \in Nat
    BY <1>1, <1>2, Parts DEF Control, OpenOk
  <2>4. x.part \in Names /\ x.range[1] \in Nat /\ x.range[2] \in Nat
    BY <2>3 DEF Takes
  <2>5. cols \subseteq DOMAIN Datasets[x.part].cols
    BY <1>4
  <2> HIDE DEF cols, x
  <2>6. /\ n \in Nat \ {0} /\ n <= x.range[2]
        /\ req.batch # Unset => req.batch \in Nat /\ Len(call.rows) + n <= req.batch
        /\ req.batch = Unset => n = x.range[2]
    <3>1. CASE req.batch = Unset
      BY <2>3, <2>4, <3>1
    <3>2. CASE req.batch # Unset
      <4>1. req.batch \in Nat /\ Len(call.rows) < req.batch
        BY <2>2, <2>3, <3>2, RequestAssumption
      <4> QED BY <2>3, <2>4, <3>2, <4>1, SMTT(30) DEF Room, Lower
    <3> QED BY <3>1, <3>2
  <2>7. more = call.rows \o Read(x.part, x.range[1], n)
    BY DEF Read
  <2> HIDE DEF more, n
  <2>8. Fetched = Stretch(x.part, x.range[1], x.range[2])
    BY <2>3, Nothing DEF Fetched, RowsOf, x
  <2>9. /\ more \in Seq(AllRows) /\ Len(more) = Len(call.rows) + n
        /\ Range(more) = Range(call.rows) \cup Stretch(x.part, x.range[1], n)
        /\ Batches(table, req, out, more, Stretch(x.part, x.range[1] + n, x.range[2] - n))
    <3>1. Batches(table, req, out, call.rows, Stretch(x.part, x.range[1], x.range[2]))
      BY <1>1, <2>8 DEF OutOk
    <3>2. call.rows \in Seq(Names \X Nat) /\ n \in Nat /\ n <= x.range[2]
      BY <2>3, <2>6 DEF AllRows
    <3>3. BatchRead(table, req, Names, out, call.rows, x.part, x.range[1], x.range[2], n, more)
      BY <2>4, <2>7, <3>1, <3>2, BatchesRead
    <3> QED BY <3>3 DEF AllRows, BatchRead
  <2>10. /\ reader'.pending = Rest(x, n) /\ reader'.ended = FALSE /\ reader'.proj = reader.proj
    BY <1>1, <2>1, <2>3 DEF Shape
  <2>11. /\ reader'.pending \in Takes \cup {Unset}
         /\ RowsOf(reader'.pending) = Stretch(x.part, x.range[1] + n, x.range[2] - n)
         /\ reader'.pending # Unset => reader'.pending.part = x.part /\ reader'.pending.range[2] > 0
    BY <2>2, <2>3, <2>6, <2>10, RestIs
  <2>12. /\ Names' = Names /\ Datasets' = Datasets /\ AnyField' = AnyField /\ AllRows' = AllRows
         /\ Takes' = Takes /\ Tried' = Tried
    BY <1>2 DEF Names, Datasets, AnyField, AllRows, Takes, Tried
  <2>13. /\ call'.at \in {"idle", "pull"} /\ call'.take = Unset
         /\ call' \in [at : Places, take : Takes \cup {Unset}, rows : Seq(AllRows)]
         /\ failed' = failed /\ out' \in Seq(Seq(AllRows))
         /\ call'.at = "idle" => call'.rows = <<>>
         /\ call'.at = "pull" => req.batch # Unset /\ Len(call'.rows) < req.batch
         /\ GivenBy(out') \cup Range(call'.rows) = GivenBy(out) \cup Range(more)
         /\ Batches(table, req, out', call'.rows, Stretch(x.part, x.range[1] + n, x.range[2] - n))
         /\ \A i \in DOMAIN out' : \/ i \in DOMAIN out /\ out'[i] = out[i]
                                   \/ /\ out'[i] # <<>>
                                      /\ req.batch # Unset => Len(out'[i]) = req.batch
    <3>1. Len(more) \in Nat /\ Len(more) > 0 /\ more # <<>>
      BY <2>3, <2>6, <2>9, Nothing
    <3>2. CASE full
      <4>1. Return(more)
        BY <2>1, <3>2
      <4>2. call' = Idle /\ out' = Append(out, more) /\ failed' = failed
        BY <2>10, <3>1, <4>1 DEF Return
      <4>3. call'.at = "idle" /\ call'.take = Unset /\ call'.rows = <<>>
        BY <4>2 DEF Idle
      <4>4. call' \in [at : Places, take : Takes \cup {Unset}, rows : Seq(AllRows)]
        BY <4>2, Nothing DEF Idle, Places
      <4>5. GivenOut(table, req, AllRows, out, more,
                     Stretch(x.part, x.range[1] + n, x.range[2] - n), out')
        <5>1. out \in Seq(Seq(AllRows)) /\ out' = IF more = <<>> THEN out ELSE Append(out, more)
          BY <1>1, <3>1, <4>2 DEF Shape
        <5> QED BY <2>9, <5>1, Gives
      <4>6. req.batch # Unset => Len(more) = req.batch
        BY <2>3, <2>6, <2>9, <3>2
      <4> QED BY <3>1, <4>2, <4>3, <4>4, <4>5, <4>6, Nothing DEF GivenOut
    <3>3. CASE ~full
      <4>1. call' = [at |-> "pull", take |-> Unset, rows |-> more] /\ out' = out /\ failed' = failed
        BY <2>1, <3>3
      <4>2. call'.at = "pull" /\ call'.take = Unset /\ call'.rows = more
        BY <4>1
      <4>3. call' \in [at : Places, take : Takes \cup {Unset}, rows : Seq(AllRows)]
        BY <2>9, <4>1 DEF Places
      <4>4. req.batch # Unset /\ Len(more) < req.batch
        BY <2>6, <3>1, <3>3
      <4> QED BY <1>1, <2>9, <4>1, <4>2, <4>3, <4>4 DEF Shape
    <3> QED BY <3>2, <3>3
  <2> HIDE DEF ok, full
  <2>14. Fetched' = Stretch(x.part, x.range[1] + n, x.range[2] - n)
    BY <2>11, <2>13, Nothing DEF Fetched
  <2>15. Passed' = Passed
    <3>1. Splits(x.part, x.range[1], x.range[2], n)
      BY <2>4, <2>6, StretchSplit
    <3> QED BY <2>8, <2>9, <2>13, <2>14, <3>1 DEF Passed, Splits
  <2>16. /\ open' \in [Names -> {Unset} \cup SUBSET AnyField]
         /\ \A q \in Names : /\ open'[q] = Unset \/ open'[q] \subseteq DOMAIN Datasets[q].cols
                             /\ open[q] # Unset <=> open'[q] # Unset
    <3> DEFINE fields == open[x.part] \cup cols
    <3>1. fields \subseteq DOMAIN Datasets[x.part].cols
      BY <1>1, <2>3, <2>4, <2>5 DEF Shape
    <3>2. DOMAIN Datasets[x.part].cols \subseteq AnyField
      BY <2>4 DEF AnyField
    <3>3. open' = [open EXCEPT ![x.part] = fields]
      BY <2>1
    <3> HIDE DEF fields
    <3>4. fields # Unset
      BY <2>2, <2>4, <3>1, NotUnset
    <3>5. fields \in SUBSET AnyField
      BY <3>1, <3>2
    <3>6. /\ open' \in [Names -> {Unset} \cup SUBSET AnyField]
          /\ \A q \in Names : open'[q] = IF q = x.part THEN fields ELSE open[q]
      BY <1>1, <2>4, <3>3, <3>5 DEF Shape
    <3> QED BY <1>1, <2>3, <3>1, <3>4, <3>6 DEF Shape
  <2>17. Shape'
    <3>1. reader' \in [proj : SUBSET AnyField, pending : Takes \cup {Unset}, ended : BOOLEAN]
      BY <1>1, <2>1, <2>10, <2>11 DEF Shape
    <3> QED BY <1>1, <1>2, <2>12, <2>13, <2>16, <3>1 DEF Shape
  <2>18. Control'
    BY <1>1, <1>2, <2>2, <2>10, <2>13, NotUnset DEF Control
  <2>19. OpenOk'
    <3>1. scan.ranges # <<>> => scan.cur \in Names
      BY <1>1, CurIs
    <3> QED BY <1>1, <1>2, <2>3, <2>4, <2>10, <2>11, <2>12, <2>13, <2>16, <3>1 DEF OpenOk
  <2>20. Sizes'
    <3>1. \A j \in DOMAIN out : out[j] # <<>> /\ (req.batch # Unset => Len(out[j]) = req.batch)
      BY <1>1, <2>3 DEF Sizes
    <3> QED BY <1>2, <2>13, <3>1 DEF Sizes
  <2>21. OutOk'
    BY <1>2, <2>13, <2>14 DEF OutOk
  <2>22. Query'
    BY <1>1, <1>2, <2>13, <2>15 DEF Query
  <2> QED BY <2>17, <2>18, <2>19, <2>20, <2>21, <2>22 DEF IInv
<1> QED BY <1>3, <1>4

(* Another process deletes a partition: what is open stays open.           *)
LEMMA VanishKeeps ==
    ASSUME IInv, NEW p, Vanish(p)
    PROVE  IInv'
<1>1. Shape /\ Control /\ OpenOk /\ Sizes /\ OutOk /\ Query
  BY DEF IInv
<1>2. /\ there' \subseteq there /\ table' = table /\ open' = open /\ req' = req /\ scan' = scan
      /\ reader' = reader /\ call' = call /\ out' = out /\ failed' = failed /\ answer' = answer
  BY DEF Vanish
<1>3. /\ Names' = Names /\ Datasets' = Datasets /\ AnyField' = AnyField /\ AllRows' = AllRows
      /\ Takes' = Takes /\ Tried' = Tried /\ Fetched' = Fetched /\ Passed' = Passed
  BY <1>2 DEF Names, Datasets, AnyField, AllRows, Takes, Tried, Fetched, Passed
<1>4. Shape'
  BY <1>1, <1>2, <1>3 DEF Shape
<1>5. Control' /\ OpenOk' /\ Sizes'
  BY <1>1, <1>2, <1>3 DEF Control, OpenOk, Sizes
<1>6. OutOk' /\ Query'
  BY <1>1, <1>2, <1>3 DEF OutOk, Query
<1> QED BY <1>4, <1>5, <1>6 DEF IInv

(* Nothing happens.                                                        *)
LEMMA StutterKeeps ==
    ASSUME IInv, UNCHANGED vars
    PROVE  IInv'
<1>1. Shape /\ Control /\ OpenOk /\ Sizes /\ OutOk /\ Query
  BY DEF IInv
<1>2. /\ there' = there /\ table' = table /\ open' = open /\ req' = req /\ scan' = scan
      /\ reader' = reader /\ call' = call /\ out' = out /\ failed' = failed /\ answer' = answer
  BY DEF vars
<1>3. /\ Names' = Names /\ Datasets' = Datasets /\ AnyField' = AnyField /\ AllRows' = AllRows
      /\ Takes' = Takes /\ Tried' = Tried /\ Fetched' = Fetched /\ Passed' = Passed
  BY <1>2 DEF Names, Datasets, AnyField, AllRows, Takes, Tried, Fetched, Passed
<1>4. Shape'
  BY <1>1, <1>2, <1>3 DEF Shape
<1>5. Control' /\ OpenOk' /\ Sizes'
  BY <1>1, <1>2, <1>3 DEF Control, OpenOk, Sizes
<1>6. OutOk' /\ Query'
  BY <1>1, <1>2, <1>3 DEF OutOk, Query
<1> QED BY <1>4, <1>5, <1>6 DEF IInv

----------------------------------------------------------------------------
(* The invariant holds at first, and every step keeps it.                  *)
LEMMA InitIInv ==
    ASSUME Init
    PROVE  IInv
<1>1. /\ table \in Tables /\ there = Names /\ open = [p \in Names |-> Unset] /\ req = Unset
      /\ scan = [parts |-> <<>>, next |-> 1, cur |-> Unset, ranges |-> <<>>,
                 room |-> Unset, left |-> Unset]
      /\ reader = [proj |-> {}, pending |-> Unset, ended |-> FALSE]
      /\ call = [Idle EXCEPT !.at = "new"] /\ out = <<>> /\ failed = FALSE /\ answer = {}
  BY DEF Init, Names, Datasets
<1>2. call.at = "new" /\ call.take = Unset /\ call.rows = <<>>
  BY <1>1 DEF Idle
<1>3. call \in [at : Places, take : Takes \cup {Unset}, rows : Seq(AllRows)]
  BY <1>1, Nothing DEF Idle, Places
<1>4. Shape
  BY <1>1, <1>3, Nothing DEF Shape
<1>5. Control
  BY <1>1, <1>2 DEF Control
<1>6. OpenOk
  BY <1>1, <1>2 DEF OpenOk
<1>7. Sizes /\ OutOk
  BY <1>1, <1>2, Nothing DEF Sizes, OutOk, Batches, InOrder, Follow, Fetched
<1>8. Query
  BY <1>2 DEF Query
<1> QED BY <1>4, <1>5, <1>6, <1>7, <1>8 DEF IInv

(* Every step keeps the invariant.                                         *)
LEMMA NextIInv ==
    ASSUME IInv, [Next]_vars
    PROVE  IInv'
<1>1. CASE UNCHANGED vars
  BY <1>1, StutterKeeps
<1>2. ASSUME NEW r \in Requests, ScanTable(r) PROVE IInv'
  BY <1>2, ScanTableKeeps
<1>3. CASE CallNext
  BY <1>3, CallNextKeeps
<1>4. CASE Resolve
  BY <1>4, ResolveKeeps
<1>5. CASE PullPending
  BY <1>5, PullPendingKeeps
<1>6. CASE PullRange
  BY <1>6, PullRangeKeeps
<1>7. CASE PullOpen
  BY <1>7, PullOpenKeeps
<1>8. CASE PullEnd
  BY <1>8, PullEndKeeps
<1>9. CASE ReadRows
  BY <1>9, ReadRowsKeeps
<1>10. ASSUME NEW p \in Names, Vanish(p) PROVE IInv'
  BY <1>10, VanishKeeps
<1> QED BY <1>1, <1>2, <1>3, <1>4, <1>5, <1>6, <1>7, <1>8, <1>9, <1>10 DEF Next, Reading

(* THEOREM: a query keeps its account of the rows: what it has given out,  *)
(* put together, taken and not reached yet is what was asked for, in       *)
(* order, and within the limit (TableScanner, TableBatchReader).           *)
THEOREM QueryInvariant == Spec => []IInv
<1>1. Init => IInv
  BY InitIInv
<1>2. IInv /\ [Next]_vars => IInv'
  BY NextIInv
<1> QED BY <1>1, <1>2, PTL DEF Spec

----------------------------------------------------------------------------
(* What the invariant says of what is given out.                           *)
LEMMA IsGiven ==
    /\ Given = GivenBy(out)
    /\ \A a, b : Before(a, b) <=> RowPrecedes(table, req, a, b)
BY DEF Given, GivenBy, Before, RowPrecedes, Earlier, FirstTime, Datasets, PrecedesIn

(* What is given out is a part of what the account says was handed out.    *)
LEMMA GivenIsInOrder ==
    ASSUME IInv
    PROVE  GivenInOrder
<1>1. Shape /\ Control /\ OutOk /\ Query
  BY DEF IInv
<1>2. /\ \A i \in DOMAIN out : \A k, l \in DOMAIN out[i] : k < l => Before(out[i][k], out[i][l])
      /\ \A i, j \in DOMAIN out :
            i < j => \A a \in Range(out[i]), b \in Range(out[j]) : Before(a, b)
  BY <1>1, IsGiven DEF OutOk, Batches, InOrder, Follow
<1>3. CASE call.at \in {"new", "refused"}
  <2>1. out = <<>> /\ Given = {}
    BY <1>1, <1>3, IsGiven, Nothing DEF Control
  <2>2. ASSUME req # Unset, req.limit # Unset PROVE Cardinality(Given) <= req.limit
    <3>1. req \in Requests /\ req.limit \in Nat
      BY <1>1, <2>2, RequestAssumption DEF Shape
    <3> QED BY <2>1, <3>1, FS_EmptySet
  <2> QED BY <1>2, <2>1, <2>2 DEF GivenInOrder
<1>4. CASE call.at \notin {"new", "refused"}
  <2>1. Core(table, req, scan.parts, scan.next, scan.cur, scan.ranges, scan.left, Passed, answer, failed)
    BY <1>1, <1>4 DEF Query
  <2>2. Passed \subseteq answer /\ IsFiniteSet(answer) /\ CountOk(req, scan.left, Passed, failed)
    BY <2>1 DEF Core, PartsOk
  <2>3. Given \subseteq Passed
    BY IsGiven DEF Passed
  <2>4. ASSUME req.limit # Unset PROVE Cardinality(Given) <= req.limit
    <3>1. IsFiniteSet(Passed) /\ Cardinality(Passed) \in Nat
      BY <2>2, FS_Subset, FS_CardinalityType
    <3>2. Cardinality(Given) <= Cardinality(Passed) /\ Cardinality(Given) \in Nat
      BY <2>3, <3>1, FS_Subset, FS_CardinalityType
    <3>3. scan.left \in Nat /\ Cardinality(Passed) + scan.left <= req.limit
      BY <2>2, <2>4 DEF CountOk
    <3>4. req.limit \in Nat
      BY <1>1, <1>4, <2>4, RequestAssumption DEF Control, Shape
    <3> QED BY <3>1, <3>2, <3>3, <3>4
  <2> QED BY <1>2, <2>2, <2>3, <2>4 DEF GivenInOrder
<1> QED BY <1>3, <1>4

(* At the end all that was handed out has been given out.                  *)
LEMMA AnswerIsWhole ==
    ASSUME IInv
    PROVE  AnswerWhole
<1> SUFFICES ASSUME call.at = "done", ~failed
             PROVE  IF req.limit = Unset THEN Given = answer
                    ELSE /\ Cardinality(Given) = Lower(req.limit, Cardinality(answer))
                         /\ \A a \in Given, b \in answer \ Given : Before(a, b)
  BY DEF AnswerWhole
<1>1. Shape /\ Control /\ Query
  BY DEF IInv
<1>2. call.rows = <<>> /\ call.take = Unset /\ reader.pending = Unset
  BY <1>1, Parts DEF Control
<1>3. Passed = Given
  BY <1>2, IsGiven, Nothing DEF Passed, Fetched
<1>4. table \in Tables /\ req \in Requests
  BY <1>1 DEF Control, Shape
<1>5. Core(table, req, scan.parts, scan.next, scan.cur, scan.ranges, scan.left, Given, answer, FALSE)
  BY <1>1, <1>3 DEF Query, Shape
<1>6. scan.left = 0 \/ (scan.ranges = <<>> /\ scan.next > Len(scan.parts))
  BY <1>1 DEF Control
<1>7. IF req.limit = Unset THEN Given = answer
      ELSE /\ Cardinality(Given) = Lower(req.limit, Cardinality(answer))
           /\ \A a \in Given, b \in answer \ Given : RowPrecedes(table, req, a, b)
  BY <1>4, <1>5, <1>6, CoreEnds
<1> QED BY <1>7, IsGiven

(* The type invariant is a part of the invariant.                          *)
LEMMA TypeIsOK ==
    ASSUME IInv
    PROVE  TypeOK
<1>1. Shape /\ Control /\ OpenOk /\ Query
  BY DEF IInv
<1>2. /\ \A x \in Takes : x.part \in Names /\ Len(x.range) = 2
  BY DEF Takes
<1>3. RangesOf(reader.pending) /\ RangesOf(call.take)
  BY <1>1, <1>2, Parts DEF RangesOf, OpenOk
<1>4. scan.next \in 1 .. Len(scan.parts) + 1
  <2>1. CASE call.at \in {"new", "refused"}
    BY <1>1, <2>1, Nothing DEF Control
  <2>2. CASE call.at \notin {"new", "refused"}
    BY <1>1, <2>2 DEF Query, Core, PartsOk
  <2> QED BY <2>1, <2>2
<1>5. call.at \in {"pull", "read"} /\ req.batch # Unset => Len(call.rows) < req.batch
  BY <1>1 DEF Control
<1>6. call.take # Unset => open[call.take.part] # Unset
  BY <1>1 DEF OpenOk
<1>7. call.at = "done" <=> reader.ended
  BY <1>1 DEF Control
<1> QED BY <1>1, <1>3, <1>4, <1>5, <1>6, <1>7, Parts DEF TypeOK, Shape, Places

(* So are the sizes of the batches.                                        *)
LEMMA BatchesAreFull ==
    ASSUME IInv
    PROVE  BatchesFull
BY TypeIsOK DEF IInv, Sizes, BatchesFull

(* And so is what is open.                                                 *)
LEMMA FewAreOpen ==
    ASSUME IInv
    PROVE  OpensFew
<1> SUFFICES ASSUME req # Unset, ~failed PROVE OpensFew
  BY DEF OpensFew
<1>1. Shape /\ Control /\ OpenOk /\ Query
  BY DEF IInv
<1>2. call.at \notin {"new", "refused"}
  BY <1>1 DEF Control
<1>3. /\ Core(table, req, scan.parts, scan.next, scan.cur, scan.ranges, scan.left, Passed, answer, failed)
      /\ InWindow(table, req, scan.parts)
      /\ \A i \in 1 .. scan.next - 1 : FewBefore(req, scan.parts, i, answer)
  BY <1>1, <1>2 DEF Query
<1>4. \A p \in Names : open[p] # Unset /\ p \notin Tried => req.proj = {}
  BY <1>1, <1>2 DEF OpenOk
<1>5. \A i \in 1 .. scan.next - 1 : i \in 1 .. Len(scan.parts)
  <2>1. scan.next \in 1 .. Len(scan.parts) + 1 /\ Len(scan.parts) \in Nat
    BY <1>1, <1>3, Parts DEF Core, PartsOk
  <2> QED BY <2>1
<1>6. \A i \in 1 .. scan.next - 1 :
         req.time # Unset => /\ Days(scan.parts[i])[1] < req.time[2]
                             /\ req.time[1] < Days(scan.parts[i])[2]
  BY <1>3, <1>5 DEF InWindow, DaysIn, Days
<1>7. \A i \in 1 .. scan.next - 1 :
         req.limit # Unset =>
            Cardinality({a \in answer : a[1] \in {scan.parts[k] : k \in 1 .. i - 1}}) < req.limit
  BY <1>3 DEF FewBefore
<1> QED BY <1>4, <1>6, <1>7 DEF OpensFew

(* THEOREM: whatever fails and vanishes on the way, the rows given out are *)
(* asked for, come in their order, none twice, and are no more than the    *)
(* limit (TableScanner.next, TableBatchReader.next_batch).                 *)
THEOREM RowsAlwaysInOrder == Spec => []GivenInOrder
BY QueryInvariant, GivenIsInOrder, PTL

(* THEOREM: a query that ends without an error has left nothing out but    *)
(* what lies behind its limit (scan_table's pruning, TableScanner.next).   *)
THEOREM AnswersAlwaysWhole == Spec => []AnswerWhole
BY QueryInvariant, AnswerIsWhole, PTL

(* THEOREM: batches have the size asked for, but for the last, and the     *)
(* state its type (TableBatchReader.next_batch).                           *)
THEOREM BatchesAlwaysFull == Spec => []BatchesFull
BY QueryInvariant, BatchesAreFull, PTL

(* THEOREM: no partition is opened outside the time asked for or behind    *)
(* the limit (scan_table, TableScanner.next).                              *)
THEOREM AlwaysOpensFew == Spec => []OpensFew
BY QueryInvariant, FewAreOpen, PTL
=============================================================================
