-------------------------- MODULE MetaIndex_proofs --------------------------
(***************************************************************************)
(* What the builder of an index accepts, and that the index it builds, the *)
(* lookups in it and the scans of it are sound, for inputs of any length,  *)
(* any names and times, any conjunctions and any width of an axis slot.    *)
(*                                                                         *)
(* The builder counts: the distance of two times on the axis against the   *)
(* rows between them.  That this finds the gaps takes two facts about a    *)
(* run in order: its times are distinct, so the rows of the run are as     *)
(* many as the axis has keys exactly if all those keys are times of the    *)
(* run; and a key of another sym that is not one of them lies between two  *)
(* rows next to each other.                                                *)
(*                                                                         *)
(* The index is sound because the starts of the runs in order tile the     *)
(* rows and each run lies on the axis.  locate is a fold over the pairs;   *)
(* what it carries along (two cursors inside the index, and rows that read *)
(* back as the pairs they were asked for) is kept by every step.           *)
(*                                                                         *)
(* A scan compiles its predicate atom by atom, another fold: after n atoms *)
(* the syms and the window let every place of the grid through that the    *)
(* first n atoms hold of and, for a predicate the index can decide, no     *)
(* other (Compiled_n).  Every row of an input in order has one place, so   *)
(* the rows let through are those that match; and as the rows of a record  *)
(* come before those of the next, what is produced under a limit is a      *)
(* first part of them.                                                     *)
(***************************************************************************)
EXTENDS MetaIndex, FiniteSetTheorems, SequenceTheorems, WellFoundedInduction,
        TLAPS

Less == {ss \in Nat \X Nat : ss[1] < ss[2]}

(* The order of the naturals is well-founded.                              *)
LEMMA LessIsWellFounded == IsWellFoundedOn(Less, Nat)
<1>1. OpToRel(<, Nat) = Less
  BY DEF OpToRel, Less
<1> QED BY <1>1, NatLessThanWellFounded, Zenon

(* Of some naturals, one is the least.                                     *)
LEMMA LeastNatural ==
    ASSUME NEW T \in SUBSET Nat, T # {}
    PROVE  \E x \in T : \A y \in T : x <= y
<1>1. PICK x \in T : \A y \in T : ~(<<y, x>> \in Less)
  BY LessIsWellFounded, WFMin
<1>2. ASSUME NEW y \in T, ~(x <= y) PROVE FALSE
  <2>1. x \in Nat /\ y \in Nat /\ y < x
    BY <1>2
  <2>2. <<y, x>> \in Less
    BY <2>1 DEF Less
  <2> QED BY <1>1, <2>2
<1> QED BY <1>2

----------------------------------------------------------------------------
(* Inputs in order.                                                        *)

(* The rows of an input, and the keys of times a slot can hold.            *)
LEMMA InputParts ==
    ASSUME NEW in \in Seq(InputRow)
    PROVE  /\ Len(in) \in Nat /\ DOMAIN in = 1 .. Len(in)
           /\ \A i \in 1 .. Len(in) :
                in[i].key \in Nat /\ in[i].sym \in Nat /\ in[i].time \in Int
<1>1. \A i \in 1 .. Len(in) : in[i] \in InputRow
  OBVIOUS
<1>2. Time \subseteq Int
  BY WidthAssumption DEF Time
<1>3. \A r \in InputRow : r.key \in Nat /\ r.sym \in Nat /\ r.time \in Int
  BY <1>2 DEF InputRow
<1> QED BY <1>1, <1>3

(* The times of rows in order are their own keys.                          *)
LEMMA KeysInOrder ==
    ASSUME NEW in \in Seq(InputRow), InOrder(in)
    PROVE  /\ \A i \in 1 .. Len(in) : in[i].time \in Nat /\ AsU64(in[i].time) = in[i].time
           /\ Keys(in) = {in[i].time : i \in 1 .. Len(in)}
<1>1. \A i \in 1 .. Len(in) : in[i].time \in 0 .. WAxis \div 2 - 1
  BY InputParts DEF InOrder
<1>2. \A t \in 0 .. WAxis \div 2 - 1 : t \in Nat /\ t < W64
  BY WidthAssumption
<1>3. \A t \in Nat : t < W64 => t % W64 = t
  BY WidthAssumption
<1>4. \A i \in 1 .. Len(in) : in[i].time \in Nat /\ AsU64(in[i].time) = in[i].time
  BY <1>1, <1>2, <1>3 DEF AsU64
<1> QED BY <1>4, InputParts DEF Keys

(* What is in order row by row is in order.                                *)
LEMMA AllInOrder ==
    ASSUME NEW in \in Seq(InputRow), InOrder(in),
           NEW i \in 1 .. Len(in), NEW j \in 1 .. Len(in), i < j
    PROVE  Ordered(in[i], in[j])
<1>1. \A k \in 1 .. Len(in) : in[k].sym \in Nat /\ in[k].time \in Int
  BY InputParts
<1>2. \A k \in 1 .. Len(in) - 1 : Ordered(in[k], in[k + 1])
  BY DEF InOrder, StrictlyOrdered
<1> DEFINE Wrong == {k \in i + 1 .. Len(in) : ~Ordered(in[i], in[k])}
<1>3. Wrong = {}
  <2> SUFFICES ASSUME Wrong # {} PROVE FALSE
    OBVIOUS
  <2>1. Wrong \in SUBSET Nat
    BY InputParts
  <2> HIDE DEF Wrong
  <2>2. PICK k \in Wrong : \A m \in Wrong : k <= m
    BY <2>1, LeastNatural
  <2>3. k \in i + 1 .. Len(in) /\ ~Ordered(in[i], in[k])
    BY DEF Wrong
  <2>4. CASE k = i + 1
    BY <1>2, <2>3, <2>4, InputParts
  <2>5. CASE k > i + 1
    <3>1. /\ k - 1 \in i + 1 .. Len(in) /\ k - 1 < k /\ k - 1 \in 1 .. Len(in) - 1
          /\ k - 1 \in 1 .. Len(in) /\ k \in 1 .. Len(in) /\ (k - 1) + 1 = k
      BY <2>3, <2>5, InputParts
    <3>2. Ordered(in[i], in[k - 1])
      BY <2>2, <3>1 DEF Wrong
    <3>3. Ordered(in[k - 1], in[k])
      BY <1>2, <3>1
    <3>4. Ordered(in[i], in[k])
      BY <1>1, <3>1, <3>2, <3>3, SMTT(30) DEF Ordered
    <3> QED BY <2>3, <3>4
  <2> QED BY <2>3, <2>4, <2>5, InputParts
<1> QED BY <1>3, InputParts

----------------------------------------------------------------------------
(* Runs.                                                                   *)

(* A run ends, and has one key.                                            *)
LEMMA RunEnds ==
    ASSUME NEW in \in Seq(InputRow), NEW i \in Starts(in)
    PROVE  /\ i \in 1 .. Len(in) /\ RunEnd(in, i) \in i .. Len(in)
           /\ \A j \in i + 1 .. RunEnd(in, i) : j \notin Starts(in)
           /\ RunEnd(in, i) = Len(in) \/ RunEnd(in, i) + 1 \in Starts(in)
<1>1. Len(in) \in Nat /\ i \in 1 .. Len(in) /\ Starts(in) \subseteq 1 .. Len(in)
  BY InputParts DEF Starts
<1> DEFINE T == {e \in i .. Len(in) : e = Len(in) \/ e + 1 \in Starts(in)}
<1>2. T \in SUBSET Nat /\ Len(in) \in T
  BY <1>1
<1> HIDE DEF T
<1>3. PICK e \in T : \A f \in T : e <= f
  BY <1>2, LeastNatural
<1>4. e \in i .. Len(in) /\ (e = Len(in) \/ e + 1 \in Starts(in))
  BY DEF T
<1>5. ASSUME NEW j \in i + 1 .. e, j \in Starts(in) PROVE FALSE
  <2>1. j - 1 \in i .. Len(in) /\ (j - 1) + 1 = j /\ j - 1 < e
    BY <1>1, <1>4, <1>5
  <2>2. j - 1 \in T
    BY <1>5, <2>1 DEF T
  <2> QED BY <1>3, <1>4, <2>1, <2>2
<1>6. \E x \in i .. Len(in) : /\ \A j \in i + 1 .. x : j \notin Starts(in)
                              /\ x = Len(in) \/ x + 1 \in Starts(in)
  BY <1>4, <1>5
<1> QED BY <1>1, <1>6 DEF RunEnd

(* The rows of a run in order are of one sym, and their times ascend.      *)
LEMMA RunAscends ==
    ASSUME NEW in \in Seq(InputRow), InOrder(in), NEW i \in Starts(in)
    PROVE  /\ \A j \in i .. RunEnd(in, i) : j \in 1 .. Len(in) /\ in[j].sym = in[i].sym
           /\ \A j, k \in i .. RunEnd(in, i) : j < k => in[j].time < in[k].time
<1> DEFINE e == RunEnd(in, i)
<1>1. /\ i \in 1 .. Len(in) /\ e \in i .. Len(in) /\ Len(in) \in Nat
      /\ \A j \in i + 1 .. e : j \notin Starts(in)
  BY RunEnds, InputParts
<1> HIDE DEF e
<1>2. \A j \in i .. e : j \in 1 .. Len(in)
  BY <1>1
<1>3. \A k \in 1 .. Len(in) : in[k].sym \in Nat /\ in[k].time \in Int /\ in[k].key = in[k].sym
  BY InputParts DEF InOrder
<1> DEFINE Wrong == {j \in i .. e : in[j].sym # in[i].sym}
<1>4. Wrong = {}
  <2> SUFFICES ASSUME Wrong # {} PROVE FALSE
    OBVIOUS
  <2>1. Wrong \in SUBSET Nat
    BY <1>1
  <2> HIDE DEF Wrong
  <2>2. PICK k \in Wrong : \A m \in Wrong : k <= m
    BY <2>1, LeastNatural
  <2>3. k \in i .. e /\ in[k].sym # in[i].sym /\ k # i
    BY DEF Wrong
  <2>4. k - 1 \in i .. e /\ k - 1 < k /\ k \in i + 1 .. e /\ k \in 1 .. Len(in) /\ k # 1
    BY <1>1, <1>2, <2>3
  <2>5. in[k - 1].sym = in[i].sym
    BY <2>2, <2>3, <2>4 DEF Wrong
  <2>6. in[k].key = in[k - 1].key
    BY <1>1, <2>4, InputParts DEF Starts
  <2> QED BY <1>2, <1>3, <2>3, <2>4, <2>5, <2>6
<1>5. \A j \in i .. e : in[j].sym = in[i].sym
  BY <1>4
<1>6. ASSUME NEW j \in i .. e, NEW k \in i .. e, j < k PROVE in[j].time < in[k].time
  <2>1. Ordered(in[j], in[k])
    BY <1>2, <1>6, AllInOrder
  <2> QED BY <1>2, <1>3, <1>5, <2>1 DEF Ordered
<1> QED BY <1>2, <1>5, <1>6 DEF e

----------------------------------------------------------------------------
(* Counting.                                                               *)

(* The times of the rows i to e, and the keys between two times.           *)
Times(in, i, e) == {in[j].time : j \in i .. e}
Between(in, a, b) == {k \in Keys(in) : a <= k /\ k <= b}

(* A set counted by numbers that ascend has as many members as they.       *)
LEMMA AscendingCount ==
    ASSUME NEW i \in Nat, NEW e \in Nat, i <= e, NEW f,
           \A j \in i .. e : f[j] \in Int,
           \A j, k \in i .. e : j < k => f[j] < f[k]
    PROVE  /\ IsFiniteSet({f[j] : j \in i .. e})
           /\ Cardinality({f[j] : j \in i .. e}) = e - i + 1
<1> DEFINE S == {f[j] : j \in i .. e}
           g == [j \in i .. e |-> f[j]]
<1>1. \A j, k \in i .. e : f[j] = f[k] => j = k
  <2> SUFFICES ASSUME NEW j \in i .. e, NEW k \in i .. e, f[j] = f[k], j # k PROVE FALSE
    OBVIOUS
  <2>1. j < k \/ k < j
    OBVIOUS
  <2> QED BY <2>1
<1>2. g \in [i .. e -> S] /\ (\A j, k \in i .. e : g[j] = g[k] => j = k)
      /\ \A s \in S : \E j \in i .. e : g[j] = s
  BY <1>1
<1>3. g \in Bijection(i .. e, S)
  <2> HIDE DEF g, S
  <2> QED BY <1>2 DEF Bijection, Injection, Surjection, IsInjective
<1>4. ExistsBijection(i .. e, S)
  BY <1>3 DEF ExistsBijection
<1>5. IsFiniteSet(i .. e) /\ Cardinality(i .. e) = e - i + 1
  BY FS_Interval
<1> HIDE DEF S
<1>6. IsFiniteSet(S) /\ Cardinality(S) = e - i + 1
  BY <1>4, <1>5, FS_Bijection
<1> QED BY <1>6 DEF S

(* There are finitely many keys.                                           *)
LEMMA KeysFinite ==
    ASSUME NEW in \in Seq(InputRow) PROVE IsFiniteSet(Keys(in))
<1> DEFINE g == [i \in 1 .. Len(in) |-> AsU64(in[i].time)]
<1>1. IsFiniteSet(1 .. Len(in))
  <2>1. 1 \in Int /\ Len(in) \in Int
    BY InputParts
  <2> QED BY <2>1, FS_Interval
<1>2. g \in Surjection(1 .. Len(in), Keys(in))
  BY InputParts DEF Surjection, Keys
<1> HIDE DEF g
<1> QED BY <1>1, <1>2, FS_Surjection

(* The distance on the axis counts the keys from one time to the other.    *)
LEMMA SpanCounts ==
    ASSUME NEW in \in Seq(InputRow), InOrder(in), NEW i \in Starts(in)
    PROVE  LET e == RunEnd(in, i)
           IN  /\ IsFiniteSet(Between(in, in[i].time, in[e].time))
               /\ Span(in, i) = Cardinality(Between(in, in[i].time, in[e].time))
<1> DEFINE e == RunEnd(in, i)
           a == in[i].time
           b == in[e].time
           A == {k \in Keys(in) : k < a}
           B == {k \in Keys(in) : k < b}
<1>1. i \in 1 .. Len(in) /\ e \in i .. Len(in) /\ i \in i .. e /\ e \in i .. e
      /\ e \in 1 .. Len(in)
  BY RunEnds, InputParts
<1>2. a \in Nat /\ b \in Nat /\ Keys(in) \subseteq Nat /\ b \in Keys(in)
      /\ AsU64(in[i].time) = a /\ AsU64(in[e].time) = b
  BY <1>1, KeysInOrder
<1>3. a <= b
  BY <1>1, <1>2, RunAscends
<1>4. Span(in, i) = Cardinality(B) - Cardinality(A) + 1
  BY <1>2 DEF Span, Position
<1> HIDE DEF a, b, e
<1>5. IsFiniteSet(A) /\ IsFiniteSet(B) /\ A \subseteq B
  BY <1>2, <1>3, KeysFinite, FS_Subset
<1>6. B \cap A = A
  BY <1>5
<1> DEFINE M == Between(in, a, b)
<1>7. IsFiniteSet(B \ A) /\ Cardinality(B \ A) = Cardinality(B) - Cardinality(A)
  BY <1>5, <1>6, FS_Difference
<1>8. M = (B \ A) \cup {b} /\ b \notin B \ A
  BY <1>2, <1>3 DEF Between
<1> HIDE DEF A, B, M
<1>9. IsFiniteSet(M) /\ Cardinality(M) = Cardinality(B \ A) + 1
  BY <1>7, <1>8, FS_AddElement
<1> QED BY <1>4, <1>5, <1>7, <1>9, FS_CardinalityType DEF M, a, b, e

(* The rows of a run and the keys between its first and last time.         *)
LEMMA RunCounts ==
    ASSUME NEW in \in Seq(InputRow), InOrder(in), NEW i \in Starts(in)
    PROVE  LET e == RunEnd(in, i)
           IN  Span(in, i) = e - i + 1
                 <=> Between(in, in[i].time, in[e].time) \subseteq Times(in, i, e)
<1> DEFINE e == RunEnd(in, i)
           R == Times(in, i, e)
           M == Between(in, in[i].time, in[e].time)
<1>1. /\ i \in 1 .. Len(in) /\ e \in i .. Len(in) /\ Len(in) \in Nat
      /\ \A j \in i .. e : j \in 1 .. Len(in) /\ in[j].time \in Nat
      /\ \A j, k \in i .. e : j < k => in[j].time < in[k].time
  BY RunEnds, InputParts, RunAscends, KeysInOrder
<1>2. IsFiniteSet(M) /\ Span(in, i) = Cardinality(M)
  BY SpanCounts
<1> HIDE DEF e
<1>3. IsFiniteSet(R) /\ Cardinality(R) = e - i + 1
  <2> DEFINE f == [j \in i .. e |-> in[j].time]
  <2>1. /\ \A j \in i .. e : f[j] \in Int
        /\ \A j, k \in i .. e : j < k => f[j] < f[k]
    BY <1>1
  <2>2. R = {f[j] : j \in i .. e}
    BY DEF Times
  <2>3. i \in Nat /\ e \in Nat /\ i <= e
    BY <1>1
  <2> HIDE DEF f, R
  <2> QED BY <2>1, <2>2, <2>3, AscendingCount
<1>4. R \in SUBSET M
  <2> SUFFICES ASSUME NEW j \in i .. e PROVE in[j].time \in M
    BY DEF Times
  <2>1. in[j].time \in Keys(in)
    BY <1>1, KeysInOrder
  <2>2. in[i].time <= in[j].time /\ in[j].time <= in[e].time
    BY <1>1, SMTT(30)
  <2> QED BY <2>1, <2>2 DEF Between
<1> HIDE DEF R, M
<1>5. Cardinality(M) = Cardinality(R) <=> M \subseteq R
  BY <1>2, <1>4, FS_Subset
<1> QED BY <1>2, <1>3, <1>5 DEF R, M, e

----------------------------------------------------------------------------
(* Gaps.                                                                   *)

(* A key inside a run that is not one of its times lies between two of its *)
(* rows.                                                                   *)
LEMMA KeyInGap ==
    ASSUME NEW in \in Seq(InputRow), InOrder(in), NEW i \in Starts(in),
           NEW k \in Between(in, in[i].time, in[RunEnd(in, i)].time),
           k \notin Times(in, i, RunEnd(in, i))
    PROVE  \E p \in i .. RunEnd(in, i) - 1 : in[p].time < k /\ k < in[p + 1].time
<1> DEFINE e == RunEnd(in, i)
           Above == {p \in i .. e : k < in[p].time}
<1>1. i \in 1 .. Len(in) /\ e \in i .. Len(in) /\ Len(in) \in Nat
      /\ \A j \in i .. e : in[j].time \in Nat /\ k # in[j].time
  BY RunEnds, InputParts, RunAscends, KeysInOrder DEF Times
<1>2. k \in Int /\ in[i].time <= k /\ k <= in[e].time
  BY KeysInOrder, InputParts DEF Between
<1> HIDE DEF e
<1>3. e \in Above /\ Above \in SUBSET Nat /\ i \notin Above
  BY <1>1, <1>2
<1> HIDE DEF Above
<1>4. PICK p \in Above : \A q \in Above : p <= q
  BY <1>3, LeastNatural
<1>5. p \in i .. e /\ k < in[p].time /\ p # i
  BY <1>3, <1>4 DEF Above
<1>6. p - 1 \in i .. e - 1 /\ p - 1 \in i .. e /\ p - 1 < p /\ (p - 1) + 1 = p
  BY <1>1, <1>5
<1>7. ~(k < in[p - 1].time)
  BY <1>4, <1>5, <1>6 DEF Above
<1>8. in[p - 1].time < k
  BY <1>1, <1>2, <1>6, <1>7, SMTT(30)
<1> QED BY <1>5, <1>6, <1>8 DEF e

(* Two rows next to each other that are of one sym are in one run.         *)
LEMMA RunOfRow ==
    ASSUME NEW in \in Seq(InputRow), InOrder(in),
           NEW p \in 1 .. Len(in) - 1, in[p].sym = in[p + 1].sym
    PROVE  \E i \in Starts(in) : p \in i .. RunEnd(in, i) /\ p + 1 \in i .. RunEnd(in, i)
<1>1. /\ Len(in) \in Nat /\ p \in 1 .. Len(in) /\ p + 1 \in 1 .. Len(in)
      /\ in[p].key = in[p + 1].key /\ Starts(in) \subseteq 1 .. Len(in)
  BY InputParts DEF InOrder, Starts
<1> DEFINE T == {n \in Nat : n < p /\ p - n \in Starts(in)}
<1>2. p - 1 \in T
  <2>1. p - (p - 1) = 1 /\ p - 1 \in Nat /\ p - 1 < p
    BY <1>1
  <2>2. 1 \in Starts(in)
    BY <1>1, InputParts DEF Starts
  <2> QED BY <2>1, <2>2
<1> HIDE DEF T
<1>3. PICK n \in T : \A m \in T : n <= m
  BY <1>2, LeastNatural DEF T
<1>4. PICK i \in Starts(in) : i = p - n /\ n \in Nat /\ n < p
  BY <1>3 DEF T
<1> DEFINE e == RunEnd(in, i)
<1>5. i \in 1 .. p /\ e \in i .. Len(in) /\ (e = Len(in) \/ e + 1 \in Starts(in))
  BY <1>1, <1>4, RunEnds
<1> HIDE DEF e
<1>6. e >= p + 1
  <2> SUFFICES ASSUME e <= p PROVE FALSE
    BY <1>1, <1>5
  <2>1. e + 1 \in Starts(in) /\ e \in 1 .. p
    BY <1>1, <1>5
  <2>2. CASE e = p
    <3>1. p + 1 = 1 \/ in[p + 1].key # in[(p + 1) - 1].key
      BY <2>1, <2>2 DEF Starts
    <3>2. (p + 1) - 1 = p /\ p + 1 # 1
      BY <1>1
    <3> QED BY <1>1, <3>1, <3>2
  <2>3. CASE e < p
    <3>1. p - (e + 1) \in Nat /\ p - (e + 1) < p /\ p - (p - (e + 1)) = e + 1
          /\ p - (e + 1) < n
      BY <1>1, <1>4, <1>5, <2>1, <2>3
    <3>2. p - (e + 1) \in T
      BY <2>1, <3>1 DEF T
    <3> QED BY <1>3, <1>4, <3>1, <3>2
  <2> QED BY <1>1, <2>1, <2>2, <2>3
<1> QED BY <1>1, <1>5, <1>6 DEF e

(* MetaBuilder::build: the counts agree in every run exactly if no time    *)
(* lies in a gap of a sym.                                                 *)
LEMMA FitsIffNoGap ==
    ASSUME NEW in \in Seq(InputRow), InOrder(in)
    PROVE  Fits(in) <=> in # <<>> /\ NoGap(in)
<1>1. /\ Len(in) \in Nat /\ DOMAIN in = 1 .. Len(in)
      /\ \A i \in 1 .. Len(in) : in[i].time \in Nat /\ in[i].time \in Keys(in)
  BY InputParts, KeysInOrder
<1>2. ASSUME NoGap(in), NEW i \in Starts(in)
      PROVE  Span(in, i) = RunEnd(in, i) - i + 1
  <2> SUFFICES ASSUME NEW k \in Between(in, in[i].time, in[RunEnd(in, i)].time),
                      k \notin Times(in, i, RunEnd(in, i))
               PROVE  FALSE
    BY RunCounts
  <2>1. PICK p \in i .. RunEnd(in, i) - 1 : in[p].time < k /\ k < in[p + 1].time
    BY KeyInGap
  <2>2. i \in 1 .. Len(in) /\ RunEnd(in, i) \in i .. Len(in)
    BY RunEnds
  <2>3. p \in i .. RunEnd(in, i) /\ p + 1 \in i .. RunEnd(in, i) /\ p \in 1 .. Len(in) - 1
    BY <1>1, <2>2
  <2>4. in[p].sym = in[p + 1].sym
    BY <2>3, RunAscends
  <2>5. PICK j \in DOMAIN in : k = in[j].time
    BY <1>1, KeysInOrder DEF Between
  <2> QED BY <1>2, <2>1, <2>3, <2>4, <2>5 DEF NoGap
<1>3. ASSUME Fits(in), ~NoGap(in) PROVE FALSE
  <2>1. PICK p \in 1 .. Len(in) - 1 :
          /\ in[p].sym = in[p + 1].sym
          /\ \E j \in DOMAIN in : in[p].time < in[j].time /\ in[j].time < in[p + 1].time
    BY <1>3 DEF NoGap
  <2>2. PICK j \in DOMAIN in : in[p].time < in[j].time /\ in[j].time < in[p + 1].time
    BY <2>1
  <2>3. PICK i \in Starts(in) : p \in i .. RunEnd(in, i) /\ p + 1 \in i .. RunEnd(in, i)
    BY <2>1, RunOfRow
  <2> DEFINE e == RunEnd(in, i)
  <2>4. Between(in, in[i].time, in[e].time) \subseteq Times(in, i, e)
    BY <1>3, RunCounts DEF Fits
  <2>5. /\ i \in 1 .. Len(in) /\ e \in i .. Len(in)
        /\ \A m \in i .. e : m \in 1 .. Len(in)
        /\ \A m, n \in i .. e : m < n => in[m].time < in[n].time
    BY RunEnds, RunAscends
  <2> HIDE DEF e
  <2>6. in[j].time \in Between(in, in[i].time, in[e].time)
    <3>1. i \in i .. e /\ e \in i .. e /\ p \in i .. e /\ p + 1 \in i .. e
      BY <1>1, <2>3, <2>5 DEF e
    <3>2. in[i].time <= in[p].time
      BY <1>1, <2>5, <3>1
    <3>3. in[p + 1].time <= in[e].time
      BY <1>1, <2>5, <3>1
    <3>4. in[j].time \in Keys(in)
      BY <1>1
    <3>5. /\ in[i].time \in Nat /\ in[p].time \in Nat /\ in[p + 1].time \in Nat
          /\ in[e].time \in Nat /\ in[j].time \in Nat
      BY <1>1, <2>5, <3>1
    <3> DEFINE T(k) == in[k].time
    <3>6. T(i) <= T(p) /\ T(p) < T(j) /\ T(j) < T(p + 1) /\ T(p + 1) <= T(e)
      BY <2>2, <3>2, <3>3
    <3>7. /\ T(i) \in Nat /\ T(p) \in Nat /\ T(p + 1) \in Nat /\ T(e) \in Nat
          /\ T(j) \in Nat
      BY <3>5
    <3> HIDE DEF T
    <3>8. T(i) <= T(j) /\ T(j) <= T(e)
      BY <3>6, <3>7
    <3> QED BY <3>4, <3>8, Zenon DEF Between, T
  <2>7. PICK q \in i .. e : in[q].time = in[j].time
    BY <2>4, <2>6 DEF Times
  <2>8. p \in i .. e /\ p + 1 \in i .. e
    BY <2>3 DEF e
  <2>9. q \in Nat /\ p \in Nat /\ ~(q < p) /\ q # p /\ ~(p + 1 < q) /\ q # p + 1
    BY <1>1, <2>2, <2>5, <2>7, <2>8
  <2> QED BY <2>9
<1> QED BY <1>2, <1>3 DEF Fits

----------------------------------------------------------------------------
(* The answer of a build is what the builder found.                        *)
BuildAnswered ==
    answer # None /\ answer.call = "build" => /\ answer.arg \in Inputs
                                              /\ answer.result = Fits(answer.arg)

(* Building an index always answers as it should.                          *)
LEMMA BuildAlwaysAnswered == Spec => []BuildAnswered
<1>1. Init => BuildAnswered
  BY DEF Init, BuildAnswered
<1>2. BuildAnswered /\ [Next]_vars => BuildAnswered'
  <2> SUFFICES ASSUME BuildAnswered, [Next]_vars PROVE BuildAnswered'
    OBVIOUS
  <2>1. CASE InitIndex \/ UpdateIndex
    <3>1. PICK in \in Inputs : Answer("build", in, Fits(in))
      BY <2>1 DEF InitIndex, UpdateIndex, Build
    <3> QED BY <3>1 DEF Answer, BuildAnswered
  <2>2. CASE CreateEmpty \/ DropIndex \/ UpdateFails
    BY <2>2 DEF CreateEmpty, DropIndex, UpdateFails, Answer, BuildAnswered
  <2>3. CASE Read \/ Locate \/ Scan
    <3>1. CASE Read
      BY <3>1 DEF Read, Ask, Answer, BuildAnswered
    <3>2. CASE Locate
      BY <3>2 DEF Locate, Ask, Answer, BuildAnswered
    <3>3. CASE Scan
      BY <3>3 DEF Scan, Ask, Answer, BuildAnswered
    <3> QED BY <2>3, <3>1, <3>2, <3>3
  <2>4. CASE Open \/ Return \/ UNCHANGED vars
    BY <2>4 DEF Open, Return, vars, BuildAnswered
  <2> QED BY <2>1, <2>2, <2>3, <2>4 DEF Next
<1> QED BY <1>1, <1>2, PTL DEF Spec

(* For inputs of any length, any names, times and widths: of the inputs in *)
(* order, the builder accepts exactly those that are not empty and have no *)
(* gap in the times of a sym (MetaBuilder::build compares counts).         *)
THEOREM GapsAlwaysRefused == Spec => []GapsRefused
<1>1. BuildAnswered => GapsRefused
  <2> SUFFICES ASSUME BuildAnswered, answer # None, answer.call = "build",
                      InOrder(answer.arg)
               PROVE  answer.result = (answer.arg # <<>> /\ NoGap(answer.arg))
    BY DEF GapsRefused
  <2>1. PICK in \in Seq(InputRow) : in = answer.arg
    BY InputAssumption DEF BuildAnswered
  <2>2. answer.result = Fits(in) /\ InOrder(in)
    BY <2>1 DEF BuildAnswered
  <2>3. Fits(in) <=> in # <<>> /\ NoGap(in)
    BY <2>2, FitsIffNoGap
  <2>4. Fits(in) \in BOOLEAN
    BY DEF Fits
  <2> QED BY <2>1, <2>2, <2>3, <2>4
<1> QED BY <1>1, BuildAlwaysAnswered, PTL

----------------------------------------------------------------------------
(* Sets in order.                                                          *)

(* As many as there are members of S below x.                              *)
Below(S, x) == {y \in S : y < x}

(* There are more elements below the greater of two.                       *)
LEMMA BelowCounts ==
    ASSUME NEW S \in SUBSET Int, IsFiniteSet(S), NEW x \in S
    PROVE  /\ Cardinality(Below(S, x)) \in Nat
           /\ Cardinality(Below(S, x)) + 1 <= Cardinality(S)
           /\ \A y \in S : x < y => Cardinality(Below(S, x)) < Cardinality(Below(S, y))
<1>1. /\ \A y \in S : IsFiniteSet(Below(S, y))
      /\ Cardinality(S) \in Nat
  <2>1. \A y \in S : Below(S, y) \in SUBSET S
    BY DEF Below
  <2> QED BY <2>1, FS_Subset, FS_CardinalityType
<1>2. Cardinality(Below(S, x)) \in Nat
  BY <1>1, FS_CardinalityType
<1> DEFINE U == Below(S, x) \cup {x}
<1>3. Cardinality(U) = Cardinality(Below(S, x)) + 1
  <2>1. x \notin Below(S, x)
    BY DEF Below
  <2> QED BY <1>1, <2>1, FS_AddElement
<1>4. U \subseteq S /\ \A y \in S : x < y => U \subseteq Below(S, y)
  <2>1. \A y \in S : y \in Int
    OBVIOUS
  <2>2. \A y, z \in S : x < y /\ z < x => z < y
    BY <2>1
  <2> QED BY <2>2 DEF Below
<1> HIDE DEF U
<1>5. Cardinality(U) <= Cardinality(S)
  BY <1>4, FS_Subset
<1>6. ASSUME NEW y \in S, x < y PROVE Cardinality(Below(S, x)) < Cardinality(Below(S, y))
  <2>1. Cardinality(U) <= Cardinality(Below(S, y)) /\ Cardinality(Below(S, y)) \in Nat
    BY <1>1, <1>4, <1>6, FS_Subset, FS_CardinalityType
  <2> QED BY <1>2, <1>3, <2>1
<1> QED BY <1>2, <1>3, <1>5, <1>6

(* Ascending lists all members, each once, in order.                       *)
LEMMA AscendingLists ==
    ASSUME NEW S \in SUBSET Int, IsFiniteSet(S)
    PROVE  LET n == Cardinality(S)
           IN  /\ n \in Nat
               /\ Ascending(S) \in [1 .. n -> S]
               /\ \A k \in 1 .. n : Cardinality(Below(S, Ascending(S)[k])) = k - 1
               /\ \A j, k \in 1 .. n : j < k => Ascending(S)[j] < Ascending(S)[k]
               /\ \A x \in S : \E k \in 1 .. n : Ascending(S)[k] = x
<1> DEFINE n == Cardinality(S)
           rank == [x \in S |-> Cardinality(Below(S, x)) + 1]
<1>1. n \in Nat /\ IsFiniteSet(1 .. n) /\ Cardinality(1 .. n) = n
  <2>1. n \in Nat
    BY FS_CardinalityType
  <2> HIDE DEF n
  <2>2. IsFiniteSet(1 .. n) /\ Cardinality(1 .. n) = n
    BY <2>1, FS_Interval
  <2> QED BY <2>1, <2>2
<1>2. \A x \in S : rank[x] \in 1 .. n
  BY <1>1, BelowCounts
<1>3. \A x, y \in S : x < y => rank[x] < rank[y]
  BY BelowCounts
<1>4. \A x \in S : x \in Int
  OBVIOUS
<1>5. rank \in [S -> 1 .. n]
  BY <1>2
<1>6. \A x, y \in S : rank[x] = rank[y] => x = y
  <2> SUFFICES ASSUME NEW x \in S, NEW y \in S, rank[x] = rank[y], x # y PROVE FALSE
    OBVIOUS
  <2>1. x < y \/ y < x
    BY <1>4
  <2>2. rank[x] \in Int /\ rank[y] \in Int /\ (rank[x] < rank[y] \/ rank[y] < rank[x])
    BY <1>1, <1>2, <1>3, <2>1
  <2> HIDE DEF rank
  <2> QED BY <2>2
<1> HIDE DEF n, rank
<1>7. rank \in Injection(S, 1 .. n)
  BY <1>5, <1>6 DEF Injection, IsInjective
<1>8. rank \in Surjection(S, 1 .. n)
  <2>1. Cardinality(S) = Cardinality(1 .. n)
    BY <1>1 DEF n
  <2> QED BY <1>1, <1>7, <2>1, FS_Injection
<1> DEFINE a == Ascending(S)
<1>9. \A k \in 1 .. n : a[k] \in S /\ rank[a[k]] = k
  <2> SUFFICES ASSUME NEW k \in 1 .. n PROVE a[k] \in S /\ rank[a[k]] = k
    OBVIOUS
  <2>1. PICK x \in S : rank[x] = k
    BY <1>8 DEF Surjection
  <2>2. \A y \in S : rank[y] = k <=> Cardinality(Below(S, y)) = k - 1
    <3> SUFFICES ASSUME NEW y \in S PROVE rank[y] = k <=> Cardinality(Below(S, y)) = k - 1
      OBVIOUS
    <3>1. rank[y] = Cardinality(Below(S, y)) + 1
      BY DEF rank
    <3>2. Cardinality(Below(S, y)) \in Nat
      BY BelowCounts
    <3> QED BY <1>1, <3>1, <3>2
  <2>3. a[k] = CHOOSE y \in S : Cardinality(Below(S, y)) = k - 1
    BY DEF Ascending, Below, n
  <2> HIDE DEF a
  <2>4. a[k] \in S /\ Cardinality(Below(S, a[k])) = k - 1
    BY <2>1, <2>2, <2>3
  <2> QED BY <2>2, <2>4
<1>10. a = [k \in 1 .. n |-> a[k]]
  <2> DEFINE g(k) == CHOOSE x \in S : Cardinality({y \in S : y < x}) = k - 1
  <2>1. a = [k \in 1 .. n |-> g(k)]
    BY DEF Ascending, n
  <2> HIDE DEF g, a, n
  <2> QED BY <2>1
<1>11. a \in [1 .. n -> S]
  BY <1>9, <1>10
<1> HIDE DEF a
<1>12. \A k \in 1 .. n : Cardinality(Below(S, a[k])) = k - 1
  <2> SUFFICES ASSUME NEW k \in 1 .. n PROVE Cardinality(Below(S, a[k])) = k - 1
    OBVIOUS
  <2>1. a[k] \in S /\ rank[a[k]] = k
    BY <1>9
  <2>2. Cardinality(Below(S, a[k])) \in Nat
    BY <2>1, BelowCounts
  <2> QED BY <1>1, <2>1, <2>2 DEF rank
<1>13. ASSUME NEW j \in 1 .. n, NEW k \in 1 .. n, j < k PROVE a[j] < a[k]
  <2>1. a[j] \in S /\ a[k] \in S /\ rank[a[j]] = j /\ rank[a[k]] = k
    BY <1>9
  <2>2. a[j] \in Int /\ a[k] \in Int /\ j \in Int /\ k \in Int
    <3>1. j \in Int /\ k \in Int
      OBVIOUS
    <3> QED BY <1>4, <2>1, <3>1
  <2>3. a[j] # a[k] /\ ~(a[k] < a[j])
    BY <1>3, <1>13, <2>1, <2>2
  <2> QED BY <2>2, <2>3
<1>14. ASSUME NEW x \in S PROVE \E k \in 1 .. n : a[k] = x
  <2>1. rank[x] \in 1 .. n
    BY <1>5
  <2>2. a[rank[x]] \in S /\ rank[a[rank[x]]] = rank[x]
    BY <1>9, <2>1
  <2> QED BY <1>6, <2>1, <2>2
<1> QED BY <1>1, <1>11, <1>12, <1>13, <1>14 DEF a, n

(* Between one member and the next there is none.                          *)
LEMMA AscendingNext ==
    ASSUME NEW S \in SUBSET Int, IsFiniteSet(S),
           NEW k \in 1 .. Cardinality(S), NEW x \in S
    PROVE  LET a == Ascending(S)
           IN  /\ k < Cardinality(S) /\ a[k] < x => a[k + 1] <= x
               /\ k = Cardinality(S) => x <= a[k]
               /\ k = 1 => a[k] <= x
<1> DEFINE n == Cardinality(S)
           a == Ascending(S)
<1>1. /\ n \in Nat /\ a \in [1 .. n -> S]
      /\ \A i, j \in 1 .. n : i < j => a[i] < a[j]
      /\ \A y \in S : \E j \in 1 .. n : a[j] = y
  BY AscendingLists
<1> HIDE DEF n, a
<1>2. PICK j \in 1 .. n : a[j] = x
  BY <1>1
<1>3. \A i \in 1 .. n : a[i] \in Int
  BY <1>1
<1>4. k \in 1 .. n
  BY DEF n
<1>5. ASSUME k < n, a[k] < x PROVE a[k + 1] <= x
  <2>1. k < j
    BY <1>1, <1>2, <1>3, <1>4, <1>5
  <2>2. k + 1 \in 1 .. n /\ (k + 1 = j \/ k + 1 < j)
    BY <1>1, <1>4, <1>5, <2>1
  <2> QED BY <1>1, <1>2, <1>3, <2>2, SMTT(30)
<1>6. ASSUME k = n PROVE x <= a[k]
  <2>1. j = k \/ j < k
    BY <1>1, <1>6
  <2> QED BY <1>1, <1>2, <1>3, <1>4, <2>1
<1>7. ASSUME k = 1 PROVE a[k] <= x
  <2>1. j = k \/ k < j
    BY <1>1, <1>7
  <2> QED BY <1>1, <1>2, <1>3, <1>4, <2>1
<1> QED BY <1>5, <1>6, <1>7 DEF a, n

----------------------------------------------------------------------------
(* Keys and slots.                                                         *)

(* A number is its multiple of n and what is left.                         *)
LEMMA Remainder ==
    ASSUME NEW n \in Nat, n > 0, NEW q \in Int, NEW r \in 0 .. n - 1
    PROVE  (n * q + r) % n = r
OBVIOUS

(* A number that leaves no remainder is a multiple.                        *)
LEMMA Multiple ==
    ASSUME NEW n \in Nat, n > 0, NEW m \in Nat, m % n = 0
    PROVE  \E q \in Nat : m = n * q
OBVIOUS

(* A slot keeps the low bits of a key; read with its sign it is the time.  *)
LEMMA SlotOfTime ==
    ASSUME NEW t \in Time
    PROVE  /\ AsU64(t) = IF t >= 0 THEN t ELSE t + W64
           /\ AsU64(t) % WAxis = IF t >= 0 THEN t ELSE t + WAxis
           /\ AsU64(t) \in 0 .. W64 - 1
           /\ AsU64(t) % WAxis \in 0 .. WAxis - 1
<1>1. PICK q \in Nat : W64 = WAxis * q
  BY WidthAssumption, Multiple
<1>2. /\ W64 \in Nat /\ WAxis \in Nat /\ 1 < WAxis /\ WAxis <= W64
      /\ t \in Int /\ - WAxis <= 2 * t /\ 2 * t < WAxis
  BY WidthAssumption DEF Time
<1>3. CASE t >= 0
  <2>1. t \in 0 .. W64 - 1 /\ t \in 0 .. WAxis - 1
    BY <1>2, <1>3
  <2>2. t % W64 = t
    BY <1>2, <2>1
  <2>3. t % WAxis = t
    BY <1>2, <2>1
  <2> QED BY <1>3, <2>1, <2>2, <2>3 DEF AsU64
<1>4. CASE t < 0
  <2>1. t + W64 \in 0 .. W64 - 1 /\ t + WAxis \in 0 .. WAxis - 1
    BY <1>2, <1>4
  <2>2. t = W64 * (-1) + (t + W64)
    BY <1>2
  <2>3. t % W64 = t + W64
    BY <1>2, <2>1, <2>2, Remainder
  <2>4. t + W64 = WAxis * (q - 1) + (t + WAxis)
    BY <1>1, <1>2
  <2>5. (t + W64) % WAxis = t + WAxis
    <3>1. q - 1 \in Int /\ WAxis > 0
      BY <1>2
    <3>2. (WAxis * (q - 1) + (t + WAxis)) % WAxis = t + WAxis
      BY <1>2, <2>1, <3>1, Remainder
    <3> QED BY <2>4, <3>2
  <2> QED BY <1>2, <1>4, <2>1, <2>3, <2>5 DEF AsU64
<1> QED BY <1>2, <1>3, <1>4

(* Times with the same key are the same, and the slot read with its sign   *)
(* is the time.                                                            *)
LEMMA SlotReadsBack ==
    ASSUME NEW t \in Time, NEW u \in Time, AsU64(t) = AsU64(u) % WAxis
    PROVE  Signed(AsU64(t)) = t
<1>1. /\ W64 \in Nat /\ WAxis \in Nat /\ 1 < WAxis /\ WAxis <= W64 /\ W64 % WAxis = 0
      /\ t \in Int /\ - WAxis <= 2 * t /\ 2 * t < WAxis
  BY WidthAssumption DEF Time
<1>2. WAxis = 2 * (WAxis \div 2)
  BY WidthAssumption
<1>3. CASE t >= 0
  <2>1. AsU64(t) = t /\ t < WAxis \div 2
    BY <1>1, <1>2, <1>3, SlotOfTime
  <2> QED BY <2>1 DEF Signed
<1>4. CASE t < 0
  <2>1. AsU64(t) = t + W64 /\ AsU64(t) < WAxis
    BY <1>1, <1>4, SlotOfTime
  <2>2. PICK q \in Nat : W64 = WAxis * q
    BY <1>1, Multiple
  <2>3. W64 < 2 * WAxis
    BY <1>1, <2>1
  <2>4. q = 1
    BY <1>1, <2>2, <2>3
  <2>5. W64 = WAxis
    BY <1>1, <2>2, <2>4
  <2> QED BY <1>1, <1>2, <2>1, <2>5 DEF Signed
<1> QED BY <1>1, <1>3, <1>4
----------------------------------------------------------------------------
(* What an index has that was built from any input the builder takes.      *)
Tiles(ix, in) ==
    /\ ix.axis \in Seq(0 .. WAxis - 1)
    /\ ix.recs \in Seq(RowRecord)
    /\ \A i, j \in DOMAIN ix.axis : i < j => ix.axis[i] < ix.axis[j]
    /\ \A p \in DOMAIN ix.axis : \E t \in Time : ix.axis[p] = AsU64(t) % WAxis
    /\ RowCount(ix) = Len(in)
    /\ \A k \in DOMAIN ix.recs :
         LET rec == ix.recs[k]
         IN  /\ rec.row_start = IF k = 1 THEN 0
                                ELSE ix.recs[k - 1].row_start + ix.recs[k - 1].time_count
             /\ rec.time_count > 0
             /\ rec.time_start + rec.time_count <= Len(ix.axis)
             /\ rec.row_start + rec.time_count <= Len(in)
             /\ \A l \in DOMAIN ix.recs :
                  k < l => rec.row_start + rec.time_count <= ix.recs[l].row_start

(* The keys of an input are the keys of its times.                         *)
LEMMA KeysOfTimes ==
    ASSUME NEW in \in Seq(InputRow)
    PROVE  /\ Keys(in) \in SUBSET Int
           /\ \A x \in Keys(in) : x \in 0 .. W64 - 1 /\ \E t \in Time : x = AsU64(t)
           /\ \A i \in 1 .. Len(in) : AsU64(in[i].time) \in Keys(in)
<1>1. \A i \in 1 .. Len(in) : in[i].time \in Time
  <2>1. \A i \in 1 .. Len(in) : in[i] \in InputRow
    OBVIOUS
  <2>2. \A r \in InputRow : r.time \in Time
    BY DEF InputRow
  <2> QED BY <2>1, <2>2
<1>2. DOMAIN in = 1 .. Len(in)
  OBVIOUS
<1>3. \A x \in Keys(in) : \E t \in Time : x = AsU64(t)
  BY <1>1, <1>2 DEF Keys
<1>4. \A x \in Keys(in) : x \in 0 .. W64 - 1
  BY <1>3, SlotOfTime
<1>5. \A i \in 1 .. Len(in) : AsU64(in[i].time) \in Keys(in)
  BY <1>2 DEF Keys
<1>6. Keys(in) \subseteq Int
  BY <1>4, WidthAssumption
<1> QED BY <1>3, <1>4, <1>5, <1>6

(* The slots of the axis ascend as the keys do.                            *)
LEMMA SlotsAscend ==
    ASSUME NEW t \in Time, NEW u \in Time, AsU64(t) < AsU64(u)
    PROVE  AsU64(t) % WAxis < AsU64(u) % WAxis
<1>1. /\ W64 \in Nat /\ WAxis \in Nat /\ 1 < WAxis /\ WAxis <= W64
      /\ t \in Int /\ - WAxis <= 2 * t /\ 2 * t < WAxis
      /\ u \in Int /\ - WAxis <= 2 * u /\ 2 * u < WAxis
  BY WidthAssumption DEF Time
<1>2. AsU64(t) = (IF t >= 0 THEN t ELSE t + W64) /\ AsU64(u) = (IF u >= 0 THEN u ELSE u + W64)
  BY SlotOfTime
<1>3. /\ AsU64(t) % WAxis = IF t >= 0 THEN t ELSE t + WAxis
      /\ AsU64(u) % WAxis = IF u >= 0 THEN u ELSE u + WAxis
  BY SlotOfTime
<1>4. (t >= 0 /\ u >= 0 /\ t < u) \/ (t >= 0 /\ u < 0) \/ (t < 0 /\ u < 0 /\ t < u)
  BY <1>1, <1>2
<1>5. CASE t >= 0 /\ u >= 0 /\ t < u
  BY <1>3, <1>5
<1>6. CASE t >= 0 /\ u < 0
  BY <1>1, <1>3, <1>6
<1>7. CASE t < 0 /\ u < 0 /\ t < u
  BY <1>1, <1>3, <1>7
<1> QED BY <1>4, <1>5, <1>6, <1>7

(* A list of n members is a sequence.                                      *)
LEMMA ListIsSeq ==
    ASSUME NEW S, NEW n \in Nat, NEW f \in [1 .. n -> S]
    PROVE  f \in Seq(S) /\ Len(f) = n /\ DOMAIN f = 1 .. n
<1>1. f \in Seq(S)
  BY SeqDef
<1>2. Len(f) \in Nat /\ 1 .. Len(f) = 1 .. n
  BY <1>1, LenProperties
<1>3. Len(f) = n
  BY <1>2
<1> QED BY <1>1, <1>3

(* The axis of an input.                                                   *)
LEMMA AxisOfInput ==
    ASSUME NEW in \in Seq(InputRow)
    PROVE  LET axis == Built(in).axis
           IN  /\ axis \in Seq(0 .. WAxis - 1)
               /\ Len(axis) = Cardinality(Keys(in))
               /\ \A i, j \in DOMAIN axis : i < j => axis[i] < axis[j]
               /\ \A p \in DOMAIN axis : \E t \in Time : axis[p] = AsU64(t) % WAxis
<1> DEFINE n == Cardinality(Keys(in))
           a == Ascending(Keys(in))
           axis == Built(in).axis
<1>1. /\ n \in Nat /\ a \in [1 .. n -> Keys(in)]
      /\ \A i, j \in 1 .. n : i < j => a[i] < a[j]
  BY KeysFinite, KeysOfTimes, AscendingLists
<1>2. axis = [j \in DOMAIN a |-> a[j] % WAxis]
  BY DEF Built
<1> HIDE DEF n, a, axis
<1>3. axis = [j \in 1 .. n |-> a[j] % WAxis]
  BY <1>1, <1>2
<1>4. \A j \in 1 .. n : \E t \in Time : a[j] = AsU64(t) /\ axis[j] = AsU64(t) % WAxis
  BY <1>1, <1>3, KeysOfTimes
<1>5. \A j \in 1 .. n : axis[j] \in 0 .. WAxis - 1
  BY <1>4, SlotOfTime
<1>6. axis \in [1 .. n -> 0 .. WAxis - 1]
  BY <1>3, <1>5
<1>7. axis \in Seq(0 .. WAxis - 1) /\ Len(axis) = n /\ DOMAIN axis = 1 .. n
  BY <1>1, <1>6, ListIsSeq
<1>8. ASSUME NEW i \in 1 .. n, NEW j \in 1 .. n, i < j PROVE axis[i] < axis[j]
  <2>1. PICK t \in Time : a[i] = AsU64(t) /\ axis[i] = AsU64(t) % WAxis
    BY <1>4
  <2>2. PICK u \in Time : a[j] = AsU64(u) /\ axis[j] = AsU64(u) % WAxis
    BY <1>4
  <2> QED BY <1>1, <1>8, <2>1, <2>2, SlotsAscend
<1> QED BY <1>4, <1>7, <1>8 DEF axis, n
(* The records of an input the builder takes: run by run, without gap.     *)
LEMMA RecordsOfInput ==
    ASSUME NEW in \in Seq(InputRow), Fits(in)
    PROVE  LET recs == Built(in).recs
               a    == Ascending(Starts(in))
               m    == Cardinality(Starts(in))
           IN  /\ m \in Nat /\ m >= 1
               /\ recs \in Seq(RowRecord) /\ Len(recs) = m
               /\ \A k \in 1 .. m : a[k] \in Starts(in) /\ recs[k] = Record(in, a[k])
               /\ \A k, l \in 1 .. m : k < l => RunEnd(in, a[k]) < a[l]
               /\ \A k \in 1 .. m - 1 : a[k + 1] = RunEnd(in, a[k]) + 1
               /\ RunEnd(in, a[m]) = Len(in)
               /\ a[1] = 1
<1> DEFINE S == Starts(in)
           m == Cardinality(S)
           a == Ascending(S)
           recs == Built(in).recs
<1>1. /\ Len(in) \in Nat /\ in # <<>> /\ DOMAIN in = 1 .. Len(in) /\ 1 \in 1 .. Len(in)
      /\ 1 \in S
  <2>1. in # <<>> /\ Len(in) \in Nat /\ DOMAIN in = 1 .. Len(in)
    BY InputParts DEF Fits
  <2>2. 1 \in 1 .. Len(in)
    BY <2>1, EmptySeq
  <2> QED BY <2>1, <2>2 DEF Starts
<1>2. S \in SUBSET Int /\ IsFiniteSet(S) /\ S \subseteq 1 .. Len(in)
  <2>1. S \in SUBSET (1 .. Len(in)) /\ IsFiniteSet(1 .. Len(in))
    BY <1>1, FS_Interval DEF Starts
  <2> HIDE DEF S
  <2>2. IsFiniteSet(S)
    BY <2>1, FS_Subset
  <2> QED BY <2>1, <2>2
<1>3. /\ m \in Nat /\ a \in [1 .. m -> S]
      /\ \A j, k \in 1 .. m : j < k => a[j] < a[k]
      /\ \A x \in S : \E k \in 1 .. m : a[k] = x
  <2> HIDE DEF S
  <2> QED BY <1>2, AscendingLists
<1>4. \A i \in S : /\ i \in 1 .. Len(in) /\ RunEnd(in, i) \in i .. Len(in)
                   /\ \A j \in i + 1 .. RunEnd(in, i) : j \notin S
                   /\ RunEnd(in, i) = Len(in) \/ RunEnd(in, i) + 1 \in S
  BY RunEnds
<1>5. \A k \in 1 .. m, x \in S :
         /\ k < m /\ a[k] < x => a[k + 1] <= x
         /\ k = m => x <= a[k]
         /\ k = 1 => a[k] <= x
  <2> HIDE DEF S
  <2> QED BY <1>2, AscendingNext
<1>6. recs = [k \in DOMAIN a |-> Record(in, a[k])]
  BY DEF Built
<1>7. \A i \in S : Record(in, i) \in RowRecord
  <2> SUFFICES ASSUME NEW i \in S PROVE Record(in, i) \in RowRecord
    OBVIOUS
  <2>1. i \in 1 .. Len(in) /\ RunEnd(in, i) \in i .. Len(in)
    BY <1>4
  <2>2. in[i].sym \in Nat
    BY <2>1, InputParts
  <2>3. Position(in, i) \in Nat
    <3>1. AsU64(in[i].time) \in Keys(in)
      BY <2>1, KeysOfTimes
    <3>2. Position(in, i) = Cardinality(Below(Keys(in), AsU64(in[i].time)))
      BY DEF Position, Below
    <3> QED BY <3>1, <3>2, KeysFinite, KeysOfTimes, BelowCounts
  <2>4. Span(in, i) = RunEnd(in, i) - i + 1
    BY DEF Fits
  <2>5. i - 1 \in Nat /\ Span(in, i) \in Nat
    BY <1>1, <2>1, <2>4
  <2> QED BY <2>2, <2>3, <2>5 DEF Record, RowRecord
<1> HIDE DEF S, m, a, recs
<1>8. m >= 1
  BY <1>1, <1>3
<1>9. recs = [k \in 1 .. m |-> Record(in, a[k])]
  BY <1>3, <1>6
<1>10. \A k \in 1 .. m : a[k] \in S /\ recs[k] = Record(in, a[k])
  BY <1>3, <1>9
<1>11. recs \in Seq(RowRecord) /\ Len(recs) = m
  <2>1. recs \in [1 .. m -> RowRecord]
    BY <1>7, <1>9, <1>10
  <2> QED BY <1>3, <2>1, ListIsSeq
<1>12. ASSUME NEW k \in 1 .. m, NEW l \in 1 .. m, k < l PROVE RunEnd(in, a[k]) < a[l]
  <2>1. a[k] < a[l] /\ a[k] \in S /\ a[l] \in S
    BY <1>3, <1>12
  <2>2. /\ a[k] \in 1 .. Len(in) /\ a[l] \in 1 .. Len(in) /\ RunEnd(in, a[k]) \in a[k] .. Len(in)
        /\ a[l] \notin a[k] + 1 .. RunEnd(in, a[k])
    BY <1>4, <2>1
  <2> QED BY <1>1, <2>1, <2>2
<1>13. ASSUME NEW k \in 1 .. m - 1 PROVE a[k + 1] = RunEnd(in, a[k]) + 1
  <2>1. k \in 1 .. m /\ k + 1 \in 1 .. m /\ k < k + 1 /\ k < m
    BY <1>3
  <2>2. a[k] \in S /\ a[k + 1] \in S /\ RunEnd(in, a[k]) < a[k + 1]
    BY <1>3, <1>12, <2>1
  <2>3. /\ a[k] \in 1 .. Len(in) /\ a[k + 1] \in 1 .. Len(in)
        /\ RunEnd(in, a[k]) \in a[k] .. Len(in)
        /\ RunEnd(in, a[k]) = Len(in) \/ RunEnd(in, a[k]) + 1 \in S
    BY <1>4, <2>2
  <2>4. RunEnd(in, a[k]) + 1 \in S /\ a[k] < RunEnd(in, a[k]) + 1
    BY <1>1, <2>2, <2>3
  <2>5. a[k + 1] <= RunEnd(in, a[k]) + 1
    BY <1>5, <2>1, <2>4
  <2> QED BY <1>1, <2>2, <2>3, <2>5
<1>14. RunEnd(in, a[m]) = Len(in)
  <2>1. m \in 1 .. m /\ a[m] \in S
    BY <1>3, <1>8
  <2>2. a[m] \in 1 .. Len(in) /\ RunEnd(in, a[m]) \in a[m] .. Len(in)
        /\ (RunEnd(in, a[m]) = Len(in) \/ RunEnd(in, a[m]) + 1 \in S)
    BY <1>4, <2>1
  <2>3. ASSUME RunEnd(in, a[m]) + 1 \in S PROVE FALSE
    <3>1. RunEnd(in, a[m]) + 1 <= a[m]
      BY <1>5, <2>1, <2>3
    <3> QED BY <1>1, <2>2, <3>1
  <2> QED BY <2>2, <2>3
<1>15. a[1] = 1
  <2>1. 1 \in 1 .. m
    BY <1>3, <1>8
  <2>2. a[1] \in S /\ a[1] <= 1
    BY <1>1, <1>3, <1>5, <2>1
  <2>3. a[1] \in 1 .. Len(in)
    BY <1>2, <2>2
  <2> QED BY <1>1, <2>2, <2>3
<1> QED BY <1>3, <1>8, <1>10, <1>11, <1>12, <1>13, <1>14, <1>15 DEF S, m, a, recs
(* The stretch of a run lies on the axis.                                  *)
LEMMA RunOnAxis ==
    ASSUME NEW in \in Seq(InputRow), Fits(in), NEW i \in Starts(in)
    PROVE  /\ Span(in, i) = RunEnd(in, i) - i + 1
           /\ Position(in, i) \in Nat
           /\ Position(in, i) + Span(in, i) <= Cardinality(Keys(in))
<1>1. /\ i \in 1 .. Len(in) /\ RunEnd(in, i) \in i .. Len(in) /\ Len(in) \in Nat
  BY RunEnds, InputParts
<1>2. \A j \in 1 .. Len(in) : /\ Position(in, j) \in Nat
                              /\ Position(in, j) + 1 <= Cardinality(Keys(in))
  <2> SUFFICES ASSUME NEW j \in 1 .. Len(in)
               PROVE  /\ Position(in, j) \in Nat
                      /\ Position(in, j) + 1 <= Cardinality(Keys(in))
    OBVIOUS
  <2>1. AsU64(in[j].time) \in Keys(in)
    BY KeysOfTimes
  <2>2. Position(in, j) = Cardinality(Below(Keys(in), AsU64(in[j].time)))
    BY DEF Position, Below
  <2> QED BY <2>1, <2>2, KeysFinite, KeysOfTimes, BelowCounts
<1>3. Span(in, i) = RunEnd(in, i) - i + 1
  BY DEF Fits
<1>4. Position(in, i) + Span(in, i) = Position(in, RunEnd(in, i)) + 1
  <2>1. Position(in, i) \in Nat /\ Position(in, RunEnd(in, i)) \in Nat
    BY <1>1, <1>2
  <2> QED BY <2>1 DEF Span
<1>5. RunEnd(in, i) \in 1 .. Len(in)
  BY <1>1
<1> QED BY <1>1, <1>2, <1>3, <1>4, <1>5

(* MetaBuilder::build: the records of any input it takes tile its rows.    *)
LEMMA BuiltTiles ==
    ASSUME NEW in \in Seq(InputRow), Fits(in)
    PROVE  Tiles(Built(in), in)
<1> DEFINE ix == Built(in)
           m == Cardinality(Starts(in))
           a == Ascending(Starts(in))
           E(k) == RunEnd(in, a[k])
<1>1. /\ ix.axis \in Seq(0 .. WAxis - 1)
      /\ Len(ix.axis) = Cardinality(Keys(in))
      /\ \A i, j \in DOMAIN ix.axis : i < j => ix.axis[i] < ix.axis[j]
      /\ \A p \in DOMAIN ix.axis : \E t \in Time : ix.axis[p] = AsU64(t) % WAxis
  BY AxisOfInput
<1>2. /\ m \in Nat /\ m >= 1
      /\ ix.recs \in Seq(RowRecord) /\ Len(ix.recs) = m
      /\ \A k \in 1 .. m : a[k] \in Starts(in) /\ ix.recs[k] = Record(in, a[k])
      /\ \A k, l \in 1 .. m : k < l => E(k) < a[l]
      /\ \A k \in 1 .. m - 1 : a[k + 1] = E(k) + 1
      /\ E(m) = Len(in)
      /\ a[1] = 1
  BY RecordsOfInput
<1>3. ix.recs # <<>> /\ DOMAIN ix.recs = 1 .. m /\ Last(ix.recs) = ix.recs[m]
  <2>1. DOMAIN ix.recs = 1 .. m
    BY <1>2, LenProperties
  <2>2. ix.recs # <<>>
    BY <1>2, EmptySeq
  <2> QED BY <1>2, <2>1, <2>2 DEF Last
<1> HIDE DEF ix, m, a
<1>4. \A k \in 1 .. m : /\ a[k] \in 1 .. Len(in) /\ E(k) \in a[k] .. Len(in)
                        /\ ix.recs[k].row_start = a[k] - 1
                        /\ ix.recs[k].time_count = E(k) - a[k] + 1
                        /\ ix.recs[k].time_start + ix.recs[k].time_count <= Len(ix.axis)
  <2> SUFFICES ASSUME NEW k \in 1 .. m
               PROVE  /\ a[k] \in 1 .. Len(in) /\ E(k) \in a[k] .. Len(in)
                      /\ ix.recs[k].row_start = a[k] - 1
                      /\ ix.recs[k].time_count = E(k) - a[k] + 1
                      /\ ix.recs[k].time_start + ix.recs[k].time_count <= Len(ix.axis)
    OBVIOUS
  <2>1. a[k] \in Starts(in) /\ ix.recs[k] = Record(in, a[k])
    BY <1>2
  <2>2. a[k] \in 1 .. Len(in) /\ E(k) \in a[k] .. Len(in)
    BY <2>1, RunEnds
  <2>3. /\ Span(in, a[k]) = E(k) - a[k] + 1
        /\ Position(in, a[k]) + Span(in, a[k]) <= Cardinality(Keys(in))
    BY <2>1, RunOnAxis
  <2> QED BY <1>1, <2>1, <2>2, <2>3 DEF Record
<1>5. Len(in) \in Nat
  BY InputParts
<1> HIDE DEF E
<1>6. RowCount(ix) = Len(in)
  <2>1. m \in 1 .. m
    BY <1>2
  <2>2. ix.recs[m].row_start + ix.recs[m].time_count = Len(in)
    <3>1. /\ ix.recs[m].row_start = a[m] - 1 /\ ix.recs[m].time_count = E(m) - a[m] + 1
          /\ a[m] \in 1 .. Len(in) /\ E(m) = Len(in)
      BY <1>2, <1>4, <2>1
    <3> QED BY <1>5, <3>1
  <2> QED BY <1>3, <2>2 DEF RowCount
<1>7. ASSUME NEW k \in 1 .. m
      PROVE  /\ ix.recs[k].row_start = IF k = 1 THEN 0
                                ELSE ix.recs[k - 1].row_start + ix.recs[k - 1].time_count
             /\ ix.recs[k].time_count > 0
             /\ ix.recs[k].row_start + ix.recs[k].time_count <= Len(in)
  <2>1. /\ ix.recs[k].row_start = a[k] - 1 /\ ix.recs[k].time_count = E(k) - a[k] + 1
        /\ a[k] \in 1 .. Len(in) /\ E(k) \in a[k] .. Len(in)
    BY <1>4
  <2>2. CASE k = 1
    BY <1>2, <1>5, <2>1, <2>2, SMTT(30)
  <2>3. CASE k # 1
    <3>1. k - 1 \in 1 .. m - 1 /\ k - 1 \in 1 .. m /\ (k - 1) + 1 = k
      BY <1>2, <2>3
    <3>2. a[k] = E(k - 1) + 1
      BY <1>2, <3>1
    <3>3. /\ ix.recs[k - 1].row_start = a[k - 1] - 1
          /\ ix.recs[k - 1].time_count = E(k - 1) - a[k - 1] + 1
          /\ a[k - 1] \in 1 .. Len(in) /\ E(k - 1) \in a[k - 1] .. Len(in)
      BY <1>4, <3>1
    <3>4. ix.recs[k].row_start = ix.recs[k - 1].row_start + ix.recs[k - 1].time_count
      <4> DEFINE x == a[k - 1]
                 y == E(k - 1)
                 z == ix.recs[k - 1]
      <4>1. x \in Int /\ y \in Int /\ z.row_start = x - 1 /\ z.time_count = y - x + 1
        BY <1>5, <3>3
      <4>2. ix.recs[k].row_start = (y + 1) - 1
        BY <2>1, <3>2
      <4> HIDE DEF x, y
      <4>3. z.row_start + z.time_count = y
        BY <4>1
      <4> QED BY <4>1, <4>2, <4>3
    <3>5. ix.recs[k].time_count > 0
      BY <1>5, <2>1
    <3>6. ix.recs[k].row_start + ix.recs[k].time_count <= Len(in)
      BY <1>5, <2>1
    <3> QED BY <2>3, <3>4, <3>5, <3>6
  <2> QED BY <2>2, <2>3
<1>8. ASSUME NEW k \in 1 .. m, NEW l \in 1 .. m, k < l
      PROVE  ix.recs[k].row_start + ix.recs[k].time_count <= ix.recs[l].row_start
  <2>1. E(k) < a[l]
    BY <1>2, <1>8
  <2>2. /\ ix.recs[k].row_start = a[k] - 1 /\ ix.recs[k].time_count = E(k) - a[k] + 1
        /\ ix.recs[l].row_start = a[l] - 1
        /\ a[k] \in 1 .. Len(in) /\ E(k) \in a[k] .. Len(in) /\ a[l] \in 1 .. Len(in)
    BY <1>4
  <2> QED BY <1>5, <2>1, <2>2
<1>9. Tiles(ix, in)
  BY <1>1, <1>2, <1>3, <1>4, <1>6, <1>7, <1>8 DEF Tiles
<1> QED BY <1>9 DEF ix

(* An index without rows (create_index) has nothing to tile.               *)
LEMMA EmptyTiles == Tiles(Empty, <<>>)
<1>1. Empty.axis = <<>> /\ Empty.recs = <<>>
  BY DEF Empty
<1>2. DOMAIN Empty.axis = {} /\ DOMAIN Empty.recs = {}
  BY <1>1
<1>3. RowCount(Empty) = Len(<<>>)
  BY <1>1 DEF RowCount
<1>4. Empty.axis \in Seq(0 .. WAxis - 1) /\ Empty.recs \in Seq(RowRecord)
  BY <1>1
<1> QED BY <1>2, <1>3, <1>4 DEF Tiles

----------------------------------------------------------------------------
(* Locating.                                                               *)

(* locate_row: a row of a record is found in that record.                  *)
LEMMA LocateRowFinds ==
    ASSUME NEW ix, NEW in \in Seq(InputRow), Tiles(ix, in),
           NEW c \in DOMAIN ix.recs, NEW d \in 0 .. ix.recs[c].time_count - 1
    PROVE  LocateRow(ix, ix.recs[c].row_start + d)
             = [id |-> c, at |-> ix.recs[c].time_start + d]
<1> DEFINE r == ix.recs[c].row_start + d
           P(n) == /\ ix.recs[n].row_start <= r
                   /\ n < Len(ix.recs) => ix.recs[n + 1].row_start > r
<1>1. /\ ix.recs \in Seq(RowRecord) /\ Len(ix.recs) \in Nat
      /\ DOMAIN ix.recs = 1 .. Len(ix.recs)
  BY LenProperties DEF Tiles
<1>2. \A n \in DOMAIN ix.recs : /\ ix.recs[n].row_start \in Nat
                                /\ ix.recs[n].time_start \in Nat
                                /\ ix.recs[n].time_count \in Nat
                                /\ ix.recs[n].time_count > 0
  <2>1. \A n \in DOMAIN ix.recs : ix.recs[n] \in RowRecord
    BY <1>1
  <2> QED BY <2>1 DEF RowRecord, Tiles
<1>3. \A n, l \in DOMAIN ix.recs :
         n < l => ix.recs[n].row_start + ix.recs[n].time_count <= ix.recs[l].row_start
  BY DEF Tiles
<1>4. r \in Nat /\ r < ix.recs[c].row_start + ix.recs[c].time_count
      /\ ix.recs[c].row_start <= r
  BY <1>2
<1> HIDE DEF r
<1>5. P(c)
  <2> SUFFICES ASSUME c < Len(ix.recs) PROVE ix.recs[c + 1].row_start > r
    BY <1>4
  <2>1. c + 1 \in DOMAIN ix.recs /\ c < c + 1
    BY <1>1
  <2>2. ix.recs[c].row_start + ix.recs[c].time_count <= ix.recs[c + 1].row_start
    BY <1>3, <2>1
  <2> QED BY <1>2, <1>4, <2>1, <2>2, SMTT(30)
<1>6. ASSUME NEW n \in DOMAIN ix.recs, P(n) PROVE n = c
  <2>1. ASSUME n < c PROVE FALSE
    <3>1. n + 1 \in DOMAIN ix.recs /\ n < Len(ix.recs) /\ (n + 1 = c \/ n + 1 < c)
      BY <1>1, <2>1
    <3>2. ix.recs[n + 1].row_start > r
      BY <1>6, <3>1
    <3>3. ix.recs[n + 1].row_start <= ix.recs[c].row_start
      <4> DEFINE rs(k) == ix.recs[k].row_start
                 tc(k) == ix.recs[k].time_count
      <4>1. rs(n + 1) \in Nat /\ tc(n + 1) \in Nat /\ rs(c) \in Nat
        BY <1>2, <3>1
      <4>2. n + 1 < c => rs(n + 1) + tc(n + 1) <= rs(c)
        BY <1>3, <3>1
      <4> HIDE DEF rs, tc
      <4>3. rs(n + 1) <= rs(c)
        BY <3>1, <4>1, <4>2
      <4> QED BY <4>3 DEF rs
    <3> QED BY <1>2, <1>4, <3>1, <3>2, <3>3, SMTT(30)
  <2>2. ASSUME c < n PROVE FALSE
    <3>1. ix.recs[c].row_start + ix.recs[c].time_count <= ix.recs[n].row_start
      BY <1>3, <2>2
    <3>2. ix.recs[n].row_start <= r
      BY <1>6
    <3> QED BY <1>2, <1>4, <3>1, <3>2
  <2> QED BY <1>1, <2>1, <2>2
<1>7. (CHOOSE n \in DOMAIN ix.recs : P(n)) = c
  <2> HIDE DEF P
  <2> QED BY <1>5, <1>6
<1>8. LocateRow(ix, r) = [id |-> c, at |-> ix.recs[c].time_start + (r - ix.recs[c].row_start)]
  BY <1>7 DEF LocateRow
<1>9. ix.recs[c].time_start + (r - ix.recs[c].row_start) = ix.recs[c].time_start + d
  BY <1>2 DEF r
<1> QED BY <1>8, <1>9 DEF r

----------------------------------------------------------------------------
(* An index of an input in order.                                          *)

(* What ascends strictly climbs by at least one each time.                 *)
LEMMA Climbs ==
    ASSUME NEW j \in Nat, NEW k \in Nat, j <= k, NEW f,
           \A m \in j .. k : f[m] \in Int,
           \A m, n \in j .. k : m < n => f[m] < f[n]
    PROVE  f[j] + (k - j) <= f[k]
<1> DEFINE Bad == {n \in j .. k : ~(f[j] + (n - j) <= f[n])}
<1>1. Bad = {}
  <2> SUFFICES ASSUME Bad # {} PROVE FALSE
    OBVIOUS
  <2>1. Bad \in SUBSET Nat
    OBVIOUS
  <2> HIDE DEF Bad
  <2>2. PICK n \in Bad : \A m \in Bad : n <= m
    BY <2>1, LeastNatural
  <2>3. n \in j .. k /\ ~(f[j] + (n - j) <= f[n])
    BY DEF Bad
  <2>4. n # j
    <3>1. f[j] \in Int
      BY <2>3
    <3> QED BY <2>3, <3>1
  <2>5. n - 1 \in j .. k /\ n - 1 < n
    BY <2>3, <2>4
  <2>6. f[j] + ((n - 1) - j) <= f[n - 1]
    <3>1. n - 1 \notin Bad
      BY <2>2, <2>3, <2>5
    <3> QED BY <2>5, <3>1 DEF Bad
  <2>7. f[n - 1] < f[n]
    BY <2>3, <2>5
  <2>8. f[j] \in Int /\ f[n - 1] \in Int /\ f[n] \in Int /\ n \in Int
    <3>1. j \in j .. k
      OBVIOUS
    <3> QED BY <2>3, <2>5, <3>1
  <2> QED BY <2>3, <2>6, <2>7, <2>8
<1>2. k \in j .. k
  OBVIOUS
<1> QED BY <1>1, <1>2

(* MetaBuilder::build: along a run the axis has no key but the run's.      *)
LEMMA RunPositions ==
    ASSUME NEW in \in Seq(InputRow), InOrder(in), Fits(in),
           NEW i \in Starts(in), NEW j \in i .. RunEnd(in, i)
    PROVE  Position(in, j) = Position(in, i) + (j - i)
<1> DEFINE e == RunEnd(in, i)
           f == [m \in i .. e |-> Position(in, m)]
<1>1. i \in 1 .. Len(in) /\ e \in i .. Len(in) /\ Len(in) \in Nat
  BY RunEnds, InputParts
<1>2. Span(in, i) = e - i + 1
  BY RunOnAxis
<1>3. \A m \in i .. e : m \in 1 .. Len(in)
  BY <1>1
<1>4. \A m \in i .. e : /\ AsU64(in[m].time) = in[m].time /\ in[m].time \in Keys(in)
                        /\ Position(in, m) = Cardinality(Below(Keys(in), in[m].time))
  <2>1. \A m \in 1 .. Len(in) : AsU64(in[m].time) = in[m].time
    BY KeysInOrder
  <2>2. \A m \in 1 .. Len(in) : AsU64(in[m].time) \in Keys(in)
    BY KeysOfTimes
  <2> QED BY <1>3, <2>1, <2>2 DEF Position, Below
<1>5. Keys(in) \in SUBSET Int /\ IsFiniteSet(Keys(in))
  BY KeysOfTimes, KeysFinite
<1>6. \A m, n \in i .. e : m < n => in[m].time < in[n].time
  BY RunAscends
<1> HIDE DEF e
<1>7. \A m \in i .. e : f[m] \in Int
  BY <1>4, <1>5, BelowCounts
<1>8. \A m, n \in i .. e : m < n => f[m] < f[n]
  <2> SUFFICES ASSUME NEW m \in i .. e, NEW n \in i .. e, m < n
               PROVE  Position(in, m) < Position(in, n)
    OBVIOUS
  <2>1. /\ in[m].time \in Keys(in) /\ in[n].time \in Keys(in)
        /\ in[m].time < in[n].time
    BY <1>4, <1>6
  <2>2. Cardinality(Below(Keys(in), in[m].time)) < Cardinality(Below(Keys(in), in[n].time))
    BY <1>5, <2>1, BelowCounts
  <2> QED BY <1>4, <2>2
<1>9. i \in i .. e /\ e \in i .. e /\ j \in i .. e
  BY <1>1 DEF e
<1>10. f[e] = f[i] + (e - i)
  <2>1. f[i] \in Int /\ f[e] \in Int /\ i \in Int /\ e \in Int
    BY <1>1, <1>7, <1>9
  <2>2. f[i] = Position(in, i) /\ f[e] = Position(in, e)
    BY <1>9
  <2>3. Position(in, e) - Position(in, i) + 1 = e - i + 1
    BY <1>2 DEF Span, e
  <2> HIDE DEF f
  <2> QED BY <2>1, <2>2, <2>3
<1>11. f[i] + (j - i) <= f[j]
  <2> HIDE DEF f
  <2>1. i \in Nat /\ j \in Nat /\ i <= j /\ \A m \in i .. j : m \in i .. e
    BY <1>1, <1>9
  <2> QED BY <1>7, <1>8, <2>1, Climbs
<1>12. f[j] + (e - j) <= f[e]
  <2> HIDE DEF f
  <2>1. j \in Nat /\ e \in Nat /\ j <= e /\ \A m \in j .. e : m \in i .. e
    BY <1>1, <1>9
  <2> QED BY <1>7, <1>8, <2>1, Climbs
<1>13. f[j] = f[i] + (j - i)
  <2>1. f[i] \in Int /\ f[j] \in Int /\ f[e] \in Int
    BY <1>7, <1>9
  <2> HIDE DEF f
  <2> QED BY <1>1, <1>9, <1>10, <1>11, <1>12, <2>1, SMTT(30)
<1> QED BY <1>9, <1>13

(* The place of a member of a set in order: as many are before it.         *)
LEMMA AscendingAt ==
    ASSUME NEW S \in SUBSET Int, IsFiniteSet(S), NEW x \in S
    PROVE  /\ Cardinality(Below(S, x)) + 1 \in 1 .. Cardinality(S)
           /\ Ascending(S)[Cardinality(Below(S, x)) + 1] = x
<1>1. PICK k \in 1 .. Cardinality(S) : Ascending(S)[k] = x
  BY AscendingLists
<1>2. Cardinality(Below(S, x)) = k - 1
  BY <1>1, AscendingLists
<1>3. Cardinality(S) \in Nat
  BY AscendingLists
<1> QED BY <1>1, <1>2, <1>3

(* The record of a run, as a row of it is looked up: the place of a row in *)
(* the index.                                                              *)
At(ix, c, d, row, in) ==
    /\ ix.recs[c].row_start + d = row - 1
    /\ ix.recs[c].sym = in[row].sym
    /\ TimeAt(ix, ix.recs[c].time_start + d) = in[row].time

(* An index with exactly the rows of an input in order.                    *)
Exact(ix, in) ==
    /\ \A k, l \in DOMAIN ix.recs : k < l => ix.recs[k].sym < ix.recs[l].sym
    /\ \A row \in 1 .. Len(in) :
         \E c \in DOMAIN ix.recs : \E d \in 0 .. ix.recs[c].time_count - 1 :
           At(ix, c, d, row, in)

(* Every row is one of a run.                                              *)
LEMMA RecordOfRow ==
    ASSUME NEW in \in Seq(InputRow), Fits(in), NEW row \in 1 .. Len(in)
    PROVE  LET a == Ascending(Starts(in))
           IN  \E k \in 1 .. Cardinality(Starts(in)) : row \in a[k] .. RunEnd(in, a[k])
<1> DEFINE m == Cardinality(Starts(in))
           a == Ascending(Starts(in))
           E(k) == RunEnd(in, a[k])
           T == {k \in 1 .. m : row <= E(k)}
<1>1. /\ m \in Nat /\ m >= 1
      /\ \A k \in 1 .. m : a[k] \in Starts(in)
      /\ \A k \in 1 .. m - 1 : a[k + 1] = E(k) + 1
      /\ E(m) = Len(in)
      /\ a[1] = 1
  BY RecordsOfInput
<1>2. \A k \in 1 .. m : a[k] \in 1 .. Len(in) /\ E(k) \in a[k] .. Len(in)
  BY <1>1, RunEnds
<1>3. Len(in) \in Nat
  BY InputParts
<1> SUFFICES \E k \in 1 .. m : row \in a[k] .. E(k)
  OBVIOUS
<1> HIDE DEF m, a, E
<1>4. T # {} /\ T \in SUBSET Nat
  <2>1. m \in T
    BY <1>1, <1>3
  <2> QED BY <1>1, <2>1
<1> HIDE DEF T
<1>5. PICK k \in T : \A l \in T : k <= l
  BY <1>4, LeastNatural
<1>6. k \in 1 .. m /\ row <= E(k)
  BY <1>5 DEF T
<1>7. a[k] <= row
  <2>1. CASE k = 1
    BY <1>1, <2>1
  <2>2. CASE k # 1
    <3>1. k - 1 \in 1 .. m - 1 /\ k - 1 \in 1 .. m /\ (k - 1) + 1 = k /\ k - 1 < k
      BY <1>1, <1>6, <2>2
    <3>2. k - 1 \notin T
      BY <1>5, <1>6, <3>1
    <3>3. ~(row <= E(k - 1))
      BY <3>1, <3>2 DEF T
    <3>4. a[k] = E(k - 1) + 1
      BY <1>1, <3>1
    <3>5. E(k - 1) \in Int
      BY <1>2, <3>1
    <3> QED BY <3>3, <3>4, <3>5
  <2> QED BY <2>1, <2>2
<1>8. a[k] \in Nat /\ E(k) \in Nat
  BY <1>2, <1>3, <1>6
<1> QED BY <1>6, <1>7, <1>8

(* MetaBuilder::build: the index of an input in order has its rows.        *)
LEMMA BuiltExact ==
    ASSUME NEW in \in Seq(InputRow), InOrder(in), Fits(in)
    PROVE  Exact(Built(in), in)
<1> DEFINE ix == Built(in)
           m == Cardinality(Starts(in))
           a == Ascending(Starts(in))
           E(k) == RunEnd(in, a[k])
<1>1. /\ m \in Nat /\ m >= 1
      /\ ix.recs \in Seq(RowRecord) /\ Len(ix.recs) = m
      /\ \A k \in 1 .. m : a[k] \in Starts(in) /\ ix.recs[k] = Record(in, a[k])
      /\ \A k, l \in 1 .. m : k < l => E(k) < a[l]
  BY RecordsOfInput
<1>2. DOMAIN ix.recs = 1 .. m
  BY <1>1, LenProperties
<1>3. \A k \in 1 .. m : a[k] \in 1 .. Len(in) /\ E(k) \in a[k] .. Len(in)
  BY <1>1, RunEnds
<1>4. Len(in) \in Nat
  BY InputParts
<1>5. ix.axis = [j \in DOMAIN Ascending(Keys(in)) |-> Ascending(Keys(in))[j] % WAxis]
  BY DEF Built
<1>6. ASSUME NEW row \in 1 .. Len(in)
      PROVE  \E k \in 1 .. m : row \in a[k] .. E(k)
  BY RecordOfRow
<1> HIDE DEF ix, m, a
<1>7. ASSUME NEW k \in 1 .. m, NEW l \in 1 .. m, k < l
      PROVE  ix.recs[k].sym < ix.recs[l].sym
  <2> DEFINE i == a[k]
             j == a[l]
  <2>1. ix.recs[k].sym = in[i].sym /\ ix.recs[l].sym = in[j].sym
    <3>1. ix.recs[k] = Record(in, i) /\ ix.recs[l] = Record(in, j)
      BY <1>1
    <3> HIDE DEF i, j
    <3> QED BY <3>1 DEF Record
  <2>2. i \in 1 .. Len(in) /\ j \in 1 .. Len(in) /\ i < j /\ j \in Starts(in)
    <3>1. E(k) < a[l] /\ E(k) \in a[k] .. Len(in) /\ a[k] \in 1 .. Len(in)
          /\ a[l] \in 1 .. Len(in) /\ a[l] \in Starts(in)
      BY <1>1, <1>3, <1>7
    <3> HIDE DEF E
    <3> QED BY <1>4, <3>1
  <2> HIDE DEF i, j
  <2>3. in[i].sym \in Nat /\ in[j].sym \in Nat
    BY <2>2, InputParts
  <2>4. Ordered(in[i], in[j])
    BY <2>2, AllInOrder
  <2>5. CASE in[i].sym < in[j].sym
    BY <2>1, <2>5
  <2>6. CASE in[i].sym = in[j].sym
    <3> DEFINE q == j - 1
    <3>1. q \in 1 .. Len(in) /\ q < j /\ i <= q
      BY <1>4, <2>2
    <3>2. in[j].key # in[q].key
      <4>1. j \in 1 .. Len(in) /\ j # 1
        BY <1>4, <2>2
      <4> QED BY <2>2, <4>1 DEF Starts
    <3> HIDE DEF q
    <3>3. in[q].sym \in Nat /\ Ordered(in[q], in[j])
      BY <2>2, <3>1, InputParts, AllInOrder
    <3>4. in[i].sym <= in[q].sym
      <4>1. CASE i = q
        BY <2>3, <4>1
      <4>2. CASE i # q
        <5>1. i < q
          BY <2>2, <3>1, <4>2
        <5>2. Ordered(in[i], in[q])
          BY <2>2, <3>1, <5>1, AllInOrder
        <5> QED BY <2>3, <3>3, <5>2 DEF Ordered
      <4> QED BY <4>1, <4>2
    <3>5. in[q].sym <= in[j].sym
      BY <2>3, <3>3 DEF Ordered
    <3>6. in[q].sym = in[j].sym
      BY <2>3, <2>6, <3>3, <3>4, <3>5
    <3>7. in[q].key = in[q].sym /\ in[j].key = in[j].sym
      <4>1. q \in DOMAIN in /\ j \in DOMAIN in
        BY <2>2, <3>1, InputParts
      <4> QED BY <4>1 DEF InOrder
    <3> QED BY <3>2, <3>6, <3>7
  <2> QED BY <2>4, <2>5, <2>6 DEF Ordered
<1>8. ASSUME NEW row \in 1 .. Len(in)
      PROVE  \E c \in 1 .. m : \E d \in 0 .. ix.recs[c].time_count - 1 :
               At(ix, c, d, row, in)
  <2>1. PICK k \in 1 .. m : row \in a[k] .. E(k)
    BY <1>6
  <2> DEFINE i == a[k]
             d == row - i
             x == in[row].time
             K == Keys(in)
             n == Cardinality(Below(K, x))
  <2>2. /\ i \in Starts(in) /\ ix.recs[k] = Record(in, i) /\ row \in i .. RunEnd(in, i)
        /\ i \in 1 .. Len(in) /\ RunEnd(in, i) \in i .. Len(in)
    BY <1>1, <1>3, <2>1
  <2> HIDE DEF i
  <2>3. /\ Span(in, i) = RunEnd(in, i) - i + 1
        /\ Position(in, row) = Position(in, i) + d
        /\ Position(in, i) \in Nat
    BY <2>2, RunOnAxis, RunPositions
  <2>4. d \in 0 .. ix.recs[k].time_count - 1
    <3>1. d \in 0 .. RunEnd(in, i) - i
      BY <1>4, <2>2
    <3>2. ix.recs[k].time_count = RunEnd(in, i) - i + 1
      BY <2>2, <2>3 DEF Record
    <3>3. RunEnd(in, i) \in Int /\ i \in Int
      BY <1>4, <2>2
    <3> QED BY <3>1, <3>2, <3>3
  <2>5. ix.recs[k].row_start + d = row - 1
    <3>1. ix.recs[k].row_start = i - 1
      BY <2>2 DEF Record
    <3> QED BY <1>4, <2>2, <3>1
  <2>6. ix.recs[k].sym = in[row].sym
    <3>1. ix.recs[k].sym = in[i].sym
      BY <2>2 DEF Record
    <3> QED BY <2>2, <3>1, RunAscends
  <2>7. /\ x \in K /\ AsU64(x) = x /\ K \in SUBSET Int /\ IsFiniteSet(K)
        /\ x \in 0 .. WAxis \div 2 - 1
    <3>1. row \in DOMAIN in
      BY InputParts
    <3> QED BY <3>1, KeysInOrder, KeysOfTimes, KeysFinite DEF InOrder
  <2>8. Position(in, row) = n
    BY <2>7 DEF Position, Below
  <2>9. n + 1 \in 1 .. Cardinality(K) /\ Ascending(K)[n + 1] = x
    BY <2>7, AscendingAt
  <2>10. DOMAIN Ascending(K) = 1 .. Cardinality(K)
    BY DEF Ascending
  <2>11. ix.axis[n + 1] = x % WAxis
    BY <1>5, <2>9, <2>10
  <2>12. x % WAxis = x
    <3> HIDE DEF x
    <3>1. x \in 0 .. WAxis - 1 /\ WAxis \in Nat
      BY <2>7, WidthAssumption
    <3> QED BY <3>1
  <2>13. TimeAt(ix, ix.recs[k].time_start + d) = x
    <3>1. ix.recs[k].time_start = Position(in, i)
      BY <2>2 DEF Record
    <3>2. ix.recs[k].time_start + d = n
      BY <2>3, <2>8, <3>1
    <3> QED BY <2>11, <2>12, <3>2 DEF TimeAt
  <2>14. At(ix, k, d, row, in)
    BY <2>5, <2>6, <2>13 DEF At
  <2> QED BY <2>4, <2>14
<1>9. Exact(ix, in)
  BY <1>2, <1>7, <1>8 DEF Exact
<1> QED BY <1>9 DEF ix

(* The empty index is exact for no rows.                                   *)
LEMMA EmptyExact == Exact(Empty, <<>>)
BY DEF Exact, Empty

(* read_index_handle: a row of such an index reads back as the input's.    *)
LEMMA RowIsRead ==
    ASSUME NEW ix, NEW in \in Seq(InputRow), Tiles(ix, in), Exact(ix, in), InOrder(in),
           NEW row \in 1 .. Len(in)
    PROVE  RowAt(ix, row - 1) = [sym |-> in[row].sym, time |-> in[row].time]
<1>1. PICK c \in DOMAIN ix.recs :
        \E d \in 0 .. ix.recs[c].time_count - 1 : At(ix, c, d, row, in)
  BY DEF Exact
<1>2. PICK d \in 0 .. ix.recs[c].time_count - 1 : At(ix, c, d, row, in)
  BY <1>1
<1>3. LocateRow(ix, row - 1) = [id |-> c, at |-> ix.recs[c].time_start + d]
  BY <1>2, LocateRowFinds DEF At
<1>4. RowAt(ix, row - 1) = [sym |-> in[row].sym, time |-> Signed(in[row].time)]
  BY <1>2, <1>3 DEF RowAt, At
<1>5. in[row].time \in 0 .. WAxis \div 2 - 1
  BY InputParts DEF InOrder
<1>6. Signed(in[row].time) = in[row].time
  BY <1>5, WidthAssumption DEF Signed
<1> QED BY <1>4, <1>6

----------------------------------------------------------------------------
(* locate_index_generic as a loop: one step for each pair.                 *)
Begin == [ok |-> TRUE, sym |-> 1, time |-> 0, last |-> None, found |-> <<>>]

(* What the fold is made of: a function on the sets of pairs still to do.  *)
Iterates(ix, pairs, f, S) ==
    f = [s \in SUBSET S |-> IF s = {} THEN Begin
                            ELSE LocateOne(ix, f[s \ {Max(s)}], pairs[Max(s)])]

(* What is located is the end of the fold over the pairs.                  *)
LEMMA LocatedIsFold ==
    ASSUME NEW ix, NEW pairs
    PROVE  LET end == (CHOOSE f : Iterates(ix, pairs, f, DOMAIN pairs))[DOMAIN pairs]
           IN  Located(ix, pairs) = IF end.ok THEN end.found ELSE None
<1> DEFINE end == FoldLeft(LAMBDA st, p : LocateOne(ix, st, p), Begin, pairs)
<1>1. end = (CHOOSE f : Iterates(ix, pairs, f, DOMAIN pairs))[DOMAIN pairs]
  BY Zenon DEF FoldLeft, MapThenFoldSet, Iterates
<1>2. Located(ix, pairs) = IF end.ok THEN end.found ELSE None
  BY DEF Located, Begin
<1> QED BY <1>1, <1>2, Zenon

(* The last of a prefix is its greatest.                                   *)
LEMMA MaxOfPrefix ==
    ASSUME NEW m \in Nat, NEW s \in SUBSET (1 .. m), m \in s
    PROVE  Max(s) = m
<1>1. \A y \in s : m >= y
  OBVIOUS
<1>2. \A x \in s : (\A y \in s : x >= y) => x = m
  BY <1>1
<1>3. (CHOOSE x \in s : \A y \in s : x >= y) = m
  BY <1>1, <1>2
<1> QED BY <1>3 DEF Max

(* There is such a function, however many pairs there are.                 *)
LEMMA IterationExists ==
    ASSUME NEW ix, NEW pairs, NEW n \in Nat
    PROVE  \E f : Iterates(ix, pairs, f, 1 .. n)
<1> DEFINE Bad == {m \in Nat : ~\E f : Iterates(ix, pairs, f, 1 .. m)}
<1>1. ASSUME Bad # {} PROVE FALSE
  <2>1. Bad \in SUBSET Nat
    OBVIOUS
  <2> HIDE DEF Bad
  <2>2. PICK m \in Bad : \A k \in Bad : m <= k
    BY <1>1, <2>1, LeastNatural
  <2>3. m \in Nat /\ ~\E f : Iterates(ix, pairs, f, 1 .. m)
    BY DEF Bad
  <2>4. CASE m = 0
    <3> DEFINE f == [s \in SUBSET {} |-> Begin]
    <3>1. 1 .. m = {}
      BY <2>4
    <3>2. f = [s \in SUBSET {} |->
                  IF s = {} THEN Begin ELSE LocateOne(ix, f[s \ {Max(s)}], pairs[Max(s)])]
      BY Zenon
    <3>3. Iterates(ix, pairs, f, 1 .. m)
      BY <3>1, <3>2 DEF Iterates
    <3> QED BY <2>3, <3>3
  <2>5. CASE m > 0
    <3>1. m - 1 \in Nat /\ m - 1 < m
      BY <2>3, <2>5
    <3>2. PICK f : Iterates(ix, pairs, f, 1 .. m - 1)
      BY <2>2, <2>3, <3>1 DEF Bad
    <3>3. \A s \in SUBSET (1 .. m - 1) :
            f[s] = IF s = {} THEN Begin
                   ELSE LocateOne(ix, f[s \ {Max(s)}], pairs[Max(s)])
      BY <3>2 DEF Iterates
    <3> DEFINE g == [s \in SUBSET (1 .. m) |->
                        IF m \in s THEN LocateOne(ix, f[s \ {m}], pairs[m]) ELSE f[s]]
    <3>4. \A s \in SUBSET (1 .. m) : m \notin s => g[s] = f[s] /\ s \in SUBSET (1 .. m - 1)
      BY <2>3
    <3>5. ASSUME NEW s \in SUBSET (1 .. m)
          PROVE  g[s] = IF s = {} THEN Begin
                        ELSE LocateOne(ix, g[s \ {Max(s)}], pairs[Max(s)])
      <4>1. s \ {Max(s)} \in SUBSET (1 .. m)
        OBVIOUS
      <4>2. CASE m \in s
        <5>1. Max(s) = m
          BY <2>3, <4>2, MaxOfPrefix
        <5>2. g[s] = LocateOne(ix, f[s \ {m}], pairs[m])
          BY <4>2
        <5>3. g[s \ {m}] = f[s \ {m}]
          BY <3>4
        <5> HIDE DEF g
        <5> QED BY <4>2, <5>1, <5>2, <5>3
      <4>3. CASE m \notin s
        <5>1. g[s] = f[s] /\ s \in SUBSET (1 .. m - 1)
          BY <3>4, <4>3
        <5>2. g[s \ {Max(s)}] = f[s \ {Max(s)}]
          BY <3>4, <4>1, <4>3
        <5> HIDE DEF g
        <5> QED BY <3>3, <5>1, <5>2
      <4> QED BY <4>2, <4>3
    <3>6. g = [s \in SUBSET (1 .. m) |-> g[s]]
      BY Zenon
    <3> HIDE DEF g
    <3>7. Iterates(ix, pairs, g, 1 .. m)
      BY <3>5, <3>6, Zenon DEF Iterates
    <3> QED BY <2>3, <3>7
  <2> QED BY <2>3, <2>4, <2>5
<1> QED BY <1>1

(* So locate_index_generic goes through states, one for each pair.         *)
LEMMA LocatedSteps ==
    ASSUME NEW ix, NEW pairs \in Seq(Pair)
    PROVE  \E st : /\ st[0] = Begin
                   /\ \A n \in 1 .. Len(pairs) : st[n] = LocateOne(ix, st[n - 1], pairs[n])
                   /\ Located(ix, pairs) = IF st[Len(pairs)].ok THEN st[Len(pairs)].found
                                           ELSE None
<1>1. Len(pairs) \in Nat /\ DOMAIN pairs = 1 .. Len(pairs)
  BY LenProperties
<1> DEFINE L == Len(pairs)
           it == CHOOSE f : Iterates(ix, pairs, f, 1 .. L)
           st == [n \in 0 .. L |-> it[1 .. n]]
<1>2. Iterates(ix, pairs, it, 1 .. L)
  BY <1>1, IterationExists
<1>3. \A s \in SUBSET (1 .. L) :
         it[s] = IF s = {} THEN Begin ELSE LocateOne(ix, it[s \ {Max(s)}], pairs[Max(s)])
  <2> HIDE DEF it
  <2> QED BY <1>2 DEF Iterates
<1>4. Located(ix, pairs) = IF it[1 .. L].ok THEN it[1 .. L].found ELSE None
  <2> DEFINE e(S) == (CHOOSE f : Iterates(ix, pairs, f, S))[S]
  <2>1. Located(ix, pairs) = IF e(DOMAIN pairs).ok THEN e(DOMAIN pairs).found ELSE None
    BY LocatedIsFold
  <2>2. e(DOMAIN pairs) = it[1 .. L]
    BY <1>1
  <2> HIDE DEF e
  <2> QED BY <2>1, <2>2
<1> HIDE DEF it, L
<1>5. L \in Nat
  BY <1>1 DEF L
<1>6. st[0] = Begin
  <2>1. 1 .. 0 = {} /\ {} \in SUBSET (1 .. L) /\ 0 \in 0 .. L
    BY <1>5
  <2> QED BY <1>3, <2>1
<1>7. ASSUME NEW n \in 1 .. L PROVE st[n] = LocateOne(ix, st[n - 1], pairs[n])
  <2>1. /\ n \in 0 .. L /\ n - 1 \in 0 .. L /\ n \in Nat /\ n \in 1 .. n
        /\ 1 .. n \in SUBSET (1 .. L) /\ (1 .. n) \ {n} = 1 .. n - 1
    BY <1>5
  <2>2. Max(1 .. n) = n
    BY <2>1, MaxOfPrefix
  <2>3. it[1 .. n] = LocateOne(ix, it[1 .. n - 1], pairs[n])
    BY <1>3, <2>1, <2>2
  <2> QED BY <2>1, <2>3
<1>8. Located(ix, pairs) = IF st[L].ok THEN st[L].found ELSE None
  <2>1. st[L] = it[1 .. L]
    BY <1>5
  <2> QED BY <1>4, <2>1
<1> QED BY <1>6, <1>7, <1>8 DEF L

----------------------------------------------------------------------------
(* The two cursors of locate_index_generic, and where a step leaves them.  *)
Fresh(st, p) == st.last = None \/ st.last.sym # p.sym
FirstOf(hits, to) == IF hits = {} THEN to + 1 ELSE CHOOSE j \in hits : \A k \in hits : j <= k
SymCursor(ix, st, p) ==
    IF Fresh(st, p)
    THEN FirstOf({j \in st.sym .. Len(ix.recs) : ix.recs[j].sym >= p.sym}, Len(ix.recs))
    ELSE st.sym
EndOf(rec) == rec.time_start + rec.time_count
TimeCursor(ix, st, p, rec) ==
    FirstOf({j \in (IF Fresh(st, p) THEN rec.time_start ELSE st.time) .. EndOf(rec) - 1 :
                TimeAt(ix, j) >= AsU64(p.time)}, EndOf(rec) - 1)

(* One step of it: the two cursors, and the row they meet at.              *)
LEMMA LocateOneIs ==
    ASSUME NEW ix, NEW st, NEW p
    PROVE  LET c == SymCursor(ix, st, p)
               t == TimeCursor(ix, st, p, ix.recs[c])
           IN  LocateOne(ix, st, p) =
                 IF /\ st.ok
                    /\ st.last # None => Ordered(st.last, p)
                    /\ c <= Len(ix.recs) /\ ix.recs[c].sym = p.sym
                    /\ t < EndOf(ix.recs[c])
                    /\ TimeAt(ix, t) = AsU64(p.time)
                 THEN [ok |-> TRUE, sym |-> c, time |-> t, last |-> p,
                       found |-> Append(st.found, ix.recs[c].row_start
                                                    + (t - ix.recs[c].time_start))]
                 ELSE [st EXCEPT !.ok = FALSE]
BY Zenon DEF LocateOne, NotLess, Fresh, FirstOf, SymCursor, TimeCursor, EndOf

(* A cursor stops inside its range or behind it.                           *)
LEMMA FirstIsInside ==
    ASSUME NEW from \in Nat, NEW to \in Int, NEW hits \in SUBSET (from .. to),
           FirstOf(hits, to) # to + 1
    PROVE  FirstOf(hits, to) \in from .. to
<1>1. hits # {}
  BY DEF FirstOf
<1>2. hits \in SUBSET Nat
  OBVIOUS
<1>3. PICK j \in hits : \A k \in hits : j <= k
  BY <1>1, <1>2, LeastNatural
<1>4. FirstOf(hits, to) \in hits
  BY <1>1, <1>3 DEF FirstOf
<1> QED BY <1>4

(* What the loop knows after n pairs, if it has refused none.              *)
Reached(ix, pairs, n, st) ==
    /\ "ok" \in DOMAIN st
    /\ st.ok \in BOOLEAN
    /\ st.ok =>
         /\ st.sym \in Nat /\ st.sym >= 1
         /\ st.found \in Seq(Nat) /\ Len(st.found) = n
         /\ \A i \in 1 .. n : /\ st.found[i] \in 0 .. RowCount(ix) - 1
                              /\ RowAt(ix, st.found[i]) = pairs[i]
         /\ \A i \in 1 .. n - 1 : Ordered(pairs[i], pairs[i + 1])
         /\ n = 0 => st.last = None
         /\ n > 0 => LET rec == ix.recs[st.sym]
                     IN  /\ st.last = pairs[n]
                         /\ st.sym \in DOMAIN ix.recs
                         /\ st.time \in rec.time_start .. EndOf(rec) - 1
                         /\ rec.sym = pairs[n].sym
                         /\ TimeAt(ix, st.time) = AsU64(pairs[n].time)

(* A step comes to a row of a record, the one its pair is the key of.       *)
ComesTo(ix, st, p) ==
  /\ st.last # None => Ordered(st.last, p)
  /\ \E c \in DOMAIN ix.recs :
      \E t \in ix.recs[c].time_start .. EndOf(ix.recs[c]) - 1 :
        LET row == ix.recs[c].row_start + (t - ix.recs[c].time_start)
        IN  /\ LocateOne(ix, st, p) = [ok |-> TRUE, sym |-> c, time |-> t, last |-> p,
                                       found |-> Append(st.found, row)]
            /\ row \in 0 .. RowCount(ix) - 1
            /\ RowAt(ix, row) = p
            /\ ix.recs[c].sym = p.sym /\ TimeAt(ix, t) = AsU64(p.time)

(* Where the cursors may be before a step.                                 *)
Ready(ix, st) ==
    /\ "ok" \in DOMAIN st /\ st.ok \in BOOLEAN
    /\ st.sym \in Nat /\ st.sym >= 1
    /\ st.last # None =>
          /\ st.sym \in DOMAIN ix.recs
          /\ st.time \in ix.recs[st.sym].time_start .. EndOf(ix.recs[st.sym]) - 1

(* A step of the loop that refuses nothing has come to the row of its pair.*)
LEMMA LocateOneReadsBack ==
    ASSUME NEW ix, NEW in \in Seq(InputRow), Tiles(ix, in),
           NEW p \in Pair, NEW st, Ready(ix, st), LocateOne(ix, st, p).ok = TRUE
    PROVE  ComesTo(ix, st, p)
<1> DEFINE c == SymCursor(ix, st, p)
           rec == ix.recs[c]
           t == TimeCursor(ix, st, p, rec)
           row == rec.row_start + (t - rec.time_start)
<1>1. /\ st.ok
      /\ st.last # None => Ordered(st.last, p)
      /\ c <= Len(ix.recs) /\ rec.sym = p.sym
      /\ t < EndOf(rec)
      /\ TimeAt(ix, t) = AsU64(p.time)
      /\ LocateOne(ix, st, p) = [ok |-> TRUE, sym |-> c, time |-> t, last |-> p,
                                 found |-> Append(st.found, row)]
  <2> DEFINE Good == /\ st.ok
                     /\ st.last # None => Ordered(st.last, p)
                     /\ c <= Len(ix.recs) /\ rec.sym = p.sym
                     /\ t < EndOf(rec)
                     /\ TimeAt(ix, t) = AsU64(p.time)
             new == [ok |-> TRUE, sym |-> c, time |-> t, last |-> p,
                     found |-> Append(st.found, row)]
  <2>1. LocateOne(ix, st, p) = IF Good THEN new ELSE [st EXCEPT !.ok = FALSE]
    BY LocateOneIs
  <2>2. [st EXCEPT !.ok = FALSE].ok = FALSE
    BY DEF Ready
  <2> HIDE DEF Good, new
  <2>3. Good
    BY <2>1, <2>2
  <2> QED BY <2>1, <2>3 DEF Good, new
<1>2. /\ ix.recs \in Seq(RowRecord) /\ Len(ix.recs) \in Nat
      /\ DOMAIN ix.recs = 1 .. Len(ix.recs)
      /\ ix.axis \in Seq(0 .. WAxis - 1) /\ Len(ix.axis) \in Nat
      /\ DOMAIN ix.axis = 1 .. Len(ix.axis)
  BY LenProperties DEF Tiles
<1>3. \A n \in DOMAIN ix.recs : /\ ix.recs[n].row_start \in Nat
                                /\ ix.recs[n].time_start \in Nat
                                /\ ix.recs[n].time_count \in Nat
                                /\ ix.recs[n].time_count > 0
                                /\ ix.recs[n].row_start + ix.recs[n].time_count <= Len(in)
                                /\ EndOf(ix.recs[n]) <= Len(ix.axis)
  <2>1. \A n \in DOMAIN ix.recs : ix.recs[n] \in RowRecord
    BY <1>2
  <2> QED BY <2>1 DEF RowRecord, Tiles, EndOf
<1>4. c \in DOMAIN ix.recs
  <2>1. CASE Fresh(st, p)
    <3> DEFINE hits == {j \in st.sym .. Len(ix.recs) : ix.recs[j].sym >= p.sym}
    <3>1. c = FirstOf(hits, Len(ix.recs))
      BY <2>1 DEF SymCursor
    <3>2. hits \in SUBSET (st.sym .. Len(ix.recs))
      OBVIOUS
    <3> HIDE DEF hits, c
    <3>3. c # Len(ix.recs) + 1
      BY <1>1, <1>2
    <3>4. c \in st.sym .. Len(ix.recs)
      BY <1>2, <3>1, <3>2, <3>3, FirstIsInside, SMTT(30) DEF Ready
    <3> QED BY <1>2, <3>4 DEF Ready
  <2>2. CASE ~Fresh(st, p)
    BY <2>2 DEF SymCursor, Fresh, Ready
  <2> QED BY <2>1, <2>2
<1>5. t \in rec.time_start .. EndOf(rec) - 1
  <2> DEFINE from == IF Fresh(st, p) THEN rec.time_start ELSE st.time
             hits == {j \in from .. EndOf(rec) - 1 : TimeAt(ix, j) >= AsU64(p.time)}
  <2>1. t = FirstOf(hits, EndOf(rec) - 1)
    BY DEF TimeCursor
  <2>2. hits \in SUBSET (from .. EndOf(rec) - 1)
    OBVIOUS
  <2>3. ~Fresh(st, p) => c = st.sym /\ st.time \in rec.time_start .. EndOf(rec) - 1
    BY DEF SymCursor, Fresh, Ready
  <2> HIDE DEF c
  <2>4. rec.time_start \in Nat /\ EndOf(rec) \in Int
    BY <1>3, <1>4 DEF EndOf
  <2>5. from \in Nat /\ rec.time_start <= from
    BY <2>3, <2>4
  <2> HIDE DEF hits, from, t, rec
  <2>6. t # (EndOf(rec) - 1) + 1
    BY <1>1, <2>4
  <2>7. t \in from .. EndOf(rec) - 1
    BY <2>1, <2>2, <2>4, <2>5, <2>6, FirstIsInside
  <2> QED BY <2>4, <2>5, <2>7
<1> HIDE DEF c, t
<1>6. /\ rec.row_start \in Nat /\ rec.time_start \in Nat /\ rec.time_count \in Nat
      /\ rec.row_start + rec.time_count <= Len(in)
      /\ EndOf(rec) = rec.time_start + rec.time_count
      /\ EndOf(rec) <= Len(ix.axis)
  BY <1>3, <1>4 DEF EndOf
<1> HIDE DEF rec, row
<1>7. /\ t \in Nat /\ t - rec.time_start \in 0 .. rec.time_count - 1
      /\ t + 1 \in DOMAIN ix.axis /\ rec.time_start + (t - rec.time_start) = t
  <2>1. t \in Int /\ rec.time_start <= t /\ t < rec.time_start + rec.time_count
    BY <1>5, <1>6
  <2>2. t \in Nat /\ t - rec.time_start \in 0 .. rec.time_count - 1
        /\ rec.time_start + (t - rec.time_start) = t
    BY <1>6, <2>1
  <2>3. t + 1 \in 1 .. Len(ix.axis)
    BY <1>2, <1>6, <2>1, <2>2, SMTT(30)
  <2> QED BY <1>2, <2>2, <2>3
<1>8. row \in 0 .. RowCount(ix) - 1
  <2>1. RowCount(ix) = Len(in) /\ Len(in) \in Nat
    BY InputParts DEF Tiles
  <2>2. row \in Nat /\ row < rec.row_start + rec.time_count
    <3> DEFINE d == t - rec.time_start
    <3>1. d \in 0 .. rec.time_count - 1 /\ row = rec.row_start + d
      BY <1>7 DEF row
    <3> HIDE DEF d
    <3> QED BY <1>6, <3>1, SMTT(30)
  <2> QED BY <1>6, <2>1, <2>2
<1>9. LocateRow(ix, row) = [id |-> c, at |-> t]
  <2>1. LocateRow(ix, row) = [id |-> c, at |-> rec.time_start + (t - rec.time_start)]
    BY <1>4, <1>7, LocateRowFinds DEF row, rec
  <2> QED BY <1>7, <2>1
<1>10. RowAt(ix, row) = [sym |-> p.sym, time |-> Signed(TimeAt(ix, t))]
  BY <1>1, <1>9 DEF RowAt, rec
<1>11. Signed(TimeAt(ix, t)) = p.time
  <2>1. PICK u \in Time : TimeAt(ix, t) = AsU64(u) % WAxis
    BY <1>7 DEF Tiles, TimeAt
  <2>2. p.time \in Time
    BY DEF Pair
  <2>3. AsU64(p.time) = AsU64(u) % WAxis
    BY <1>1, <2>1
  <2>4. Signed(AsU64(p.time)) = p.time
    BY <2>2, <2>3, SlotReadsBack
  <2> QED BY <1>1, <2>4
<1>12. p = [sym |-> p.sym, time |-> p.time]
  BY DEF Pair
<1>13. RowAt(ix, row) = p
  BY <1>10, <1>11, <1>12
<1> QED BY <1>1, <1>4, <1>5, <1>8, <1>13 DEF row, rec, ComesTo

----------------------------------------------------------------------------
(* A step keeps what the loop knows.                                       *)
LEMMA ReachedStep ==
    ASSUME NEW ix, NEW in \in Seq(InputRow), Tiles(ix, in),
           NEW pairs \in Seq(Pair), NEW n \in 1 .. Len(pairs), NEW st,
           Reached(ix, pairs, n - 1, st)
    PROVE  Reached(ix, pairs, n, LocateOne(ix, st, pairs[n]))
<1> DEFINE p == pairs[n]
           new == LocateOne(ix, st, p)
<1>1. p \in Pair /\ n - 1 \in Nat /\ n \in Nat /\ n > 0
  BY LenProperties
<1>2. "ok" \in DOMAIN st /\ st.ok \in BOOLEAN
  BY DEF Reached
<1>3. "ok" \in DOMAIN new /\ new.ok \in BOOLEAN /\ (new.ok => st.ok)
  <2> DEFINE c == SymCursor(ix, st, p)
             t == TimeCursor(ix, st, p, ix.recs[c])
             next == [ok |-> TRUE, sym |-> c, time |-> t, last |-> p,
                      found |-> Append(st.found, ix.recs[c].row_start
                                                    + (t - ix.recs[c].time_start))]
  <2>1. (new = next /\ st.ok) \/ new = [st EXCEPT !.ok = FALSE]
    BY LocateOneIs
  <2>2. "ok" \in DOMAIN next /\ next.ok = TRUE
    OBVIOUS
  <2>3. "ok" \in DOMAIN [st EXCEPT !.ok = FALSE] /\ [st EXCEPT !.ok = FALSE].ok = FALSE
    BY <1>2
  <2> HIDE DEF next, new
  <2> QED BY <2>1, <2>2, <2>3
<1>4. ASSUME new.ok PROVE Reached(ix, pairs, n, new)
  <2>1. /\ st.ok /\ st.sym \in Nat /\ st.sym >= 1
        /\ st.found \in Seq(Nat) /\ Len(st.found) = n - 1
        /\ \A i \in 1 .. n - 1 : /\ st.found[i] \in 0 .. RowCount(ix) - 1
                                 /\ RowAt(ix, st.found[i]) = pairs[i]
        /\ \A i \in 1 .. (n - 1) - 1 : Ordered(pairs[i], pairs[i + 1])
    BY <1>3, <1>4 DEF Reached
  <2>2. Ready(ix, st)
    <3>1. CASE n - 1 = 0
      BY <1>2, <2>1, <3>1 DEF Reached, Ready
    <3>2. CASE n - 1 > 0
      BY <1>2, <2>1, <3>2 DEF Reached, Ready
    <3> QED BY <1>1, <3>1, <3>2
  <2>3. new.ok = TRUE
    BY <1>3, <1>4
  <2> HIDE DEF p
  <2>4. ComesTo(ix, st, p)
    BY <1>1, <2>2, <2>3, LocateOneReadsBack
  <2> DEFINE Row(c, t) == ix.recs[c].row_start + (t - ix.recs[c].time_start)
             To(c, t) == /\ LocateOne(ix, st, p) = [ok |-> TRUE, sym |-> c, time |-> t, last |-> p,
                                                    found |-> Append(st.found, Row(c, t))]
                         /\ Row(c, t) \in 0 .. RowCount(ix) - 1
                         /\ RowAt(ix, Row(c, t)) = p
                         /\ ix.recs[c].sym = p.sym /\ TimeAt(ix, t) = AsU64(p.time)
  <2>5. \E c \in DOMAIN ix.recs :
          \E t \in ix.recs[c].time_start .. EndOf(ix.recs[c]) - 1 : To(c, t)
    BY <2>4, Zenon DEF ComesTo
  <2> HIDE DEF To, Row
  <2>6. PICK c \in DOMAIN ix.recs :
          \E t \in ix.recs[c].time_start .. EndOf(ix.recs[c]) - 1 : To(c, t)
    BY <2>5
  <2>7. PICK t \in ix.recs[c].time_start .. EndOf(ix.recs[c]) - 1 : To(c, t)
    BY <2>6
  <2> DEFINE row == Row(c, t)
  <2>8. /\ new = [ok |-> TRUE, sym |-> c, time |-> t, last |-> p,
                  found |-> Append(st.found, row)]
        /\ row \in 0 .. RowCount(ix) - 1 /\ RowAt(ix, row) = p
        /\ ix.recs[c].sym = p.sym /\ TimeAt(ix, t) = AsU64(p.time)
    BY <2>7 DEF To
  <2> HIDE DEF row, new
  <2>9. row \in Nat
    <3>1. RowCount(ix) = Len(in) /\ Len(in) \in Nat
      BY InputParts DEF Tiles
    <3> QED BY <2>8, <3>1
  <2>10. /\ new.found \in Seq(Nat) /\ Len(new.found) = n
         /\ new.found[n] = row
         /\ \A i \in 1 .. n - 1 : new.found[i] = st.found[i]
    BY <1>1, <2>1, <2>8, <2>9, AppendProperties
  <2>11. \A i \in 1 .. n : /\ new.found[i] \in 0 .. RowCount(ix) - 1
                           /\ RowAt(ix, new.found[i]) = pairs[i]
    <3> SUFFICES ASSUME NEW i \in 1 .. n
                 PROVE  /\ new.found[i] \in 0 .. RowCount(ix) - 1
                        /\ RowAt(ix, new.found[i]) = pairs[i]
      OBVIOUS
    <3>1. CASE i = n
      BY <2>8, <2>10, <3>1 DEF p
    <3>2. CASE i # n
      <4>1. i \in 1 .. n - 1
        BY <1>1, <3>2
      <4> QED BY <2>1, <2>10, <4>1
    <3> QED BY <3>1, <3>2
  <2>12. new.sym \in Nat /\ new.sym >= 1 /\ new.sym \in DOMAIN ix.recs
    <3>1. DOMAIN ix.recs = 1 .. Len(ix.recs) /\ Len(ix.recs) \in Nat
      BY LenProperties DEF Tiles
    <3> QED BY <2>8, <3>1
  <2>13. /\ new.last = pairs[n]
         /\ new.time \in ix.recs[new.sym].time_start .. EndOf(ix.recs[new.sym]) - 1
         /\ ix.recs[new.sym].sym = pairs[n].sym
         /\ TimeAt(ix, new.time) = AsU64(pairs[n].time)
    <3>1. new.last = p /\ new.sym = c /\ new.time = t
      BY <2>8
    <3> QED BY <2>7, <2>8, <3>1 DEF p
  <2>14. \A i \in 1 .. n - 1 : Ordered(pairs[i], pairs[i + 1])
    <3> SUFFICES ASSUME NEW i \in 1 .. n - 1 PROVE Ordered(pairs[i], pairs[i + 1])
      OBVIOUS
    <3>1. CASE i = n - 1
      <4>1. n - 1 > 0 /\ i + 1 = n
        BY <1>1, <3>1
      <4>2. st.last = pairs[i] /\ st.last # None
        <5>1. st.last = pairs[n - 1]
          BY <2>1, <4>1 DEF Reached
        <5>2. n - 1 \in DOMAIN pairs
          BY <1>1, <4>1, LenProperties
        <5>3. pairs[n - 1] \in Pair
          BY <5>2, LenProperties
        <5> QED BY <3>1, <5>1, <5>3, NoneAssumption
      <4>3. Ordered(st.last, p)
        BY <2>4, <4>2, Zenon DEF ComesTo
      <4> QED BY <4>1, <4>2, <4>3 DEF p
    <3>2. CASE i # n - 1
      <4>1. i \in 1 .. (n - 1) - 1
        BY <1>1, <3>2
      <4> QED BY <2>1, <4>1
    <3> QED BY <3>1, <3>2
  <2> QED BY <1>1, <1>3, <2>10, <2>11, <2>12, <2>13, <2>14 DEF Reached
<1>5. ASSUME ~new.ok PROVE Reached(ix, pairs, n, new)
  BY <1>3, <1>5 DEF Reached
<1> QED BY <1>4, <1>5

(* locate_index_generic: the states of the loop.                           *)
LEMMA LocatedReaches ==
    ASSUME NEW ix, NEW in \in Seq(InputRow), Tiles(ix, in), NEW pairs \in Seq(Pair)
    PROVE  \E st : /\ st[0] = Begin
                   /\ \A n \in 1 .. Len(pairs) : st[n] = LocateOne(ix, st[n - 1], pairs[n])
                   /\ \A n \in 0 .. Len(pairs) : Reached(ix, pairs, n, st[n])
                   /\ Located(ix, pairs) = IF st[Len(pairs)].ok THEN st[Len(pairs)].found
                                           ELSE None
<1>1. Len(pairs) \in Nat /\ DOMAIN pairs = 1 .. Len(pairs)
  BY LenProperties
<1>2. PICK st : /\ st[0] = Begin
                /\ \A n \in 1 .. Len(pairs) : st[n] = LocateOne(ix, st[n - 1], pairs[n])
                /\ Located(ix, pairs) = IF st[Len(pairs)].ok THEN st[Len(pairs)].found
                                        ELSE None
  BY LocatedSteps
<1> DEFINE Bad == {n \in 0 .. Len(pairs) : ~Reached(ix, pairs, n, st[n])}
<1>3. Bad = {}
  <2> SUFFICES ASSUME Bad # {} PROVE FALSE
    OBVIOUS
  <2>1. Bad \in SUBSET Nat
    BY <1>1
  <2> HIDE DEF Bad
  <2>2. PICK n \in Bad : \A m \in Bad : n <= m
    BY <2>1, LeastNatural
  <2>3. n \in 0 .. Len(pairs) /\ ~Reached(ix, pairs, n, st[n])
    BY DEF Bad
  <2>4. CASE n = 0
    <3>1. Reached(ix, pairs, 0, Begin)
      <4>1. <<>> \in Seq(Nat) /\ Len(<<>>) = 0 /\ 1 .. 0 = {} /\ 1 .. 0 - 1 = {}
        BY EmptySeq
      <4> QED BY <4>1 DEF Reached, Begin
    <3> QED BY <1>2, <2>3, <2>4, <3>1
  <2>5. CASE n # 0
    <3>1. n \in 1 .. Len(pairs) /\ n - 1 \in 0 .. Len(pairs) /\ n - 1 < n
      BY <1>1, <2>3, <2>5
    <3>2. Reached(ix, pairs, n - 1, st[n - 1])
      BY <2>2, <3>1 DEF Bad
    <3>3. st[n] = LocateOne(ix, st[n - 1], pairs[n])
      BY <1>2, <3>1
    <3> QED BY <2>3, <3>1, <3>2, <3>3, ReachedStep
  <2> QED BY <2>4, <2>5
<1>4. \A n \in 0 .. Len(pairs) : Reached(ix, pairs, n, st[n])
  BY <1>3
<1> QED BY <1>2, <1>4

(* Whatever input was accepted, a row that is located is that of its key.  *)
LEMMA LocatedReadsBack ==
    ASSUME NEW ix, NEW in \in Seq(InputRow), Tiles(ix, in),
           NEW pairs \in Seq(Pair), Located(ix, pairs) # None,
           NEW i \in DOMAIN pairs
    PROVE  /\ Located(ix, pairs)[i] \in 0 .. RowCount(ix) - 1
           /\ RowAt(ix, Located(ix, pairs)[i]) = pairs[i]
<1>1. Len(pairs) \in Nat /\ DOMAIN pairs = 1 .. Len(pairs)
  BY LenProperties
<1>2. PICK st : /\ \A n \in 0 .. Len(pairs) : Reached(ix, pairs, n, st[n])
                /\ Located(ix, pairs) = IF st[Len(pairs)].ok THEN st[Len(pairs)].found
                                        ELSE None
  BY LocatedReaches
<1>3. Reached(ix, pairs, Len(pairs), st[Len(pairs)])
  BY <1>1, <1>2
<1>4. st[Len(pairs)].ok /\ Located(ix, pairs) = st[Len(pairs)].found
  BY <1>2
<1> QED BY <1>1, <1>3, <1>4 DEF Reached

----------------------------------------------------------------------------
(* Keys in order that are all there are all found.                         *)

(* The first hit is the least one.                                         *)
LEMMA FirstIs ==
    ASSUME NEW to, NEW hits \in SUBSET Nat, NEW x \in hits, \A k \in hits : x <= k
    PROVE  FirstOf(hits, to) = x
<1> DEFINE y == CHOOSE j \in hits : \A k \in hits : j <= k
<1>1. y \in hits /\ \A k \in hits : y <= k
  OBVIOUS
<1>2. FirstOf(hits, to) = y
  BY DEF FirstOf
<1> HIDE DEF y
<1>3. x <= y /\ y <= x /\ x \in Nat /\ y \in Nat
  BY <1>1
<1> QED BY <1>2, <1>3

(* The last key the loop has found, if it is in order before the next.     *)
Behind(ix, st, p) ==
    IF st.last = None THEN st.sym = 1
    ELSE /\ Ordered(st.last, p) /\ st.last \in Pair
         /\ st.last.sym \in Nat /\ st.last.time \in 0 .. WAxis \div 2 - 1
         /\ ix.recs[st.sym].sym = st.last.sym
         /\ TimeAt(ix, st.time) = AsU64(st.last.time)

(* A step finds a key of the input that is behind the last one.            *)
LEMMA LocateOneFinds ==
    ASSUME NEW ix, NEW in \in Seq(InputRow), Tiles(ix, in), Exact(ix, in), InOrder(in),
           NEW p \in Pair, NEW row \in 1 .. Len(in),
           in[row].sym = p.sym, in[row].time = p.time,
           NEW st, Ready(ix, st), st.ok, Behind(ix, st, p)
    PROVE  LocateOne(ix, st, p).ok = TRUE
<1>1. /\ ix.recs \in Seq(RowRecord) /\ Len(ix.recs) \in Nat
      /\ DOMAIN ix.recs = 1 .. Len(ix.recs)
      /\ ix.axis \in Seq(0 .. WAxis - 1) /\ Len(ix.axis) \in Nat
      /\ DOMAIN ix.axis = 1 .. Len(ix.axis)
  BY LenProperties DEF Tiles
<1>2. PICK c \in DOMAIN ix.recs :
        \E d \in 0 .. ix.recs[c].time_count - 1 : At(ix, c, d, row, in)
  BY DEF Exact
<1>3. PICK d \in 0 .. ix.recs[c].time_count - 1 : At(ix, c, d, row, in)
  BY <1>2
<1> DEFINE rec == ix.recs[c]
           t == rec.time_start + d
<1>4. \A n \in DOMAIN ix.recs : /\ ix.recs[n].sym \in Nat
                                /\ ix.recs[n].time_start \in Nat
                                /\ ix.recs[n].time_count \in Nat
                                /\ EndOf(ix.recs[n]) = ix.recs[n].time_start + ix.recs[n].time_count
                                /\ EndOf(ix.recs[n]) <= Len(ix.axis)
  <2>1. \A n \in DOMAIN ix.recs : ix.recs[n] \in RowRecord
    BY <1>1
  <2> QED BY <2>1 DEF RowRecord, Tiles, EndOf
<1>5. p.sym \in Nat /\ p.time \in 0 .. WAxis \div 2 - 1 /\ AsU64(p.time) = p.time
  <2>1. row \in DOMAIN in
    BY InputParts
  <2> QED BY <2>1, KeysInOrder, InputParts DEF InOrder
<1>6. /\ rec.sym = p.sym /\ TimeAt(ix, t) = AsU64(p.time)
      /\ t \in Nat /\ rec.time_start <= t /\ t <= EndOf(rec) - 1
      /\ t + 1 \in 1 .. Len(ix.axis)
      /\ rec.time_start \in Nat /\ EndOf(rec) \in Nat
  <2>1. rec.sym = p.sym /\ TimeAt(ix, t) = AsU64(p.time)
    BY <1>3, <1>5 DEF At
  <2>2. /\ rec.time_start \in Nat /\ rec.time_count \in Nat
        /\ EndOf(rec) = rec.time_start + rec.time_count /\ EndOf(rec) <= Len(ix.axis)
    BY <1>4
  <2> HIDE DEF rec
  <2>3. d \in 0 .. rec.time_count - 1
    BY <1>3 DEF rec
  <2>4. d \in Nat /\ d < rec.time_count
    BY <2>2, <2>3
  <2>5. t = rec.time_start + d
    OBVIOUS
  <2> HIDE DEF t
  <2>6. t \in Nat /\ rec.time_start <= t /\ t < EndOf(rec)
    BY <2>2, <2>4, <2>5, SMTT(30)
  <2> QED BY <1>1, <2>1, <2>2, <2>6, SMTT(30)
<1>7. \A k, l \in DOMAIN ix.recs : k < l => ix.recs[k].sym < ix.recs[l].sym
  BY DEF Exact
<1>8. \A k \in DOMAIN ix.recs : ix.recs[k].sym >= rec.sym => c <= k
  <2> SUFFICES ASSUME NEW k \in DOMAIN ix.recs, ix.recs[k].sym >= rec.sym, ~(c <= k)
               PROVE  FALSE
    OBVIOUS
  <2>1. k < c
    BY <1>1
  <2> QED BY <1>4, <1>7, <2>1
<1>9. \A k, l \in 0 .. Len(ix.axis) - 1 : TimeAt(ix, k) >= TimeAt(ix, l) => l <= k
  <2> SUFFICES ASSUME NEW k \in 0 .. Len(ix.axis) - 1, NEW l \in 0 .. Len(ix.axis) - 1,
                      TimeAt(ix, k) >= TimeAt(ix, l), ~(l <= k)
               PROVE  FALSE
    OBVIOUS
  <2>1. k + 1 \in DOMAIN ix.axis /\ l + 1 \in DOMAIN ix.axis /\ k + 1 < l + 1
    BY <1>1
  <2>2. ix.axis[k + 1] < ix.axis[l + 1]
    BY <2>1 DEF Tiles
  <2>3. ix.axis[k + 1] \in Int /\ ix.axis[l + 1] \in Int
    <3>1. \A n \in DOMAIN ix.axis : ix.axis[n] \in 0 .. WAxis - 1
      BY <1>1, ElementOfSeq
    <3>2. 0 .. WAxis - 1 \subseteq Int
      BY WidthAssumption
    <3> QED BY <2>1, <3>1, <3>2
  <2> QED BY <2>2, <2>3 DEF TimeAt
<1>10. c \in Nat /\ c <= Len(ix.recs)
  BY <1>1
<1>11. st.last = None \/ st.last.sym <= p.sym
  BY <1>5 DEF Behind, Ordered
<1> HIDE DEF rec
<1>12. SymCursor(ix, st, p) = c
  <2>1. CASE Fresh(st, p)
    <3> DEFINE hits == {j \in st.sym .. Len(ix.recs) : ix.recs[j].sym >= p.sym}
    <3>1. st.sym \in Nat /\ st.sym >= 1
      BY DEF Ready
    <3>2. st.sym <= c
      <4>1. CASE st.last = None
        BY <1>1, <4>1 DEF Behind
      <4>2. CASE st.last # None
        <5>1. st.sym \in DOMAIN ix.recs /\ ix.recs[st.sym].sym = st.last.sym
          BY <4>2 DEF Ready, Behind
        <5>2. st.last.sym # p.sym /\ st.last.sym \in Nat
          BY <2>1, <4>2 DEF Fresh, Behind
        <5>3. ix.recs[st.sym].sym < ix.recs[c].sym
          <6>1. st.last.sym < p.sym
            BY <1>5, <1>11, <4>2, <5>2
          <6>2. ix.recs[c].sym = p.sym
            BY <1>6 DEF rec
          <6> QED BY <5>1, <6>1, <6>2
        <5>4. ~(c < st.sym)
          BY <1>4, <1>7, <5>1, <5>3
        <5> QED BY <1>10, <3>1, <5>4
      <4> QED BY <4>1, <4>2
    <3>3. hits \in SUBSET Nat
      BY <3>1
    <3>4. c \in hits
      <4>1. c \in st.sym .. Len(ix.recs)
        BY <1>10, <3>1, <3>2
      <4>2. ix.recs[c].sym = p.sym
        BY <1>6 DEF rec
      <4> QED BY <1>5, <4>1, <4>2
    <3>5. \A k \in hits : c <= k
      <4>1. \A k \in hits : k \in DOMAIN ix.recs /\ ix.recs[k].sym >= rec.sym
        <5> SUFFICES ASSUME NEW k \in hits
                     PROVE  k \in DOMAIN ix.recs /\ ix.recs[k].sym >= rec.sym
          OBVIOUS
        <5>1. k \in st.sym .. Len(ix.recs) /\ ix.recs[k].sym >= p.sym
          OBVIOUS
        <5>2. k \in DOMAIN ix.recs
          BY <1>1, <3>1, <5>1
        <5>3. rec.sym = p.sym
          BY <1>6
        <5> QED BY <5>1, <5>2, <5>3
      <4> QED BY <1>8, <4>1
    <3> HIDE DEF hits
    <3>6. FirstOf(hits, Len(ix.recs)) = c
      BY <3>3, <3>4, <3>5, FirstIs
    <3> QED BY <2>1, <3>6 DEF SymCursor, hits
  <2>2. CASE ~Fresh(st, p)
    <3>1. st.last # None /\ st.last.sym = p.sym
      BY <2>2 DEF Fresh
    <3>2. st.sym \in DOMAIN ix.recs /\ ix.recs[st.sym].sym = p.sym
      BY <3>1 DEF Ready, Behind
    <3>3. ~(st.sym < c) /\ ~(c < st.sym)
      <4>1. ix.recs[st.sym].sym = ix.recs[c].sym /\ ix.recs[c].sym \in Nat
        BY <1>5, <1>6, <3>2 DEF rec
      <4>2. ~(ix.recs[st.sym].sym < ix.recs[c].sym) /\ ~(ix.recs[c].sym < ix.recs[st.sym].sym)
        BY <4>1
      <4> QED BY <1>4, <1>7, <3>2, <4>2
    <3>4. st.sym = c
      BY <1>10, <3>3 DEF Ready
    <3> QED BY <2>2, <3>4 DEF SymCursor
  <2> QED BY <2>1, <2>2
<1> HIDE DEF t
<1>13. TimeCursor(ix, st, p, rec) = t
  <2> DEFINE from == IF Fresh(st, p) THEN rec.time_start ELSE st.time
             hits == {j \in from .. EndOf(rec) - 1 : TimeAt(ix, j) >= AsU64(p.time)}
  <2>1. from \in Nat /\ from <= t
    <3>1. CASE Fresh(st, p)
      BY <1>6, <3>1
    <3>2. CASE ~Fresh(st, p)
      <4>1. st.last # None /\ st.last.sym = p.sym /\ st.sym = c
        BY <1>12, <3>2 DEF Fresh, SymCursor
      <4>2. st.time \in rec.time_start .. EndOf(rec) - 1
        BY <4>1 DEF Ready, rec
      <4>3. st.time \in 0 .. Len(ix.axis) - 1 /\ t \in 0 .. Len(ix.axis) - 1
        <5>1. EndOf(rec) <= Len(ix.axis)
          BY <1>4 DEF rec
        <5> DEFINE a == rec.time_start
                   b == EndOf(rec)
                   m == Len(ix.axis)
                   u == st.time
        <5>2. a \in Nat /\ b \in Nat /\ m \in Nat /\ b <= m
          BY <1>1, <1>6, <5>1
        <5>3. u \in a .. b - 1 /\ t \in Nat /\ t <= b - 1
          BY <1>6, <4>2
        <5> HIDE DEF a, b, m, t, u
        <5>4. u \in 0 .. m - 1 /\ t \in 0 .. m - 1
          BY <5>2, <5>3
        <5> QED BY <5>4 DEF m, u
      <4>4. /\ st.last.time < p.time /\ st.last.time \in 0 .. WAxis \div 2 - 1
            /\ TimeAt(ix, st.time) = AsU64(st.last.time)
        BY <1>5, <4>1 DEF Behind, Ordered
      <4>5. AsU64(st.last.time) = st.last.time
        <5>1. st.last.time \in Time /\ st.last.time >= 0
          BY <4>4, WidthAssumption DEF Time
        <5> QED BY <5>1, SlotOfTime
      <4>6. TimeAt(ix, t) >= TimeAt(ix, st.time)
        BY <1>5, <1>6, <4>4, <4>5, WidthAssumption, SMTT(30)
      <4> QED BY <1>9, <3>2, <4>3, <4>6
    <3> QED BY <3>1, <3>2
  <2>2. hits \in SUBSET Nat
    BY <2>1
  <2>3. t \in hits
    BY <1>5, <1>6, <2>1
  <2>4. \A k \in hits : t <= k
    <3> SUFFICES ASSUME NEW k \in hits PROVE t <= k
      OBVIOUS
    <3>1. EndOf(rec) <= Len(ix.axis)
      BY <1>4 DEF rec
    <3>2. k \in 0 .. Len(ix.axis) - 1 /\ t \in 0 .. Len(ix.axis) - 1
      BY <1>1, <1>6, <2>1, <3>1, SMTT(30)
    <3>3. TimeAt(ix, k) >= TimeAt(ix, t)
      BY <1>6
    <3> QED BY <1>9, <3>2, <3>3
  <2> HIDE DEF hits, from
  <2>5. FirstOf(hits, EndOf(rec) - 1) = t
    BY <2>2, <2>3, <2>4, FirstIs
  <2> QED BY <2>5 DEF TimeCursor, hits, from
<1>14. st.last # None => Ordered(st.last, p)
  BY DEF Behind
<1>15. t < EndOf(rec)
  BY <1>6
<1> DEFINE new == [ok |-> TRUE, sym |-> c, time |-> t, last |-> p,
                   found |-> Append(st.found, rec.row_start + (t - rec.time_start))]
           Good == /\ st.ok
                   /\ st.last # None => Ordered(st.last, p)
                   /\ c <= Len(ix.recs) /\ rec.sym = p.sym
                   /\ t < EndOf(rec)
                   /\ TimeAt(ix, t) = AsU64(p.time)
<1>16. LocateOne(ix, st, p) = IF Good THEN new ELSE [st EXCEPT !.ok = FALSE]
  BY <1>12, <1>13, LocateOneIs DEF rec
<1>17. Good
  BY <1>6, <1>10, <1>14, <1>15
<1> HIDE DEF Good
<1> QED BY <1>16, <1>17

(* What locate_index_generic is asked for in a whole: keys in order, all   *)
(* of them there.                                                          *)
AllThere(in, pairs) ==
    /\ StrictlyOrdered(pairs)
    /\ \A i \in DOMAIN pairs :
         \E row \in DOMAIN in : in[row].sym = pairs[i].sym /\ in[row].time = pairs[i].time

(* Pairs that are all there are all located, one row each.                 *)
LEMMA LocatedFinds ==
    ASSUME NEW ix, NEW in \in Seq(InputRow), Tiles(ix, in), Exact(ix, in), InOrder(in),
           NEW pairs \in Seq(Pair), AllThere(in, pairs)
    PROVE  /\ Located(ix, pairs) \in Seq(Nat)
           /\ Len(Located(ix, pairs)) = Len(pairs)
<1>1. Len(pairs) \in Nat /\ DOMAIN pairs = 1 .. Len(pairs)
  BY LenProperties
<1>2. PICK st : /\ st[0] = Begin
                /\ \A n \in 1 .. Len(pairs) : st[n] = LocateOne(ix, st[n - 1], pairs[n])
                /\ \A n \in 0 .. Len(pairs) : Reached(ix, pairs, n, st[n])
                /\ Located(ix, pairs) = IF st[Len(pairs)].ok THEN st[Len(pairs)].found
                                        ELSE None
  BY LocatedReaches
<1>3. ASSUME NEW n \in 1 .. Len(pairs), st[n - 1].ok PROVE st[n].ok
  <2> DEFINE s == st[n - 1]
             p == pairs[n]
  <2>1. p \in Pair /\ n - 1 \in 0 .. Len(pairs) /\ n \in Nat /\ n - 1 \in Nat
    BY <1>1
  <2>2. Reached(ix, pairs, n - 1, s)
    BY <1>2, <2>1
  <2>3. PICK row \in 1 .. Len(in) : in[row].sym = p.sym /\ in[row].time = p.time
    BY <1>1, InputParts DEF AllThere
  <2>4. s.ok /\ Ready(ix, s)
    <3>1. CASE n - 1 = 0
      BY <1>3, <2>2, <3>1 DEF Reached, Ready
    <3>2. CASE n - 1 > 0
      BY <1>3, <2>2, <3>2 DEF Reached, Ready
    <3> QED BY <1>3, <2>1, <3>1, <3>2
  <2>5. Behind(ix, s, p)
    <3>1. CASE n - 1 = 0
      <4>1. s = Begin
        BY <1>2, <3>1
      <4> QED BY <4>1 DEF Begin, Behind
    <3>2. CASE n - 1 > 0
      <4> DEFINE l == pairs[n - 1]
      <4>1. /\ s.last = l /\ ix.recs[s.sym].sym = l.sym
            /\ TimeAt(ix, s.time) = AsU64(l.time)
        BY <1>3, <2>2, <3>2 DEF Reached
      <4>2. n - 1 \in 1 .. Len(pairs) /\ n - 1 \in 1 .. Len(pairs) - 1 /\ (n - 1) + 1 = n
        BY <1>1, <2>1, <3>2
      <4>3. l \in Pair /\ l # None
        <5>1. l \in Pair
          BY <1>1, <4>2
        <5> QED BY <5>1, NoneAssumption
      <4>4. Ordered(l, p)
        BY <4>2 DEF AllThere, StrictlyOrdered
      <4>5. l.sym \in Nat /\ l.time \in 0 .. WAxis \div 2 - 1
        <5>1. PICK r \in 1 .. Len(in) : in[r].sym = l.sym /\ in[r].time = l.time
          BY <1>1, <4>2, InputParts DEF AllThere
        <5>2. r \in DOMAIN in
          BY InputParts
        <5> QED BY <5>1, <5>2, InputParts DEF InOrder
      <4> HIDE DEF l
      <4> QED BY <4>1, <4>3, <4>4, <4>5 DEF Behind
    <3> QED BY <2>1, <3>1, <3>2
  <2> HIDE DEF s, p
  <2>6. LocateOne(ix, s, p).ok = TRUE
    BY <2>1, <2>3, <2>4, <2>5, LocateOneFinds
  <2> QED BY <1>2, <2>6 DEF s, p
<1> DEFINE Bad == {n \in 0 .. Len(pairs) : ~st[n].ok}
<1>4. Bad = {}
  <2> SUFFICES ASSUME Bad # {} PROVE FALSE
    OBVIOUS
  <2>1. Bad \in SUBSET Nat
    BY <1>1
  <2> HIDE DEF Bad
  <2>2. PICK n \in Bad : \A m \in Bad : n <= m
    BY <2>1, LeastNatural
  <2>3. n \in 0 .. Len(pairs) /\ ~st[n].ok
    BY DEF Bad
  <2>4. n # 0
    BY <1>2, <2>3 DEF Begin
  <2>5. n \in 1 .. Len(pairs) /\ n - 1 \in 0 .. Len(pairs) /\ n - 1 < n
    BY <1>1, <2>3, <2>4
  <2>6. st[n - 1].ok
    <3>1. n - 1 \notin Bad
      BY <1>1, <2>2, <2>5
    <3> QED BY <2>5, <3>1 DEF Bad
  <2> QED BY <1>3, <2>3, <2>5, <2>6
<1>5. Len(pairs) \in 0 .. Len(pairs)
  BY <1>1
<1>6. st[Len(pairs)].ok /\ Reached(ix, pairs, Len(pairs), st[Len(pairs)])
  BY <1>2, <1>4, <1>5
<1>7. Located(ix, pairs) = st[Len(pairs)].found
  BY <1>2, <1>6
<1> QED BY <1>6, <1>7 DEF Reached

(* Conversely, what is located is in order, all there, and each row that   *)
(* of its key.                                                             *)
LEMMA LocatedIsThere ==
    ASSUME NEW ix, NEW in \in Seq(InputRow), Tiles(ix, in), Exact(ix, in), InOrder(in),
           NEW pairs \in Seq(Pair), Located(ix, pairs) # None
    PROVE  /\ StrictlyOrdered(pairs)
           /\ \A i \in DOMAIN pairs :
                LET row == Located(ix, pairs)[i] + 1
                IN  row \in DOMAIN in /\ in[row].sym = pairs[i].sym
                                      /\ in[row].time = pairs[i].time
<1>1. Len(pairs) \in Nat /\ DOMAIN pairs = 1 .. Len(pairs)
  BY LenProperties
<1>2. StrictlyOrdered(pairs)
  <2>1. PICK st : /\ \A n \in 0 .. Len(pairs) : Reached(ix, pairs, n, st[n])
                  /\ Located(ix, pairs) = IF st[Len(pairs)].ok THEN st[Len(pairs)].found
                                          ELSE None
    BY LocatedReaches
  <2>2. st[Len(pairs)].ok /\ Reached(ix, pairs, Len(pairs), st[Len(pairs)])
    BY <1>1, <2>1
  <2> QED BY <2>2 DEF Reached, StrictlyOrdered
<1>3. ASSUME NEW i \in DOMAIN pairs
      PROVE  LET row == Located(ix, pairs)[i] + 1
             IN  row \in DOMAIN in /\ in[row].sym = pairs[i].sym /\ in[row].time = pairs[i].time
  <2> DEFINE r == Located(ix, pairs)[i]
             row == r + 1
  <2>1. r \in 0 .. RowCount(ix) - 1 /\ RowAt(ix, r) = pairs[i]
    BY LocatedReadsBack
  <2> HIDE DEF r
  <2>2. RowCount(ix) = Len(in) /\ Len(in) \in Nat /\ DOMAIN in = 1 .. Len(in)
    BY InputParts DEF Tiles
  <2>3. row \in 1 .. Len(in) /\ row - 1 = r
    BY <2>1, <2>2
  <2>4. RowAt(ix, row - 1) = [sym |-> in[row].sym, time |-> in[row].time]
    BY <2>3, RowIsRead
  <2>5. pairs[i] = [sym |-> in[row].sym, time |-> in[row].time]
    BY <2>1, <2>3, <2>4
  <2>6. row \in DOMAIN in /\ in[row].sym = pairs[i].sym /\ in[row].time = pairs[i].time
    BY <2>2, <2>3, <2>5
  <2> QED BY <2>6 DEF r
<1> QED BY <1>2, <1>3

----------------------------------------------------------------------------
(* Scans: the syms a predicate lets through, as compile_node finds them.  *)

(* sym_id_of: the binary search, as a function on the stretches [lo, hi).  *)
Searches(ix, name, f) ==
    f = [w \in (0 .. Len(ix.recs)) \X (0 .. Len(ix.recs)) |->
            LET lo  == w[1]
                hi  == w[2]
                mid == lo + (hi - lo) \div 2
                s   == ix.recs[mid + 1].sym
            IN  IF lo >= hi THEN 0
                ELSE IF s < name THEN f[<<mid + 1, hi>>]
                ELSE IF s > name THEN f[<<lo, mid>>]
                ELSE mid + 1]

(* The id of a sym is where the binary search ends.                        *)
LEMMA SymIdIsSearch ==
    ASSUME NEW ix, NEW name
    PROVE  SymIdOf(ix, name) = (CHOOSE f : Searches(ix, name, f))[<<0, Len(ix.recs)>>]
BY Zenon DEF SymIdOf, Searches

(* The record of a name, 1 more than its id, in a stretch of the records.  *)
InStretch(ix, name, lo, hi, id) ==
    \/ id = 0 /\ \A k \in lo + 1 .. hi : ix.recs[k].sym # name
    \/ id \in lo + 1 .. hi /\ ix.recs[id].sym = name

SymsAscend(ix) ==
    /\ ix.recs \in Seq(RowRecord)
    /\ \A k, l \in DOMAIN ix.recs : k < l => ix.recs[k].sym < ix.recs[l].sym

(* What the parts of the records are.                                      *)
LEMMA RecordParts ==
    ASSUME NEW ix, ix.recs \in Seq(RowRecord)
    PROVE  /\ Len(ix.recs) \in Nat /\ DOMAIN ix.recs = 1 .. Len(ix.recs)
           /\ \A k \in 1 .. Len(ix.recs) :
                /\ ix.recs[k].sym \in Nat /\ ix.recs[k].row_start \in Nat
                /\ ix.recs[k].time_start \in Nat /\ ix.recs[k].time_count \in Nat
<1>1. \A k \in 1 .. Len(ix.recs) : ix.recs[k] \in RowRecord
  OBVIOUS
<1>2. \A r \in RowRecord : /\ r.sym \in Nat /\ r.row_start \in Nat
                           /\ r.time_start \in Nat /\ r.time_count \in Nat
  BY DEF RowRecord
<1> QED BY <1>1, <1>2

(* The middle of a stretch that is not empty.                              *)
LEMMA Middle ==
    ASSUME NEW lo \in Nat, NEW hi \in Nat, lo < hi
    PROVE  lo + (hi - lo) \div 2 \in lo .. hi - 1
OBVIOUS

(* Any search over names in order finds the record of a name if there is   *)
(* one.                                                                    *)
LEMMA SearchFinds ==
    ASSUME NEW ix, SymsAscend(ix), NEW name \in Nat, NEW f, Searches(ix, name, f),
           NEW lo \in 0 .. Len(ix.recs), NEW hi \in 0 .. Len(ix.recs)
    PROVE  InStretch(ix, name, lo, hi, f[<<lo, hi>>])
<1> DEFINE n == Len(ix.recs)
           Bad(m) == \E l, h \in 0 .. n : h - l = m /\ ~InStretch(ix, name, l, h, f[<<l, h>>])
           T == {m \in Nat : Bad(m)}
<1>1. /\ n \in Nat
      /\ \A k \in 1 .. n : ix.recs[k].sym \in Nat
      /\ \A k, l \in 1 .. n : k < l => ix.recs[k].sym < ix.recs[l].sym
  BY RecordParts DEF SymsAscend
<1>2. ASSUME NEW l \in 0 .. n, NEW h \in 0 .. n
      PROVE  LET mid == l + (h - l) \div 2
                 s   == ix.recs[mid + 1].sym
             IN  f[<<l, h>>] = IF l >= h THEN 0
                               ELSE IF s < name THEN f[<<mid + 1, h>>]
                               ELSE IF s > name THEN f[<<l, mid>>]
                               ELSE mid + 1
  <2>1. <<l, h>> \in (0 .. n) \X (0 .. n)
    OBVIOUS
  <2> QED BY <2>1, Zenon DEF Searches
<1>3. ASSUME NEW l \in 0 .. n, NEW h \in 0 .. n, l >= h
      PROVE  InStretch(ix, name, l, h, f[<<l, h>>])
  <2>1. f[<<l, h>>] = 0
    BY <1>2, <1>3
  <2> QED BY <1>1, <1>3, <2>1 DEF InStretch
<1>4. ASSUME T # {} PROVE FALSE
  <2>1. PICK m \in T : \A k \in T : m <= k
    <3>1. T \in SUBSET Nat
      OBVIOUS
    <3> HIDE DEF T
    <3> QED BY <1>4, <3>1, LeastNatural
  <2>2. PICK l \in 0 .. n, h \in 0 .. n :
          h - l = m /\ ~InStretch(ix, name, l, h, f[<<l, h>>])
    BY <2>1
  <2> DEFINE mid == l + (h - l) \div 2
             s == ix.recs[mid + 1].sym
  <2>3. l < h /\ l \in Nat /\ h \in Nat
    BY <1>1, <1>3, <2>2
  <2>4. mid \in l .. h - 1
    BY <2>3, Middle
  <2>11. f[<<l, h>>] = IF s < name THEN f[<<mid + 1, h>>]
                       ELSE IF s > name THEN f[<<l, mid>>]
                       ELSE mid + 1
    <3>1. ~(l >= h)
      BY <2>3
    <3> QED BY <1>2, <3>1, Zenon
  <2> HIDE DEF mid
  <2>5. mid + 1 \in 1 .. n /\ mid \in 0 .. n /\ mid + 1 \in 0 .. n /\ s \in Nat
    BY <1>1, <2>3, <2>4
  <2>6. \A i, j \in 0 .. n : j - i \in Nat /\ j - i < m
                               => InStretch(ix, name, i, j, f[<<i, j>>])
    <3> SUFFICES ASSUME NEW i \in 0 .. n, NEW j \in 0 .. n, j - i \in Nat, j - i < m,
                        ~InStretch(ix, name, i, j, f[<<i, j>>])
                 PROVE  FALSE
      OBVIOUS
    <3>1. j - i \in T
      OBVIOUS
    <3> HIDE DEF T
    <3> QED BY <1>1, <2>1, <2>2, <3>1
  <2>7. \A k \in 1 .. n : /\ k <= mid => ix.recs[k].sym <= s /\ (k # mid + 1 => ix.recs[k].sym < s)
                          /\ k > mid + 1 => ix.recs[k].sym > s
    <3> SUFFICES ASSUME NEW k \in 1 .. n
                 PROVE  /\ k <= mid => ix.recs[k].sym <= s /\ (k # mid + 1 => ix.recs[k].sym < s)
                        /\ k > mid + 1 => ix.recs[k].sym > s
      OBVIOUS
    <3>1. /\ k < mid + 1 => ix.recs[k].sym < ix.recs[mid + 1].sym
          /\ mid + 1 < k => ix.recs[mid + 1].sym < ix.recs[k].sym
      BY <1>1, <2>5
    <3>2. ix.recs[k].sym \in Nat /\ k \in Int /\ mid \in Int
      BY <1>1, <2>5
    <3>3. k <= mid => k < mid + 1
      BY <3>2
    <3> DEFINE x == ix.recs[k].sym
    <3>4. /\ k < mid + 1 => x < s
          /\ mid + 1 < k => s < x
      BY <3>1
    <3>5. x \in Nat
      BY <3>2
    <3> HIDE DEF s, x
    <3>6. /\ k <= mid => x <= s /\ (k # mid + 1 => x < s)
          /\ k > mid + 1 => x > s
      BY <2>5, <3>2, <3>3, <3>4, <3>5
    <3> QED BY <3>6 DEF x
  <2>8. CASE s < name
    <3>1. f[<<l, h>>] = f[<<mid + 1, h>>]
      BY <2>8, <2>11
    <3>2. InStretch(ix, name, mid + 1, h, f[<<mid + 1, h>>])
      BY <1>1, <2>2, <2>3, <2>4, <2>5, <2>6
    <3>3. ASSUME NEW k \in l + 1 .. mid + 1 PROVE ix.recs[k].sym # name
      <4>1. k \in 1 .. n /\ (k <= mid \/ k = mid + 1)
        BY <1>1, <2>3, <2>4, <2>5
      <4> DEFINE x == ix.recs[k].sym
      <4>2. x \in Nat
        BY <1>1, <4>1
      <4>3. k <= mid => x <= s
        BY <2>7, <4>1
      <4>4. k = mid + 1 => x = s
        OBVIOUS
      <4> HIDE DEF x, s
      <4>5. x # name
        BY <2>5, <2>8, <4>1, <4>2, <4>3, <4>4
      <4> QED BY <4>5 DEF x
    <3>4. InStretch(ix, name, l, h, f[<<l, h>>])
      BY <1>1, <2>3, <2>4, <3>1, <3>2, <3>3, SMTT(30) DEF InStretch
    <3> QED BY <2>2, <3>4
  <2>9. CASE s > name
    <3>1. f[<<l, h>>] = f[<<l, mid>>]
      BY <2>5, <2>9, <2>11, SMTT(30)
    <3>2. InStretch(ix, name, l, mid, f[<<l, mid>>])
      BY <1>1, <2>2, <2>3, <2>4, <2>5, <2>6
    <3>3. ASSUME NEW k \in mid + 1 .. h PROVE ix.recs[k].sym # name
      <4>1. k \in 1 .. n /\ (k > mid + 1 \/ k = mid + 1)
        BY <1>1, <2>3, <2>4, <2>5
      <4> DEFINE x == ix.recs[k].sym
      <4>2. x \in Nat
        BY <1>1, <4>1
      <4>3. k > mid + 1 => x > s
        BY <2>7, <4>1
      <4>4. k = mid + 1 => x = s
        OBVIOUS
      <4> HIDE DEF x, s
      <4>5. x # name
        BY <2>5, <2>9, <4>1, <4>2, <4>3, <4>4
      <4> QED BY <4>5 DEF x
    <3>4. InStretch(ix, name, l, h, f[<<l, h>>])
      BY <1>1, <2>3, <2>4, <3>1, <3>2, <3>3 DEF InStretch
    <3> QED BY <2>2, <3>4
  <2>10. CASE s = name
    <3>1. f[<<l, h>>] = mid + 1
      BY <2>5, <2>10, <2>11
    <3> QED BY <2>2, <2>3, <2>4, <2>10, <3>1 DEF InStretch
  <2> QED BY <2>5, <2>8, <2>9, <2>10, SMTT(30)
<1>5. CASE lo >= hi
  BY <1>3, <1>5
<1>6. CASE lo < hi
  <2>1. hi - lo \in Nat
    BY <1>1, <1>6
  <2>2. hi - lo \notin T
    <3> HIDE DEF T
    <3> QED BY <1>4
  <2> QED BY <2>1, <2>2
<1> QED BY <1>1, <1>5, <1>6

(* There is such a search: the one that finds it.                          *)
LEMMA SearchExists ==
    ASSUME NEW ix, SymsAscend(ix), NEW name \in Nat
    PROVE  \E f : Searches(ix, name, f)
<1> DEFINE n == Len(ix.recs)
           hits(l, h) == {k \in l + 1 .. h : ix.recs[k].sym = name}
           find(l, h) == IF hits(l, h) = {} THEN 0 ELSE CHOOSE k \in hits(l, h) : TRUE
           f == [w \in (0 .. n) \X (0 .. n) |-> find(w[1], w[2])]
<1>1. /\ n \in Nat
      /\ \A k \in 1 .. n : ix.recs[k].sym \in Nat
      /\ \A k, l \in 1 .. n : k < l => ix.recs[k].sym < ix.recs[l].sym
  BY RecordParts DEF SymsAscend
<1>2. ASSUME NEW l \in 0 .. n, NEW h \in 0 .. n PROVE f[<<l, h>>] = find(l, h)
  <2>1. <<l, h>> \in (0 .. n) \X (0 .. n) /\ <<l, h>>[1] = l /\ <<l, h>>[2] = h
    OBVIOUS
  <2> HIDE DEF find, n
  <2> QED BY <2>1
<1>3. ASSUME NEW w \in (0 .. n) \X (0 .. n)
      PROVE  f[w] = LET lo  == w[1]
                        hi  == w[2]
                        mid == lo + (hi - lo) \div 2
                        s   == ix.recs[mid + 1].sym
                    IN  IF lo >= hi THEN 0
                        ELSE IF s < name THEN f[<<mid + 1, hi>>]
                        ELSE IF s > name THEN f[<<lo, mid>>]
                        ELSE mid + 1
  <2> DEFINE l == w[1]
             h == w[2]
             mid == l + (h - l) \div 2
             s == ix.recs[mid + 1].sym
  <2>1. l \in 0 .. n /\ h \in 0 .. n /\ w = <<l, h>> /\ f[w] = find(l, h)
    <3> HIDE DEF find, n
    <3> QED OBVIOUS
  <2> HIDE DEF l, h, f
  <2>2. CASE l >= h
    <3>1. hits(l, h) = {}
      BY <1>1, <2>1, <2>2
    <3> QED BY <2>1, <2>2, <3>1 DEF l, h
  <2>3. CASE l < h
    <3>1. mid \in l .. h - 1 /\ l \in Nat /\ h \in Nat
      BY <1>1, <2>1, <2>3, Middle
    <3> HIDE DEF mid
    <3>2. mid + 1 \in 1 .. n /\ mid \in 0 .. n /\ mid + 1 \in 0 .. n /\ s \in Nat
      BY <1>1, <2>1, <3>1
    <3>3. \A k \in 1 .. n : /\ k <= mid => ix.recs[k].sym < s
                            /\ k > mid + 1 => ix.recs[k].sym > s
      BY <1>1, <3>2
    <3>4. \A k \in l + 1 .. h : k \in 1 .. n /\ (k <= mid \/ k = mid + 1 \/ k > mid + 1)
      BY <1>1, <2>1, <3>1
    <3>5. CASE s < name
      <4>1. \A k \in l + 1 .. h : ix.recs[k].sym = name => k > mid + 1
        <5> SUFFICES ASSUME NEW k \in l + 1 .. h, ix.recs[k].sym = name
                     PROVE  k > mid + 1
          OBVIOUS
        <5>1. k \in 1 .. n /\ (k <= mid => name < s) /\ (k = mid + 1 => name = s)
          BY <3>3, <3>4
        <5> HIDE DEF s
        <5> QED BY <3>2, <3>4, <3>5, <5>1
      <4>2. hits(l, h) = hits(mid + 1, h)
        <5>1. \A k \in mid + 1 + 1 .. h : k \in l + 1 .. h
          BY <3>1
        <5>2. \A k \in l + 1 .. h : k > mid + 1 => k \in mid + 1 + 1 .. h
          BY <3>1
        <5> QED BY <4>1, <5>1, <5>2, Zenon
      <4>3. f[w] = f[<<mid + 1, h>>]
        <5>1. f[<<mid + 1, h>>] = find(mid + 1, h) /\ f[w] = find(l, h)
          BY <1>2, <2>1, <3>2, SMTT(30)
        <5>2. find(l, h) = find(mid + 1, h)
          <6> HIDE DEF hits
          <6> QED BY <4>2
        <5> HIDE DEF find
        <5> QED BY <5>1, <5>2
      <4> QED BY <2>3, <3>2, <3>5, <4>3 DEF l, h, mid
    <3>6. CASE s > name
      <4>1. \A k \in l + 1 .. h : ix.recs[k].sym = name => k <= mid
        <5> SUFFICES ASSUME NEW k \in l + 1 .. h, ix.recs[k].sym = name
                     PROVE  k <= mid
          OBVIOUS
        <5>1. k \in 1 .. n /\ (k > mid + 1 => name > s) /\ (k = mid + 1 => name = s)
          BY <3>3, <3>4
        <5> HIDE DEF s
        <5> QED BY <3>2, <3>4, <3>6, <5>1
      <4>2. hits(l, h) = hits(l, mid)
        <5>1. \A k \in l + 1 .. mid : k \in l + 1 .. h
          BY <3>1
        <5>2. \A k \in l + 1 .. h : k <= mid => k \in l + 1 .. mid
          BY <3>1
        <5> QED BY <4>1, <5>1, <5>2, Zenon
      <4>3. f[w] = f[<<l, mid>>]
        <5>1. f[<<l, mid>>] = find(l, mid) /\ f[w] = find(l, h)
          BY <1>2, <2>1, <3>2
        <5>2. find(l, h) = find(l, mid)
          <6> HIDE DEF hits
          <6> QED BY <4>2
        <5> HIDE DEF find
        <5> QED BY <5>1, <5>2
      <4> QED BY <2>3, <3>2, <3>6, <4>3, SMTT(30) DEF l, h, mid
    <3>7. CASE s = name
      <4>1. \A k \in l + 1 .. h : ix.recs[k].sym = name <=> k = mid + 1
        BY <1>1, <3>2, <3>3, <3>4, <3>7, SMTT(30)
      <4>2. hits(l, h) = {mid + 1}
        BY <3>1, <4>1, SMTT(30)
      <4>3. f[w] = mid + 1
        <5>1. f[w] = find(l, h)
          BY <1>2, <2>1, <3>2
        <5>2. find(l, h) = mid + 1
          <6> HIDE DEF hits
          <6> QED BY <4>2
        <5> HIDE DEF find
        <5> QED BY <5>1, <5>2
      <4> QED BY <2>3, <3>2, <3>7, <4>3 DEF l, h, mid
    <3>8. s < name \/ s > name \/ s = name
      <4> HIDE DEF s
      <4> QED BY <3>2
    <3> QED BY <3>5, <3>6, <3>7, <3>8, Zenon
  <2> QED BY <2>1, <2>2, <2>3, SMTT(30)
<1>4. f = [w \in (0 .. n) \X (0 .. n) |-> f[w]]
  <2> HIDE DEF find, n
  <2> QED OBVIOUS
<1> HIDE DEF f
<1> DEFINE Body(w) == LET lo  == w[1]
                          hi  == w[2]
                          mid == lo + (hi - lo) \div 2
                          s   == ix.recs[mid + 1].sym
                      IN  IF lo >= hi THEN 0
                          ELSE IF s < name THEN f[<<mid + 1, hi>>]
                          ELSE IF s > name THEN f[<<lo, mid>>]
                          ELSE mid + 1
<1>5. Searches(ix, name, f)
  <2>1. \A w \in (0 .. n) \X (0 .. n) : f[w] = Body(w)
    BY <1>3
  <2> HIDE DEF Body
  <2>2. f = [w \in (0 .. n) \X (0 .. n) |-> Body(w)]
    BY <1>4, <2>1
  <2> USE DEF Body
  <2> QED BY <2>2, Zenon DEF Searches
<1> QED BY <1>5

(* sym_id_of on an index in order: the id of the name's record, if any.    *)
LEMMA SymIdIs ==
    ASSUME NEW ix, SymsAscend(ix), NEW name \in Nat
    PROVE  LET id == SymIdOf(ix, name)
           IN  \/ id = 0 /\ \A k \in DOMAIN ix.recs : ix.recs[k].sym # name
               \/ id \in DOMAIN ix.recs /\ ix.recs[id].sym = name
<1> DEFINE f == CHOOSE f : Searches(ix, name, f)
<1>1. Searches(ix, name, f)
  BY SearchExists
<1>2. SymIdOf(ix, name) = f[<<0, Len(ix.recs)>>]
  BY SymIdIsSearch
<1> HIDE DEF f
<1>3. Len(ix.recs) \in Nat /\ DOMAIN ix.recs = 1 .. Len(ix.recs)
  BY RecordParts DEF SymsAscend
<1>4. InStretch(ix, name, 0, Len(ix.recs), f[<<0, Len(ix.recs)>>])
  BY <1>1, <1>3, SearchFinds
<1> QED BY <1>2, <1>3, <1>4 DEF InStretch

----------------------------------------------------------------------------
(* The window on the axis.                                                 *)

AxisAscends(ix) ==
    /\ ix.axis \in Seq(0 .. WAxis - 1)
    /\ \A i, j \in DOMAIN ix.axis : i < j => ix.axis[i] < ix.axis[j]

(* axis_lower_bound: the positions before it are those with slots below v. *)
LEMMA BoundIs ==
    ASSUME NEW ix, AxisAscends(ix), NEW v \in Int
    PROVE  /\ LowerBound(ix, v) \in Nat
           /\ \A p \in 0 .. Len(ix.axis) - 1 : p < LowerBound(ix, v) <=> TimeAt(ix, p) < v
<1> DEFINE n == Len(ix.axis)
           H == {j \in DOMAIN ix.axis : ix.axis[j] < v}
<1>1. /\ n \in Nat /\ DOMAIN ix.axis = 1 .. n
      /\ \A j \in 1 .. n : ix.axis[j] \in Nat
      /\ \A i, j \in 1 .. n : i < j => ix.axis[i] < ix.axis[j]
  <2>1. n \in Nat /\ DOMAIN ix.axis = 1 .. n
    BY LenProperties DEF AxisAscends
  <2>2. \A j \in 1 .. n : ix.axis[j] \in 0 .. WAxis - 1
    BY ElementOfSeq DEF AxisAscends
  <2> QED BY <2>1, <2>2, SMTT(30) DEF AxisAscends
<1>2. LowerBound(ix, v) = Cardinality(H)
  BY DEF LowerBound
<1> HIDE DEF n
<1>3. H \in SUBSET (1 .. n) /\ IsFiniteSet(1 .. n)
  BY <1>1, FS_Interval
<1>4. IsFiniteSet(H) /\ Cardinality(H) \in Nat
  BY <1>3, FS_Subset, FS_CardinalityType
<1>5. ASSUME NEW p \in 0 .. n - 1 PROVE p < Cardinality(H) <=> ix.axis[p + 1] < v
  <2>1. p + 1 \in 1 .. n /\ p \in Nat
    BY <1>1
  <2>2. CASE ix.axis[p + 1] < v
    <3>1. \A j \in 1 .. p + 1 : j \in 1 .. n /\ ix.axis[j] <= ix.axis[p + 1]
      BY <1>1, <2>1
    <3>2. \A j \in 1 .. p + 1 : ix.axis[j] < v
      BY <1>1, <2>1, <2>2, <3>1
    <3>3. 1 .. p + 1 \in SUBSET H
      BY <1>1, <3>1, <3>2
    <3> HIDE DEF H
    <3>4. Cardinality(1 .. p + 1) <= Cardinality(H)
      BY <1>4, <3>3, FS_Subset
    <3>5. Cardinality(1 .. p + 1) = p + 1
      BY <2>1, FS_Interval
    <3> QED BY <1>4, <2>1, <2>2, <3>4, <3>5
  <2>3. CASE ~(ix.axis[p + 1] < v)
    <3>1. ASSUME NEW j \in H PROVE j \in 1 .. p
      <4>1. j \in 1 .. n /\ ix.axis[j] < v
        BY <1>1
      <4>2. ~(j = p + 1) /\ ~(p + 1 < j)
        BY <1>1, <2>1, <2>3, <4>1
      <4> QED BY <1>1, <2>1, <4>1, <4>2
    <3>2. H \in SUBSET (1 .. p)
      BY <3>1
    <3> HIDE DEF H
    <3>3. IsFiniteSet(1 .. p) /\ Cardinality(1 .. p) = p
      BY <2>1, FS_Interval
    <3>4. Cardinality(H) <= p
      BY <3>2, <3>3, FS_Subset
    <3> QED BY <1>4, <2>1, <2>3, <3>4
  <2> QED BY <2>2, <2>3
<1> QED BY <1>2, <1>4, <1>5 DEF n, TimeAt

(* A scalar that is a time a slot can hold, as the code compares it.       *)
LEMMA UnsignedIs ==
    ASSUME NEW v \in Scalar, OnAxis(v)
    PROVE  Unsigned(v) \in 0 .. W64 - 1 /\ 2 * Unsigned(v) = v.half
<1>1. W64 \in Nat /\ W64 > 1 /\ v.half \in Int
  BY WidthAssumption DEF Scalar
<1>2. v.half \div 2 \in 0 .. W64 - 1 /\ 2 * (v.half \div 2) = v.half /\ v.half >= 0
  BY <1>1 DEF OnAxis
<1>3. (v.half \div 2) % W64 = v.half \div 2
  BY <1>1, <1>2
<1>4. Least(v.half \div 2, W64 - 1) = v.half \div 2
  BY <1>1, <1>2 DEF Least
<1>5. Unsigned(v) = v.half \div 2
  BY <1>1, <1>2, <1>3, <1>4 DEF Unsigned, AsU64
<1> QED BY <1>2, <1>5

(* The step to the next value saturates, above every time of a slot.       *)
LEMMA UpperIs ==
    ASSUME NEW t \in 0 .. WAxis \div 2 - 1, NEW v \in 0 .. W64 - 1
    PROVE  t < Least(v + 1, W64 - 1) <=> t <= v
BY WidthAssumption DEF Least

(* A predicate in the making: the syms and the window.                     *)
Compiling(ix) ==
    [all : BOOLEAN, ids : UNION {[S -> Nat \ {0}] : S \in SUBSET (DOMAIN ix.recs)},
     lo : Int, hi : Int]

(* compile_node of a time: what it leaves in the window.                   *)
LEMMA TimeAtomIs ==
    ASSUME NEW ix, AxisAscends(ix), NEW acc \in Compiling(ix),
           NEW op \in Ops, NEW value \in Scalar, OnAxis(value),
           NEW atom, atom.op = op, atom.value = value
    PROVE  LET new == TimeAtom(ix, acc, atom)
           IN  /\ new \in Compiling(ix) /\ new.all = acc.all /\ new.ids = acc.ids
               /\ \A p \in 0 .. Len(ix.axis) - 1 : TimeAt(ix, p) \in 0 .. WAxis \div 2 - 1 =>
                    (p \in new.lo .. new.hi - 1 <=>
                       /\ p \in acc.lo .. acc.hi - 1
                       /\ op = "Ne" \/ Compares(op, 2 * TimeAt(ix, p), value.half))
<1> DEFINE v == Unsigned(value)
           lower == LowerBound(ix, v)
           upper == LowerBound(ix, Least(v + 1, W64 - 1))
           new == TimeAtom(ix, acc, atom)
<1>1. /\ acc.lo \in Int /\ acc.hi \in Int
      /\ \A x, y \in Int : /\ [acc EXCEPT !.lo = x, !.hi = y] \in Compiling(ix)
                           /\ [acc EXCEPT !.lo = x, !.hi = y].lo = x
                           /\ [acc EXCEPT !.lo = x, !.hi = y].hi = y
                           /\ [acc EXCEPT !.lo = x, !.hi = y].all = acc.all
                           /\ [acc EXCEPT !.lo = x, !.hi = y].ids = acc.ids
  BY DEF Compiling
<1>2. v \in 0 .. W64 - 1 /\ 2 * v = value.half /\ v \in Int
  BY UnsignedIs, WidthAssumption
<1>3. Least(v + 1, W64 - 1) \in Int
  BY <1>2, WidthAssumption DEF Least
<1>4. /\ lower \in Int /\ upper \in Int
      /\ \A p \in 0 .. Len(ix.axis) - 1 :
           /\ p < lower <=> TimeAt(ix, p) < v
           /\ TimeAt(ix, p) \in 0 .. WAxis \div 2 - 1 => (p < upper <=> TimeAt(ix, p) <= v)
  <2>1. /\ lower \in Nat
        /\ \A p \in 0 .. Len(ix.axis) - 1 : p < lower <=> TimeAt(ix, p) < v
    BY <1>2, BoundIs
  <2>2. /\ upper \in Nat
        /\ \A p \in 0 .. Len(ix.axis) - 1 :
             p < upper <=> TimeAt(ix, p) < Least(v + 1, W64 - 1)
    BY <1>3, BoundIs
  <2> HIDE DEF lower, upper, v
  <2> QED BY <1>2, <2>1, <2>2, UpperIs
<1>5. new = [acc EXCEPT
               !.lo = CASE op \in {"Eq", "Ge"} -> Greatest(@, lower)
                        [] op = "Gt"           -> Greatest(@, upper)
                        [] OTHER               -> @,
               !.hi = CASE op \in {"Eq", "Le"} -> Least(@, upper)
                        [] op = "Lt"           -> Least(@, lower)
                        [] OTHER               -> @]
  BY DEF TimeAtom
<1> HIDE DEF v, lower, upper, new
<1> DEFINE lo == CASE op \in {"Eq", "Ge"} -> Greatest(acc.lo, lower)
                   [] op = "Gt"           -> Greatest(acc.lo, upper)
                   [] OTHER               -> acc.lo
           hi == CASE op \in {"Eq", "Le"} -> Least(acc.hi, upper)
                   [] op = "Lt"           -> Least(acc.hi, lower)
                   [] OTHER               -> acc.hi
<1>6. new = [acc EXCEPT !.lo = lo, !.hi = hi]
  BY <1>5
<1>7. /\ lo = IF op \in {"Eq", "Ge"} THEN Greatest(acc.lo, lower)
              ELSE IF op = "Gt" THEN Greatest(acc.lo, upper) ELSE acc.lo
      /\ hi = IF op \in {"Eq", "Le"} THEN Least(acc.hi, upper)
              ELSE IF op = "Lt" THEN Least(acc.hi, lower) ELSE acc.hi
  <2>1. op \in {"Eq", "Ge"} => op # "Gt"
    OBVIOUS
  <2>2. op \in {"Eq", "Le"} => op # "Lt"
    OBVIOUS
  <2>3. lo = IF op \in {"Eq", "Ge"} THEN Greatest(acc.lo, lower)
             ELSE IF op = "Gt" THEN Greatest(acc.lo, upper) ELSE acc.lo
    BY <2>1, Zenon
  <2>4. hi = IF op \in {"Eq", "Le"} THEN Least(acc.hi, upper)
             ELSE IF op = "Lt" THEN Least(acc.hi, lower) ELSE acc.hi
    BY <2>2, Zenon
  <2> QED BY <2>3, <2>4
<1> HIDE DEF lo, hi
<1>8. lo \in Int /\ hi \in Int
  BY <1>1, <1>4, <1>7 DEF Least, Greatest
<1>9. /\ new \in Compiling(ix) /\ new.lo = lo /\ new.hi = hi
      /\ new.all = acc.all /\ new.ids = acc.ids
  <2> DEFINE e(x, y) == [acc EXCEPT !.lo = x, !.hi = y]
  <2>1. /\ e(lo, hi) \in Compiling(ix) /\ e(lo, hi).lo = lo /\ e(lo, hi).hi = hi
        /\ e(lo, hi).all = acc.all /\ e(lo, hi).ids = acc.ids
    <3>1. \A x, y \in Int : /\ e(x, y) \in Compiling(ix)
                            /\ e(x, y).lo = x
                            /\ e(x, y).hi = y
                            /\ e(x, y).all = acc.all
                            /\ e(x, y).ids = acc.ids
      BY <1>1, Zenon
    <3> HIDE DEF e
    <3> QED BY <1>8, <3>1
  <2>2. new = e(lo, hi)
    BY <1>6
  <2> HIDE DEF e
  <2> QED BY <2>1, <2>2
<1>10. ASSUME NEW p \in 0 .. Len(ix.axis) - 1, TimeAt(ix, p) \in 0 .. WAxis \div 2 - 1
       PROVE  p \in lo .. hi - 1 <=>
                /\ p \in acc.lo .. acc.hi - 1
                /\ op = "Ne" \/ Compares(op, 2 * TimeAt(ix, p), value.half)
  <2>1. PICK t \in Int : t = TimeAt(ix, p) /\ p \in Int
    <3>1. Len(ix.axis) \in Nat
      BY LenProperties DEF AxisAscends
    <3> QED BY <1>10, <3>1, WidthAssumption
  <2>2. /\ p < lower <=> t < v
        /\ p < upper <=> t <= v
        /\ acc.lo \in Int /\ acc.hi \in Int /\ lower \in Int /\ upper \in Int
        /\ p \in Int /\ v \in Int /\ value.half = 2 * v
    BY <1>1, <1>2, <1>4, <1>10, <2>1
  <2> SUFFICES p \in lo .. hi - 1
                 <=> p \in acc.lo .. acc.hi - 1 /\ (op = "Ne" \/ Compares(op, 2 * t, value.half))
    BY <2>1
  <2>3. CASE op = "Eq"
    <3>1. lo = Greatest(acc.lo, lower) /\ hi = Least(acc.hi, upper)
      BY <1>7, <2>3
    <3>2. Compares(op, 2 * t, value.half) <=> t = v
      BY <2>2, <2>3 DEF Compares
    <3> QED BY <2>2, <2>3, <3>1, <3>2 DEF Least, Greatest
  <2>4. CASE op = "Ge"
    <3>1. lo = Greatest(acc.lo, lower) /\ hi = acc.hi
      BY <1>7, <2>4
    <3>2. Compares(op, 2 * t, value.half) <=> v <= t
      BY <2>2, <2>4 DEF Compares
    <3> QED BY <2>2, <2>4, <3>1, <3>2 DEF Greatest
  <2>5. CASE op = "Gt"
    <3>1. lo = Greatest(acc.lo, upper) /\ hi = acc.hi
      BY <1>7, <2>5
    <3>2. Compares(op, 2 * t, value.half) <=> v < t
      BY <2>2, <2>5 DEF Compares
    <3> QED BY <2>2, <2>5, <3>1, <3>2 DEF Greatest
  <2>6. CASE op = "Le"
    <3>1. lo = acc.lo /\ hi = Least(acc.hi, upper)
      BY <1>7, <2>6
    <3>2. Compares(op, 2 * t, value.half) <=> t <= v
      BY <2>2, <2>6 DEF Compares
    <3> QED BY <2>2, <2>6, <3>1, <3>2 DEF Least
  <2>7. CASE op = "Lt"
    <3>1. lo = acc.lo /\ hi = Least(acc.hi, lower)
      BY <1>7, <2>7
    <3>2. Compares(op, 2 * t, value.half) <=> t < v
      BY <2>2, <2>7 DEF Compares
    <3> QED BY <2>2, <2>7, <3>1, <3>2 DEF Least
  <2>8. CASE op = "Ne"
    BY <1>7, <2>8
  <2> QED BY <2>3, <2>4, <2>5, <2>6, <2>7, <2>8 DEF Ops
<1> QED BY <1>9, <1>10 DEF new

----------------------------------------------------------------------------
(* One node of a predicate.                                                *)

(* What the parts of a condition are.                                      *)
LEMMA AtomParts ==
    ASSUME NEW atom \in Atom
    PROVE  /\ atom.on \in {"sym", "time", "or", "opaque"}
           /\ atom.on = "sym" => atom.op \in Ops /\ atom.name \in Nat
           /\ atom.on = "time" => atom.op \in Ops /\ atom.value \in Scalar
           /\ atom.on = "or" => atom.names \in Seq(Nat)
<1>1. CASE atom \in [on : {"sym"}, op : Ops, name : Nat]
  BY <1>1
<1>2. CASE atom \in [on : {"time"}, op : Ops, value : Scalar]
  BY <1>2
<1>3. CASE atom \in [on : {"or"}, names : Seq(Nat)]
  BY <1>3
<1>4. CASE atom \in [on : {"opaque"}]
  BY <1>4
<1> QED BY <1>1, <1>2, <1>3, <1>4 DEF Atom

(* The syms let through so far.                                            *)
Lets(acc, k) == acc.all \/ k \in DOMAIN acc.ids
Once(acc) == \A i \in DOMAIN acc.ids : acc.ids[i] = 1

(* What the parts of a compiled predicate are.                             *)
LEMMA CompilingParts ==
    ASSUME NEW ix, NEW acc \in Compiling(ix)
    PROVE  /\ acc.all \in BOOLEAN /\ acc.lo \in Int /\ acc.hi \in Int
           /\ DOMAIN acc.ids \in SUBSET (DOMAIN ix.recs)
           /\ acc.ids \in [DOMAIN acc.ids -> Nat \ {0}]
<1> DEFINE Lists == UNION {[S -> Nat \ {0}] : S \in SUBSET (DOMAIN ix.recs)}
<1>1. acc \in [all : BOOLEAN, ids : Lists, lo : Int, hi : Int]
  BY DEF Compiling
<1>2. PICK S \in SUBSET (DOMAIN ix.recs) : acc.ids \in [S -> Nat \ {0}]
  BY <1>1
<1>3. DOMAIN acc.ids \in SUBSET (DOMAIN ix.recs) /\ acc.ids \in [DOMAIN acc.ids -> Nat \ {0}]
  BY <1>2
<1> QED BY <1>1, <1>3

(* Other ids in it are a compiled predicate again.                         *)
LEMMA IdsTaken ==
    ASSUME NEW ix, NEW acc \in Compiling(ix), NEW f,
           DOMAIN f \in SUBSET (DOMAIN ix.recs), f \in [DOMAIN f -> Nat \ {0}]
    PROVE  [acc EXCEPT !.all = FALSE, !.ids = f] \in Compiling(ix)
<1> DEFINE Lists == UNION {[S -> Nat \ {0}] : S \in SUBSET (DOMAIN ix.recs)}
<1>1. f \in Lists
  OBVIOUS
<1>2. Compiling(ix) = [all : BOOLEAN, ids : Lists, lo : Int, hi : Int]
  BY DEF Compiling
<1>3. acc \in [all : BOOLEAN, ids : Lists, lo : Int, hi : Int]
  BY <1>2
<1> HIDE DEF Lists
<1>4. \A g \in Lists : [acc EXCEPT !.all = FALSE, !.ids = g]
                        \in [all : BOOLEAN, ids : Lists, lo : Int, hi : Int]
  BY <1>3
<1> QED BY <1>1, <1>2, <1>4, Zenon

(* compile_node of sym = name: of what was let through, the name.          *)
LEMMA SymAtomIs ==
    ASSUME NEW ix, SymsAscend(ix), NEW acc \in Compiling(ix),
           NEW atom, atom.op = "Eq", atom.name \in Nat
    PROVE  LET new == SymAtom(ix, acc, atom)
           IN  /\ new \in Compiling(ix) /\ ~new.all
               /\ new.lo = acc.lo /\ new.hi = acc.hi
               /\ Once(acc) => Once(new)
               /\ \A k \in DOMAIN ix.recs :
                    k \in DOMAIN new.ids <=> Lets(acc, k) /\ ix.recs[k].sym = atom.name
<1> DEFINE id == SymIdOf(ix, atom.name)
           f == IF id = 0 THEN NoIds
                ELSE IF acc.all THEN [i \in {id} |-> 1]
                ELSE [i \in DOMAIN acc.ids \cap {id} |-> acc.ids[i]]
           new == SymAtom(ix, acc, atom)
<1>1. \/ id = 0 /\ \A k \in DOMAIN ix.recs : ix.recs[k].sym # atom.name
      \/ id \in DOMAIN ix.recs /\ ix.recs[id].sym = atom.name
  BY SymIdIs
<1>2. DOMAIN ix.recs = 1 .. Len(ix.recs) /\ Len(ix.recs) \in Nat
      /\ \A k, l \in DOMAIN ix.recs : k # l => ix.recs[k].sym # ix.recs[l].sym
  <2>1. /\ DOMAIN ix.recs = 1 .. Len(ix.recs) /\ Len(ix.recs) \in Nat
        /\ \A k \in DOMAIN ix.recs : ix.recs[k].sym \in Nat
    BY RecordParts DEF SymsAscend
  <2> QED BY <2>1 DEF SymsAscend
<1>3. new = [acc EXCEPT !.all = FALSE, !.ids = f]
  <2>1. CASE id = 0
    BY <2>1, Zenon DEF SymAtom
  <2>2. CASE id # 0
    BY <2>2, Zenon DEF SymAtom
  <2> QED BY <2>1, <2>2
<1> HIDE DEF id, new
<1>4. /\ acc.all \in BOOLEAN
      /\ DOMAIN acc.ids \in SUBSET (DOMAIN ix.recs)
      /\ acc.ids \in [DOMAIN acc.ids -> Nat \ {0}]
  BY CompilingParts
<1>5. /\ DOMAIN f \in SUBSET (DOMAIN ix.recs) /\ f \in [DOMAIN f -> Nat \ {0}]
      /\ Once(acc) => \A i \in DOMAIN f : f[i] = 1
      /\ \A k \in DOMAIN ix.recs :
           k \in DOMAIN f <=> Lets(acc, k) /\ ix.recs[k].sym = atom.name
  <2>1. CASE id = 0
    <3>1. f = [i \in {} |-> 1]
      BY <2>1 DEF NoIds
    <3> HIDE DEF f
    <3> QED BY <1>1, <1>2, <2>1, <3>1
  <2>2. CASE id # 0 /\ acc.all
    <3>1. f = [i \in {id} |-> 1]
      BY <2>2
    <3> HIDE DEF f
    <3> QED BY <1>1, <1>2, <2>2, <3>1 DEF Lets
  <2>3. CASE id # 0 /\ ~acc.all
    <3>1. f = [i \in DOMAIN acc.ids \cap {id} |-> acc.ids[i]]
      BY <2>3
    <3> HIDE DEF f
    <3> QED BY <1>1, <1>2, <1>4, <2>3, <3>1 DEF Lets, Once
  <2> QED BY <1>4, <2>1, <2>2, <2>3
<1> HIDE DEF f
<1>6. /\ new \in Compiling(ix) /\ ~new.all /\ new.ids = f
      /\ new.lo = acc.lo /\ new.hi = acc.hi
  <2>1. new \in Compiling(ix)
    BY <1>3, <1>5, IdsTaken
  <2>2. "all" \in DOMAIN acc /\ "ids" \in DOMAIN acc
    BY DEF Compiling
  <2> QED BY <1>3, <2>1, <2>2
<1>7. Once(acc) => Once(new)
  BY <1>5, <1>6 DEF Once
<1> QED BY <1>5, <1>6, <1>7 DEF new

(* compile_node of an Or of syms: its names, and what there was before.    *)
LEMMA OrAtomIs ==
    ASSUME NEW ix, SymsAscend(ix), NEW acc \in Compiling(ix),
           NEW atom, atom.names \in Seq(Nat)
    PROVE  LET new == OrAtom(ix, acc, atom)
           IN  /\ new \in Compiling(ix) /\ ~new.all
               /\ new.lo = acc.lo /\ new.hi = acc.hi
               /\ IsInjective(atom.names) => Once(new)
               /\ \A k \in DOMAIN ix.recs :
                    k \in DOMAIN new.ids <=>
                        \/ ~acc.all /\ k \in DOMAIN acc.ids
                        \/ ix.recs[k].sym \in Range(atom.names)
<1> DEFINE named(i) == {n \in DOMAIN atom.names : SymIdOf(ix, atom.names[n]) = i}
           ids == {i \in DOMAIN ix.recs : named(i) # {}}
           f == IF acc.all THEN [i \in ids |-> Cardinality(named(i))]
                ELSE [i \in DOMAIN acc.ids \cup ids |-> 1]
           new == OrAtom(ix, acc, atom)
<1>1. DOMAIN ix.recs = 1 .. Len(ix.recs) /\ Len(ix.recs) \in Nat
      /\ \A k, l \in DOMAIN ix.recs : k # l => ix.recs[k].sym # ix.recs[l].sym
  <2>1. /\ DOMAIN ix.recs = 1 .. Len(ix.recs) /\ Len(ix.recs) \in Nat
        /\ \A k \in DOMAIN ix.recs : ix.recs[k].sym \in Nat
    BY RecordParts DEF SymsAscend
  <2> QED BY <2>1 DEF SymsAscend
<1>2. /\ DOMAIN atom.names = 1 .. Len(atom.names) /\ Len(atom.names) \in Nat
      /\ \A n \in DOMAIN atom.names : atom.names[n] \in Nat
  BY LenProperties, ElementOfSeq
<1>3. \A n \in DOMAIN atom.names : \A i \in DOMAIN ix.recs :
         SymIdOf(ix, atom.names[n]) = i <=> ix.recs[i].sym = atom.names[n]
  <2> SUFFICES ASSUME NEW n \in DOMAIN atom.names, NEW i \in DOMAIN ix.recs
               PROVE  SymIdOf(ix, atom.names[n]) = i <=> ix.recs[i].sym = atom.names[n]
    OBVIOUS
  <2> DEFINE id == SymIdOf(ix, atom.names[n])
  <2>1. \/ id = 0 /\ \A k \in DOMAIN ix.recs : ix.recs[k].sym # atom.names[n]
        \/ id \in DOMAIN ix.recs /\ ix.recs[id].sym = atom.names[n]
    BY <1>2, SymIdIs
  <2> HIDE DEF id
  <2>2. i # 0
    BY <1>1
  <2>3. id = i <=> ix.recs[i].sym = atom.names[n]
    BY <1>1, <2>1, <2>2
  <2> QED BY <2>3 DEF id
<1>4. new = [acc EXCEPT !.all = FALSE, !.ids = f]
  BY Zenon DEF OrAtom
<1>5. \A i \in DOMAIN ix.recs :
        /\ i \in ids <=> ix.recs[i].sym \in Range(atom.names)
        /\ i \in ids => Cardinality(named(i)) \in Nat \ {0}
        /\ i \in ids /\ IsInjective(atom.names) => Cardinality(named(i)) = 1
  <2> SUFFICES ASSUME NEW i \in DOMAIN ix.recs
               PROVE  /\ i \in ids <=> ix.recs[i].sym \in Range(atom.names)
                      /\ i \in ids => Cardinality(named(i)) \in Nat \ {0}
                      /\ i \in ids /\ IsInjective(atom.names) => Cardinality(named(i)) = 1
    OBVIOUS
  <2>1. named(i) = {n \in DOMAIN atom.names : atom.names[n] = ix.recs[i].sym}
    BY <1>3
  <2>2. i \in ids <=> named(i) # {}
    OBVIOUS
  <2> HIDE DEF ids, named
  <2>3. i \in ids <=> ix.recs[i].sym \in Range(atom.names)
    BY <2>1, <2>2 DEF Range
  <2>4. IsFiniteSet(named(i)) /\ Cardinality(named(i)) \in Nat
    <3>1. named(i) \in SUBSET (1 .. Len(atom.names)) /\ IsFiniteSet(1 .. Len(atom.names))
      BY <1>2, <2>1, FS_Interval
    <3> QED BY <3>1, FS_Subset, FS_CardinalityType
  <2>5. named(i) # {} => Cardinality(named(i)) # 0
    BY <2>4, FS_EmptySet
  <2>6. ASSUME named(i) # {}, IsInjective(atom.names) PROVE Cardinality(named(i)) = 1
    <3>1. PICK n \in named(i) : TRUE
      BY <2>6
    <3>2. named(i) = {n}
      BY <2>1, <2>6, <3>1 DEF IsInjective
    <3> QED BY <3>2, FS_Singleton
  <2> QED BY <2>2, <2>3, <2>4, <2>5, <2>6
<1>6. ids \in SUBSET (DOMAIN ix.recs)
  OBVIOUS
<1> HIDE DEF ids, named, new
<1>7. /\ acc.all \in BOOLEAN /\ DOMAIN acc.ids \in SUBSET (DOMAIN ix.recs)
  BY CompilingParts
<1>8. /\ DOMAIN f \in SUBSET (DOMAIN ix.recs) /\ f \in [DOMAIN f -> Nat \ {0}]
      /\ IsInjective(atom.names) => \A i \in DOMAIN f : f[i] = 1
      /\ \A k \in DOMAIN ix.recs :
           k \in DOMAIN f <=> (~acc.all /\ k \in DOMAIN acc.ids)
                              \/ ix.recs[k].sym \in Range(atom.names)
  <2>1. CASE acc.all
    <3>1. f = [i \in ids |-> Cardinality(named(i))]
      BY <2>1
    <3> HIDE DEF f
    <3> QED BY <1>5, <1>6, <2>1, <3>1
  <2>2. CASE ~acc.all
    <3>1. f = [i \in DOMAIN acc.ids \cup ids |-> 1]
      BY <2>2
    <3> HIDE DEF f
    <3> QED BY <1>5, <1>6, <1>7, <2>2, <3>1
  <2> QED BY <2>1, <2>2
<1> HIDE DEF f
<1>9. /\ new \in Compiling(ix) /\ ~new.all /\ new.ids = f
      /\ new.lo = acc.lo /\ new.hi = acc.hi
  <2>1. new \in Compiling(ix)
    BY <1>4, <1>8, IdsTaken
  <2>2. "all" \in DOMAIN acc /\ "ids" \in DOMAIN acc
    BY DEF Compiling
  <2> QED BY <1>4, <2>1, <2>2
<1>10. IsInjective(atom.names) => Once(new)
  BY <1>8, <1>9 DEF Once
<1> QED BY <1>8, <1>9, <1>10 DEF new

(* A row is let through by the predicate so far.                           *)
Passes(acc, k, p) == Lets(acc, k) /\ p \in acc.lo .. acc.hi - 1

(* An atom a scan decides where it is, and not only approximates.          *)
Exactly(acc, atom) ==
    /\ atom.on # "opaque"
    /\ atom.on \in {"sym", "time"} => atom.op # "Ne"
    /\ atom.on = "sym" => atom.op = "Eq"
    /\ atom.on = "or" => acc.all

InOrderIndex(ix) == SymsAscend(ix) /\ AxisAscends(ix)

(* compile_node: no atom refuses a row it holds of, and most refuse all    *)
(* others.                                                                 *)
LEMMA NodeIs ==
    ASSUME NEW ix, InOrderIndex(ix), NEW acc \in Compiling(ix), NEW atom \in Atom,
           atom.on = "time" => OnAxis(atom.value)
    PROVE  LET new == CompileNode(ix, acc, atom)
           IN  /\ new \in Compiling(ix)
               /\ atom.on \in {"time", "opaque"} => (new.all <=> acc.all)
               /\ Once(acc) /\ (atom.on = "or" => IsInjective(atom.names)) => Once(new)
               /\ \A k \in DOMAIN ix.recs, p \in 0 .. Len(ix.axis) - 1 : \A row :
                    /\ row.sym = ix.recs[k].sym /\ row.time = TimeAt(ix, p)
                    /\ TimeAt(ix, p) \in 0 .. WAxis \div 2 - 1
                    => /\ Passes(acc, k, p) /\ Holds(row, atom) => Passes(new, k, p)
                       /\ Exactly(acc, atom) /\ Passes(new, k, p)
                             => Passes(acc, k, p) /\ Holds(row, atom)
<1> DEFINE new == CompileNode(ix, acc, atom)
<1>1. /\ atom.on \in {"sym", "time", "or", "opaque"}
      /\ atom.on = "sym" => atom.op \in Ops /\ atom.name \in Nat
      /\ atom.on = "time" => atom.op \in Ops /\ atom.value \in Scalar
      /\ atom.on = "or" => atom.names \in Seq(Nat)
  BY AtomParts
<1>2. CASE atom.on = "sym"
  <2>1. new = SymAtom(ix, acc, atom)
    BY <1>2, Zenon DEF CompileNode
  <2> HIDE DEF new
  <2>2. CASE atom.op = "Eq"
    <3>1. /\ new \in Compiling(ix) /\ ~new.all
          /\ new.lo = acc.lo /\ new.hi = acc.hi
          /\ Once(acc) => Once(new)
          /\ \A k \in DOMAIN ix.recs :
               k \in DOMAIN new.ids <=> Lets(acc, k) /\ ix.recs[k].sym = atom.name
      BY <1>1, <1>2, <2>1, <2>2, SymAtomIs DEF InOrderIndex
    <3>2. \A row : Holds(row, atom) <=> row.sym = atom.name
      BY <1>2, <2>2 DEF Holds, Compares
    <3> QED BY <1>2, <3>1, <3>2 DEF Passes, Lets, new
  <2>3. CASE atom.op # "Eq"
    <3>1. new = acc
      BY <2>1, <2>3, Zenon DEF SymAtom
    <3> QED BY <1>2, <2>3, <3>1 DEF Exactly, new
  <2> QED BY <2>2, <2>3
<1>3. CASE atom.on = "or"
  <2>1. new = OrAtom(ix, acc, atom)
    BY <1>3, Zenon DEF CompileNode
  <2> HIDE DEF new
  <2>2. /\ new \in Compiling(ix) /\ ~new.all
        /\ new.lo = acc.lo /\ new.hi = acc.hi
        /\ IsInjective(atom.names) => Once(new)
        /\ \A k \in DOMAIN ix.recs :
             k \in DOMAIN new.ids <=>
                 \/ ~acc.all /\ k \in DOMAIN acc.ids
                 \/ ix.recs[k].sym \in Range(atom.names)
    BY <1>1, <1>3, <2>1, OrAtomIs DEF InOrderIndex
  <2>3. \A row : Holds(row, atom) <=> row.sym \in Range(atom.names)
    BY <1>3, Zenon DEF Holds
  <2> QED BY <1>3, <2>2, <2>3 DEF Passes, Lets, Exactly, new
<1>4. CASE atom.on = "time"
  <2>1. new = TimeAtom(ix, acc, atom)
    BY <1>4, Zenon DEF CompileNode
  <2> HIDE DEF new
  <2>2. /\ new \in Compiling(ix) /\ new.all = acc.all /\ new.ids = acc.ids
        /\ \A p \in 0 .. Len(ix.axis) - 1 : TimeAt(ix, p) \in 0 .. WAxis \div 2 - 1 =>
             (p \in new.lo .. new.hi - 1 <=>
                /\ p \in acc.lo .. acc.hi - 1
                /\ atom.op = "Ne" \/ Compares(atom.op, 2 * TimeAt(ix, p), atom.value.half))
    BY <1>1, <1>4, <2>1, TimeAtomIs DEF InOrderIndex
  <2>3. \A row : Holds(row, atom) <=> Compares(atom.op, 2 * row.time, atom.value.half)
    BY <1>4, Zenon DEF Holds
  <2> QED BY <1>4, <2>2, <2>3 DEF Passes, Lets, Exactly, Once, new
<1>5. CASE atom.on = "opaque"
  <2>1. new = acc
    BY <1>5, Zenon DEF CompileNode
  <2> HIDE DEF new
  <2> QED BY <1>5, <2>1 DEF Exactly, new
<1> QED BY <1>1, <1>2, <1>3, <1>4, <1>5

----------------------------------------------------------------------------
(* compile_predicate as a loop: one step for each atom.                    *)
Whole(ix) == [all |-> TRUE, ids |-> NoIds, lo |-> 0, hi |-> Len(ix.axis)]

(* What the fold is made of: a function on the sets of atoms still to do.  *)
Compiles(ix, pred, f, S) ==
    f = [s \in SUBSET S |-> IF s = {} THEN Whole(ix)
                            ELSE CompileNode(ix, f[s \ {Max(s)}], pred[Max(s)])]

(* What is compiled is the end of the fold over the conditions.            *)
LEMMA CompiledIsFold ==
    ASSUME NEW ix, NEW pred
    PROVE  LET end == (CHOOSE f : Compiles(ix, pred, f, DOMAIN pred))[DOMAIN pred]
           IN  Compiled(ix, pred) = end
<1> DEFINE end == FoldLeft(LAMBDA acc, atom : CompileNode(ix, acc, atom), Whole(ix), pred)
<1>1. end = (CHOOSE f : Compiles(ix, pred, f, DOMAIN pred))[DOMAIN pred]
  BY Zenon DEF FoldLeft, MapThenFoldSet, Compiles
<1>2. Compiled(ix, pred) = end
  BY DEF Compiled, Whole
<1> QED BY <1>1, <1>2, Zenon

(* There is such a function, however many atoms there are.                 *)
LEMMA CompilingExists ==
    ASSUME NEW ix, NEW pred, NEW n \in Nat
    PROVE  \E f : Compiles(ix, pred, f, 1 .. n)
<1> DEFINE Bad == {m \in Nat : ~\E f : Compiles(ix, pred, f, 1 .. m)}
<1>1. ASSUME Bad # {} PROVE FALSE
  <2>1. Bad \in SUBSET Nat
    OBVIOUS
  <2> HIDE DEF Bad
  <2>2. PICK m \in Bad : \A k \in Bad : m <= k
    BY <1>1, <2>1, LeastNatural
  <2>3. m \in Nat /\ ~\E f : Compiles(ix, pred, f, 1 .. m)
    BY DEF Bad
  <2>4. CASE m = 0
    <3> DEFINE f == [s \in SUBSET {} |-> Whole(ix)]
    <3>1. 1 .. m = {}
      BY <2>4
    <3>2. f = [s \in SUBSET {} |->
                  IF s = {} THEN Whole(ix) ELSE CompileNode(ix, f[s \ {Max(s)}], pred[Max(s)])]
      BY Zenon
    <3>3. Compiles(ix, pred, f, 1 .. m)
      BY <3>1, <3>2 DEF Compiles
    <3> QED BY <2>3, <3>3
  <2>5. CASE m > 0
    <3>1. m - 1 \in Nat /\ m - 1 < m
      BY <2>3, <2>5
    <3>2. PICK f : Compiles(ix, pred, f, 1 .. m - 1)
      BY <2>2, <2>3, <3>1 DEF Bad
    <3>3. \A s \in SUBSET (1 .. m - 1) :
            f[s] = IF s = {} THEN Whole(ix)
                   ELSE CompileNode(ix, f[s \ {Max(s)}], pred[Max(s)])
      BY <3>2 DEF Compiles
    <3> DEFINE g == [s \in SUBSET (1 .. m) |->
                        IF m \in s THEN CompileNode(ix, f[s \ {m}], pred[m]) ELSE f[s]]
    <3>4. \A s \in SUBSET (1 .. m) : m \notin s => g[s] = f[s] /\ s \in SUBSET (1 .. m - 1)
      BY <2>3
    <3>5. ASSUME NEW s \in SUBSET (1 .. m)
          PROVE  g[s] = IF s = {} THEN Whole(ix)
                        ELSE CompileNode(ix, g[s \ {Max(s)}], pred[Max(s)])
      <4>1. s \ {Max(s)} \in SUBSET (1 .. m)
        OBVIOUS
      <4>2. CASE m \in s
        <5>1. Max(s) = m
          BY <2>3, <4>2, MaxOfPrefix
        <5>2. g[s] = CompileNode(ix, f[s \ {m}], pred[m])
          BY <4>2
        <5>3. g[s \ {m}] = f[s \ {m}]
          BY <3>4
        <5> HIDE DEF g
        <5> QED BY <4>2, <5>1, <5>2, <5>3
      <4>3. CASE m \notin s
        <5>1. g[s] = f[s] /\ s \in SUBSET (1 .. m - 1)
          BY <3>4, <4>3
        <5>2. g[s \ {Max(s)}] = f[s \ {Max(s)}]
          BY <3>4, <4>1, <4>3
        <5> HIDE DEF g
        <5> QED BY <3>3, <5>1, <5>2
      <4> QED BY <4>2, <4>3
    <3>6. g = [s \in SUBSET (1 .. m) |-> g[s]]
      BY Zenon
    <3> HIDE DEF g
    <3>7. Compiles(ix, pred, g, 1 .. m)
      BY <3>5, <3>6, Zenon DEF Compiles
    <3> QED BY <2>3, <3>7
  <2> QED BY <2>3, <2>4, <2>5
<1> QED BY <1>1

(* So compile_predicate goes through states, one for each atom.         *)
LEMMA CompiledSteps ==
    ASSUME NEW ix, NEW pred \in Seq(Atom)
    PROVE  \E st : /\ st[0] = Whole(ix)
                   /\ \A n \in 1 .. Len(pred) : st[n] = CompileNode(ix, st[n - 1], pred[n])
                   /\ Compiled(ix, pred) = st[Len(pred)]
<1>1. Len(pred) \in Nat /\ DOMAIN pred = 1 .. Len(pred)
  BY LenProperties
<1> DEFINE L == Len(pred)
           it == CHOOSE f : Compiles(ix, pred, f, 1 .. L)
           st == [n \in 0 .. L |-> it[1 .. n]]
<1>2. Compiles(ix, pred, it, 1 .. L)
  BY <1>1, CompilingExists
<1>3. \A s \in SUBSET (1 .. L) :
         it[s] = IF s = {} THEN Whole(ix) ELSE CompileNode(ix, it[s \ {Max(s)}], pred[Max(s)])
  <2> HIDE DEF it
  <2> QED BY <1>2 DEF Compiles
<1>4. Compiled(ix, pred) = it[1 .. L]
  <2> DEFINE e(S) == (CHOOSE f : Compiles(ix, pred, f, S))[S]
  <2>1. Compiled(ix, pred) = e(DOMAIN pred)
    BY CompiledIsFold
  <2>2. e(DOMAIN pred) = it[1 .. L]
    BY <1>1
  <2> HIDE DEF e
  <2> QED BY <2>1, <2>2
<1> HIDE DEF it, L
<1>5. L \in Nat
  BY <1>1 DEF L
<1>6. st[0] = Whole(ix)
  <2>1. 1 .. 0 = {} /\ {} \in SUBSET (1 .. L) /\ 0 \in 0 .. L
    BY <1>5
  <2> QED BY <1>3, <2>1
<1>7. ASSUME NEW n \in 1 .. L PROVE st[n] = CompileNode(ix, st[n - 1], pred[n])
  <2>1. /\ n \in 0 .. L /\ n - 1 \in 0 .. L /\ n \in Nat /\ n \in 1 .. n
        /\ 1 .. n \in SUBSET (1 .. L) /\ (1 .. n) \ {n} = 1 .. n - 1
    BY <1>5
  <2>2. Max(1 .. n) = n
    BY <2>1, MaxOfPrefix
  <2>3. it[1 .. n] = CompileNode(ix, it[1 .. n - 1], pred[n])
    BY <1>3, <2>1, <2>2
  <2> QED BY <2>1, <2>3
<1>8. Compiled(ix, pred) = st[L]
  <2>1. st[L] = it[1 .. L]
    BY <1>5
  <2> QED BY <1>4, <2>1
<1> QED BY <1>6, <1>7, <1>8 DEF L

(* The compiled predicate lets every row through that it holds of and, if  *)
(* it is one the index can decide, no other.                               *)
RowIs(ix, k, p, row) ==
    /\ row.sym = ix.recs[k].sym /\ row.time = TimeAt(ix, p)
    /\ TimeAt(ix, p) \in 0 .. WAxis \div 2 - 1

Compiled_n(ix, pred, n, acc) ==
    /\ acc \in Compiling(ix)
    /\ NamedOnce(pred) => Once(acc)
    /\ (\A a \in 1 .. n : pred[a].on \notin {"sym", "or"}) => acc.all
    /\ \A k \in DOMAIN ix.recs, p \in 0 .. Len(ix.axis) - 1 : \A row : RowIs(ix, k, p, row) =>
         /\ (\A a \in 1 .. n : Holds(row, pred[a])) => Passes(acc, k, p)
         /\ Decidable(pred) /\ Passes(acc, k, p) => \A a \in 1 .. n : Holds(row, pred[a])

(* No condition compiles to everything.                                    *)
LEMMA WholeCompiles ==
    ASSUME NEW ix, InOrderIndex(ix), NEW pred
    PROVE  Compiled_n(ix, pred, 0, Whole(ix))
<1> DEFINE acc == Whole(ix)
<1>1. Len(ix.axis) \in Nat
  BY LenProperties DEF InOrderIndex, AxisAscends
<1>2. acc.all /\ acc.lo = 0 /\ acc.hi = Len(ix.axis) /\ acc.ids = [i \in {} |-> 1]
  BY DEF Whole, NoIds
<1>3. acc \in Compiling(ix)
  <2>1. [i \in {} |-> 1] \in [{} -> Nat \ {0}] /\ {} \in SUBSET (DOMAIN ix.recs)
    OBVIOUS
  <2>2. NoIds \in UNION {[S -> Nat \ {0}] : S \in SUBSET (DOMAIN ix.recs)}
    BY <2>1, Zenon DEF NoIds
  <2> QED BY <1>1, <2>2 DEF Whole, Compiling
<1> HIDE DEF acc
<1>4. Once(acc)
  BY <1>2 DEF Once
<1>5. \A k \in DOMAIN ix.recs, p \in 0 .. Len(ix.axis) - 1 : Passes(acc, k, p)
  BY <1>2 DEF Passes, Lets
<1> QED BY <1>2, <1>3, <1>4, <1>5 DEF Compiled_n, acc

(* One more condition narrows it by what that condition says.              *)
LEMMA NodeCompiles ==
    ASSUME NEW ix, InOrderIndex(ix), NEW pred \in Seq(Atom), Plain(pred),
           NEW n \in Nat, n + 1 \in DOMAIN pred, NEW acc, Compiled_n(ix, pred, n, acc)
    PROVE  Compiled_n(ix, pred, n + 1, CompileNode(ix, acc, pred[n + 1]))
<1> DEFINE atom == pred[n + 1]
           new == CompileNode(ix, acc, pred[n + 1])
<1>1. /\ DOMAIN pred = 1 .. Len(pred) /\ Len(pred) \in Nat
      /\ atom \in Atom
      /\ atom.on = "time" => OnAxis(atom.value)
  <2>1. DOMAIN pred = 1 .. Len(pred) /\ Len(pred) \in Nat
    BY LenProperties
  <2>2. atom \in Atom
    BY <2>1, ElementOfSeq
  <2> QED BY <2>1, <2>2 DEF Plain
<1>2. acc \in Compiling(ix)
  BY DEF Compiled_n
<1>3. /\ new \in Compiling(ix)
      /\ atom.on \in {"time", "opaque"} => (new.all <=> acc.all)
      /\ Once(acc) /\ (atom.on = "or" => IsInjective(atom.names)) => Once(new)
      /\ \A k \in DOMAIN ix.recs, p \in 0 .. Len(ix.axis) - 1 : \A row :
           /\ row.sym = ix.recs[k].sym /\ row.time = TimeAt(ix, p)
           /\ TimeAt(ix, p) \in 0 .. WAxis \div 2 - 1
           => /\ Passes(acc, k, p) /\ Holds(row, atom) => Passes(new, k, p)
              /\ Exactly(acc, atom) /\ Passes(new, k, p)
                    => Passes(acc, k, p) /\ Holds(row, atom)
  BY <1>1, <1>2, NodeIs
<1>4. \A a : a \in 1 .. n + 1 <=> a \in 1 .. n \/ a = n + 1
  OBVIOUS
<1>5. \A a \in 1 .. n + 1 : a \in DOMAIN pred
  BY <1>1
<1>6. atom.on \in {"sym", "time", "or", "opaque"}
  BY <1>1, AtomParts
<1>7. Decidable(pred) => Exactly(acc, atom)
  <2> SUFFICES ASSUME Decidable(pred) PROVE Exactly(acc, atom)
    OBVIOUS
  <2>1. /\ atom.on # "opaque"
        /\ atom.on \in {"sym", "time"} => atom.op # "Ne"
        /\ atom.on = "sym" => atom.op = "Eq"
    BY DEF Decidable
  <2>2. ASSUME atom.on = "or", NEW a \in 1 .. n PROVE pred[a].on \notin {"sym", "or"}
    <3>1. a \in DOMAIN pred /\ a # n + 1 /\ n + 1 \in DOMAIN pred
      BY <1>1, <1>4, <1>5
    <3>2. \/ {atom.on, pred[a].on} \cap {"sym", "or"} = {}
          \/ "time" \in {atom.on, pred[a].on}
      BY <3>1 DEF Decidable
    <3> QED BY <2>2, <3>2
  <2>3. atom.on = "or" => acc.all
    BY <2>2 DEF Compiled_n
  <2> QED BY <2>1, <2>3 DEF Exactly
<1>8. NamedOnce(pred) => (atom.on = "or" => IsInjective(atom.names))
  BY DEF NamedOnce
<1> HIDE DEF atom, new
<1>9. NamedOnce(pred) => Once(new)
  BY <1>3, <1>8 DEF Compiled_n
<1>10. (\A a \in 1 .. n + 1 : pred[a].on \notin {"sym", "or"}) => new.all
  <2> SUFFICES ASSUME \A a \in 1 .. n + 1 : pred[a].on \notin {"sym", "or"} PROVE new.all
    OBVIOUS
  <2>1. acc.all
    BY <1>4 DEF Compiled_n
  <2>2. atom.on \notin {"sym", "or"}
    BY <1>4 DEF atom
  <2> QED BY <1>3, <1>6, <2>1, <2>2
<1>11. ASSUME NEW k \in DOMAIN ix.recs, NEW p \in 0 .. Len(ix.axis) - 1, NEW row,
              RowIs(ix, k, p, row)
       PROVE  /\ (\A a \in 1 .. n + 1 : Holds(row, pred[a])) => Passes(new, k, p)
              /\ Decidable(pred) /\ Passes(new, k, p)
                    => \A a \in 1 .. n + 1 : Holds(row, pred[a])
  <2>1. /\ (\A a \in 1 .. n : Holds(row, pred[a])) => Passes(acc, k, p)
        /\ Decidable(pred) /\ Passes(acc, k, p) => \A a \in 1 .. n : Holds(row, pred[a])
    BY <1>11 DEF Compiled_n
  <2>2. /\ Passes(acc, k, p) /\ Holds(row, atom) => Passes(new, k, p)
        /\ Exactly(acc, atom) /\ Passes(new, k, p) => Passes(acc, k, p) /\ Holds(row, atom)
    BY <1>3, <1>11 DEF RowIs
  <2> QED BY <1>4, <1>7, <2>1, <2>2 DEF atom
<1> QED BY <1>3, <1>9, <1>10, <1>11 DEF Compiled_n, new

(* So all conditions compile to what they say together.                    *)
LEMMA CompiledIs ==
    ASSUME NEW ix, InOrderIndex(ix), NEW pred \in Seq(Atom), Plain(pred)
    PROVE  Compiled_n(ix, pred, Len(pred), Compiled(ix, pred))
<1>1. Len(pred) \in Nat /\ DOMAIN pred = 1 .. Len(pred)
  BY LenProperties
<1>2. PICK st : /\ st[0] = Whole(ix)
                /\ \A n \in 1 .. Len(pred) : st[n] = CompileNode(ix, st[n - 1], pred[n])
                /\ Compiled(ix, pred) = st[Len(pred)]
  BY CompiledSteps
<1> DEFINE T == {n \in 0 .. Len(pred) : ~Compiled_n(ix, pred, n, st[n])}
<1>3. ASSUME T # {} PROVE FALSE
  <2>1. PICK n \in T : \A m \in T : n <= m
    <3>1. T \in SUBSET Nat
      OBVIOUS
    <3> HIDE DEF T
    <3> QED BY <1>3, <3>1, LeastNatural
  <2>2. n # 0
    BY <1>2, <2>1, WholeCompiles
  <2>3. /\ n \in 1 .. Len(pred) /\ n - 1 \in Nat /\ n - 1 \in 0 .. Len(pred)
        /\ (n - 1) + 1 = n /\ n - 1 < n
    BY <1>1, <2>1, <2>2
  <2>4. Compiled_n(ix, pred, n - 1, st[n - 1])
    BY <2>1, <2>3
  <2>5. Compiled_n(ix, pred, (n - 1) + 1, CompileNode(ix, st[n - 1], pred[(n - 1) + 1]))
    BY <1>1, <2>3, <2>4, NodeCompiles
  <2>6. Compiled_n(ix, pred, n, st[n])
    BY <1>2, <2>3, <2>5
  <2> QED BY <2>1, <2>6
<1>4. Len(pred) \in 0 .. Len(pred) /\ Len(pred) \notin T
  <2> HIDE DEF T
  <2> QED BY <1>1, <1>3
<1> QED BY <1>2, <1>4

----------------------------------------------------------------------------
(* Rows and their places: record k, axis position p.                       *)
Place(ix, k, p, r) ==
    /\ k \in DOMAIN ix.recs
    /\ p \in ix.recs[k].time_start .. ix.recs[k].time_start + ix.recs[k].time_count - 1
    /\ r = ix.recs[k].row_start + (p - ix.recs[k].time_start)

(* The rows of a record in a window are those at a place within it.        *)
LEMMA WindowIs ==
    ASSUME NEW ix, ix.recs \in Seq(RowRecord), NEW k \in DOMAIN ix.recs,
           NEW lo \in Int, NEW hi \in Int, NEW r
    PROVE  r \in Window(ix.recs[k], lo, hi) <=> \E p \in lo .. hi - 1 : Place(ix, k, p, r)
<1>1. /\ ix.recs[k].row_start \in Nat /\ ix.recs[k].time_start \in Nat
      /\ ix.recs[k].time_count \in Nat
  BY RecordParts
<1> DEFINE rs == ix.recs[k].row_start
           ts == ix.recs[k].time_start
           tc == ix.recs[k].time_count
<1> HIDE DEF rs, ts, tc
<1>2. \A p : p \in Greatest(lo, ts) .. Least(hi, ts + tc) - 1
               <=> p \in lo .. hi - 1 /\ p \in ts .. ts + tc - 1
  <2>1. ts \in Nat /\ tc \in Nat
    BY <1>1 DEF ts, tc
  <2>2. Greatest(lo, ts) \in Int /\ \A p \in Int : Greatest(lo, ts) <= p <=> lo <= p /\ ts <= p
    BY <2>1 DEF Greatest
  <2>3. /\ Least(hi, ts + tc) \in Int
        /\ \A p \in Int : p <= Least(hi, ts + tc) - 1 <=> p <= hi - 1 /\ p <= ts + tc - 1
    BY <2>1 DEF Least
  <2> QED BY <2>1, <2>2, <2>3
<1>3. r \in Window(ix.recs[k], lo, hi)
        <=> \E p \in Greatest(lo, ts) .. Least(hi, ts + tc) - 1 : r = rs + (p - ts)
  BY DEF Window, rs, ts, tc
<1> QED BY <1>2, <1>3 DEF Place, rs, ts, tc

(* An exact index is in order.                                             *)
LEMMA InOrderIs ==
    ASSUME NEW ix, NEW in, Tiles(ix, in), Exact(ix, in)
    PROVE  InOrderIndex(ix)
BY DEF Tiles, Exact, InOrderIndex, SymsAscend, AxisAscends

(* Every place is on the axis and is that of a row, and no row has two.    *)
LEMMA PlacesOnAxis ==
    ASSUME NEW ix, NEW in \in Seq(InputRow), Tiles(ix, in), NEW k, NEW p, NEW r, Place(ix, k, p, r)
    PROVE  p \in 0 .. Len(ix.axis) - 1 /\ r \in 0 .. Len(in) - 1
<1>1. /\ k \in DOMAIN ix.recs /\ ix.recs \in Seq(RowRecord)
      /\ p \in ix.recs[k].time_start .. ix.recs[k].time_start + ix.recs[k].time_count - 1
      /\ r = ix.recs[k].row_start + (p - ix.recs[k].time_start)
      /\ ix.recs[k].time_start + ix.recs[k].time_count <= Len(ix.axis)
      /\ ix.recs[k].row_start + ix.recs[k].time_count <= Len(in)
  BY DEF Place, Tiles
<1>2. /\ ix.recs[k].row_start \in Nat /\ ix.recs[k].time_start \in Nat
      /\ ix.recs[k].time_count \in Nat
  BY <1>1, RecordParts
<1>3. Len(in) \in Nat /\ Len(ix.axis) \in Nat
  BY LenProperties DEF Tiles
<1> DEFINE rs == ix.recs[k].row_start
           ts == ix.recs[k].time_start
           tc == ix.recs[k].time_count
<1>4. /\ rs \in Nat /\ ts \in Nat /\ tc \in Nat
      /\ p \in ts .. ts + tc - 1 /\ r = rs + (p - ts)
      /\ ts + tc <= Len(ix.axis) /\ rs + tc <= Len(in)
  BY <1>1, <1>2
<1> HIDE DEF rs, ts, tc
<1> QED BY <1>3, <1>4

(* A row is at one place only.                                             *)
LEMMA OnePlace ==
    ASSUME NEW ix, NEW in, Tiles(ix, in), NEW k, NEW p, NEW l, NEW q, NEW r,
           Place(ix, k, p, r), Place(ix, l, q, r)
    PROVE  k = l /\ p = q
<1>1. /\ k \in DOMAIN ix.recs /\ l \in DOMAIN ix.recs /\ ix.recs \in Seq(RowRecord)
      /\ p \in ix.recs[k].time_start .. ix.recs[k].time_start + ix.recs[k].time_count - 1
      /\ q \in ix.recs[l].time_start .. ix.recs[l].time_start + ix.recs[l].time_count - 1
      /\ r = ix.recs[k].row_start + (p - ix.recs[k].time_start)
      /\ r = ix.recs[l].row_start + (q - ix.recs[l].time_start)
  BY DEF Place, Tiles
<1>2. /\ Len(ix.recs) \in Nat /\ DOMAIN ix.recs = 1 .. Len(ix.recs)
      /\ \A j \in 1 .. Len(ix.recs) :
           /\ ix.recs[j].row_start \in Nat /\ ix.recs[j].time_start \in Nat
           /\ ix.recs[j].time_count \in Nat
  BY <1>1, RecordParts
<1>3. \A i, j \in DOMAIN ix.recs :
        i < j => ix.recs[i].row_start + ix.recs[i].time_count <= ix.recs[j].row_start
  BY DEF Tiles
<1>4. k \in Nat /\ l \in Nat
  <2>1. \A j \in 1 .. Len(ix.recs) : j \in Nat
    BY <1>2
  <2> QED BY <1>1, <1>2, <2>1
<1>5. ~(k < l) /\ ~(l < k)
  <2> DEFINE rs(j) == ix.recs[j].row_start
             ts(j) == ix.recs[j].time_start
             tc(j) == ix.recs[j].time_count
  <2>1. /\ rs(k) \in Nat /\ ts(k) \in Nat /\ tc(k) \in Nat
        /\ rs(l) \in Nat /\ ts(l) \in Nat /\ tc(l) \in Nat
    BY <1>1, <1>2
  <2>2. /\ k < l => rs(k) + tc(k) <= rs(l)
        /\ l < k => rs(l) + tc(l) <= rs(k)
    BY <1>1, <1>3
  <2>3. /\ p \in ts(k) .. ts(k) + tc(k) - 1 /\ r = rs(k) + (p - ts(k))
        /\ q \in ts(l) .. ts(l) + tc(l) - 1 /\ r = rs(l) + (q - ts(l))
    BY <1>1
  <2> HIDE DEF rs, ts, tc
  <2>4. rs(k) <= r /\ r < rs(k) + tc(k) /\ r \in Int
    BY <2>1, <2>3
  <2>5. rs(l) <= r /\ r < rs(l) + tc(l)
    BY <2>1, <2>3
  <2> QED BY <2>1, <2>2, <2>4, <2>5
<1>6. k = l
  BY <1>4, <1>5
<1>7. p = q
  <2> DEFINE rs == ix.recs[k].row_start
             ts == ix.recs[k].time_start
             tc == ix.recs[k].time_count
  <2>1. rs \in Nat /\ ts \in Nat /\ tc \in Nat
    BY <1>1, <1>2
  <2>2. /\ p \in ts .. ts + tc - 1 /\ r = rs + (p - ts)
        /\ q \in ts .. ts + tc - 1 /\ r = rs + (q - ts)
    BY <1>1, <1>6
  <2> HIDE DEF rs, ts, tc
  <2>3. p \in Int /\ q \in Int
    BY <2>1, <2>2
  <2> QED BY <2>1, <2>2, <2>3
<1> QED BY <1>6, <1>7

(* Every row of an input in order has one, with its sym and time.          *)
LEMMA RowHasPlace ==
    ASSUME NEW ix, NEW in \in Seq(InputRow), InOrder(in), Tiles(ix, in), Exact(ix, in),
           NEW n \in 1 .. Len(in)
    PROVE  \E k, p : Place(ix, k, p, n - 1) /\ RowIs(ix, k, p, in[n])
<1>1. PICK c \in DOMAIN ix.recs : \E d \in 0 .. ix.recs[c].time_count - 1 : At(ix, c, d, n, in)
  BY DEF Exact
<1>6. PICK d \in 0 .. ix.recs[c].time_count - 1 : At(ix, c, d, n, in)
  BY <1>1
<1>2. /\ ix.recs[c].row_start \in Nat /\ ix.recs[c].time_start \in Nat
      /\ ix.recs[c].time_count \in Nat
  BY RecordParts DEF Tiles
<1>3. in[n].time \in 0 .. WAxis \div 2 - 1
  <2>1. n \in DOMAIN in
    BY InputParts
  <2> QED BY <2>1 DEF InOrder
<1>4. Place(ix, c, ix.recs[c].time_start + d, n - 1)
  <2> DEFINE rs == ix.recs[c].row_start
             ts == ix.recs[c].time_start
             tc == ix.recs[c].time_count
  <2>1. rs \in Nat /\ ts \in Nat /\ tc \in Nat /\ d \in 0 .. tc - 1
    BY <1>2
  <2>2. rs + d = n - 1
    BY <1>6 DEF At
  <2> HIDE DEF rs, ts, tc
  <2>3. ts + d \in ts .. ts + tc - 1 /\ n - 1 = rs + ((ts + d) - ts)
    BY <2>1, <2>2
  <2> QED BY <2>3 DEF Place, rs, ts, tc
<1>5. RowIs(ix, c, ix.recs[c].time_start + d, in[n])
  BY <1>3, <1>6 DEF At, RowIs
<1> QED BY <1>4, <1>5

----------------------------------------------------------------------------
(* The rows a compiled predicate lets through.                             *)
Through(ix, c) ==
    UNION {Window(ix.recs[k], c.lo, c.hi) : k \in {j \in DOMAIN ix.recs : Lets(c, j)}}

MatchingIn(in, pred) ==
    {i - 1 : i \in {n \in DOMAIN in : \A a \in DOMAIN pred : Holds(in[n], pred[a])}}

(* A row comes through where its place passes.                             *)
LEMMA ThroughIs ==
    ASSUME NEW ix, ix.recs \in Seq(RowRecord), NEW c \in Compiling(ix), NEW r
    PROVE  r \in Through(ix, c) <=> \E k, p : Place(ix, k, p, r) /\ Passes(c, k, p)
<1>1. c.lo \in Int /\ c.hi \in Int
  BY CompilingParts
<1>2. r \in Through(ix, c)
        <=> \E k \in DOMAIN ix.recs : Lets(c, k) /\ r \in Window(ix.recs[k], c.lo, c.hi)
  BY DEF Through
<1>3. \A k \in DOMAIN ix.recs :
        r \in Window(ix.recs[k], c.lo, c.hi) <=> \E p \in c.lo .. c.hi - 1 : Place(ix, k, p, r)
  BY <1>1, WindowIs
<1>4. \A k, p : Place(ix, k, p, r) => k \in DOMAIN ix.recs
  BY DEF Place
<1> QED BY <1>2, <1>3, <1>4 DEF Passes

(* The rows that come through are of the table, and include all that       *)
(* match.                                                                  *)
LEMMA ThroughMatches ==
    ASSUME NEW ix, NEW in \in Seq(InputRow), InOrder(in), Tiles(ix, in), Exact(ix, in),
           NEW pred \in Seq(Atom), Plain(pred)
    PROVE  LET c == Compiled(ix, pred)
           IN  /\ c \in Compiling(ix)
               /\ NamedOnce(pred) => Once(c)
               /\ Through(ix, c) \subseteq 0 .. Len(in) - 1
               /\ MatchingIn(in, pred) \subseteq Through(ix, c)
               /\ Decidable(pred) => Through(ix, c) = MatchingIn(in, pred)
<1> DEFINE c == Compiled(ix, pred)
<1>1. InOrderIndex(ix) /\ ix.recs \in Seq(RowRecord)
  BY InOrderIs DEF Tiles
<1>2. Compiled_n(ix, pred, Len(pred), c)
  BY <1>1, CompiledIs
<1>3. DOMAIN pred = 1 .. Len(pred) /\ DOMAIN in = 1 .. Len(in) /\ Len(in) \in Nat
  BY LenProperties
<1> HIDE DEF c
<1>4. c \in Compiling(ix) /\ (NamedOnce(pred) => Once(c))
  BY <1>2 DEF Compiled_n
<1>5. \A r : r \in Through(ix, c) <=> \E k, p : Place(ix, k, p, r) /\ Passes(c, k, p)
  BY <1>1, <1>4, ThroughIs
<1>6. Through(ix, c) \subseteq 0 .. Len(in) - 1
  BY <1>5, PlacesOnAxis
<1>7. \A k, p, row : RowIs(ix, k, p, row) /\ k \in DOMAIN ix.recs /\ p \in 0 .. Len(ix.axis) - 1 =>
        /\ (\A a \in DOMAIN pred : Holds(row, pred[a])) => Passes(c, k, p)
        /\ Decidable(pred) /\ Passes(c, k, p) => \A a \in DOMAIN pred : Holds(row, pred[a])
  BY <1>2, <1>3 DEF Compiled_n
<1>8. ASSUME NEW n \in 1 .. Len(in)
      PROVE  /\ (\A a \in DOMAIN pred : Holds(in[n], pred[a])) => n - 1 \in Through(ix, c)
             /\ Decidable(pred) /\ n - 1 \in Through(ix, c) =>
                   \A a \in DOMAIN pred : Holds(in[n], pred[a])
  <2>1. PICK k, p : Place(ix, k, p, n - 1) /\ RowIs(ix, k, p, in[n])
    BY RowHasPlace
  <2>2. k \in DOMAIN ix.recs /\ p \in 0 .. Len(ix.axis) - 1
    BY <2>1, PlacesOnAxis DEF Place
  <2>3. n - 1 \in Through(ix, c) <=> Passes(c, k, p)
    BY <1>5, <2>1, OnePlace
  <2> QED BY <1>7, <2>1, <2>2, <2>3
<1>9. MatchingIn(in, pred) \subseteq Through(ix, c)
  BY <1>3, <1>8 DEF MatchingIn
<1>10. ASSUME Decidable(pred), NEW r \in Through(ix, c) PROVE r \in MatchingIn(in, pred)
  <2>1. r + 1 \in 1 .. Len(in) /\ (r + 1) - 1 = r
    BY <1>3, <1>6
  <2> QED BY <1>3, <1>8, <1>10, <2>1 DEF MatchingIn
<1> QED BY <1>4, <1>6, <1>9, <1>10 DEF c

----------------------------------------------------------------------------
(* The rows produced under a limit.                                        *)

(* The rows of one record come before those of the next.                   *)
LEMMA PlacesInOrder ==
    ASSUME NEW ix, NEW in, Tiles(ix, in), NEW k, NEW p, NEW q, NEW l, NEW m, NEW r,
           Place(ix, k, p, q), Place(ix, l, m, r), k < l
    PROVE  q < r
<1>1. /\ k \in DOMAIN ix.recs /\ l \in DOMAIN ix.recs /\ ix.recs \in Seq(RowRecord)
      /\ p \in ix.recs[k].time_start .. ix.recs[k].time_start + ix.recs[k].time_count - 1
      /\ m \in ix.recs[l].time_start .. ix.recs[l].time_start + ix.recs[l].time_count - 1
      /\ q = ix.recs[k].row_start + (p - ix.recs[k].time_start)
      /\ r = ix.recs[l].row_start + (m - ix.recs[l].time_start)
  BY DEF Place, Tiles
<1>2. /\ DOMAIN ix.recs = 1 .. Len(ix.recs)
      /\ \A j \in 1 .. Len(ix.recs) :
           /\ ix.recs[j].row_start \in Nat /\ ix.recs[j].time_start \in Nat
           /\ ix.recs[j].time_count \in Nat
  BY <1>1, RecordParts
<1>3. ix.recs[k].row_start + ix.recs[k].time_count <= ix.recs[l].row_start
  BY <1>1 DEF Tiles
<1> DEFINE rs(j) == ix.recs[j].row_start
           ts(j) == ix.recs[j].time_start
           tc(j) == ix.recs[j].time_count
<1>4. /\ rs(k) \in Nat /\ ts(k) \in Nat /\ tc(k) \in Nat
      /\ rs(l) \in Nat /\ ts(l) \in Nat /\ tc(l) \in Nat
      /\ rs(k) + tc(k) <= rs(l)
      /\ p \in ts(k) .. ts(k) + tc(k) - 1 /\ q = rs(k) + (p - ts(k))
      /\ m \in ts(l) .. ts(l) + tc(l) - 1 /\ r = rs(l) + (m - ts(l))
  BY <1>1, <1>2, <1>3
<1> HIDE DEF rs, ts, tc
<1>5. q < rs(k) + tc(k) /\ rs(l) <= r /\ q \in Int /\ r \in Int
  BY <1>4
<1> QED BY <1>4, <1>5

Allowed(ix, c) == {j \in DOMAIN ix.recs : Lets(c, j)}
Listed(c, i) == IF c.all THEN 1 ELSE c.ids[i]
Before(ix, c, i) ==
    UNION {Window(ix.recs[e], c.lo, c.hi) \X (1 .. Listed(c, e)) :
              e \in {j \in Allowed(ix, c) : j < i}}
Prior(ix, c, i) ==
    UNION {Window(ix.recs[e], c.lo, c.hi) : e \in {j \in Allowed(ix, c) : j < i}}

(* What a limited scan produces: the windows of the ids it gets to.        *)
LEMMA ProducedIs ==
    ASSUME NEW ix, NEW c \in Compiling(ix), NEW limit
    PROVE  Produced(ix, c, limit) =
             UNION {Window(ix.recs[i], c.lo, c.hi) :
               i \in {j \in Allowed(ix, c) : limit # None => Cardinality(Before(ix, c, j)) < limit}}
<1> DEFINE ids == IF c.all THEN DOMAIN ix.recs ELSE DOMAIN c.ids
           before(i) == UNION {Window(ix.recs[e], c.lo, c.hi) \X (1 .. Listed(c, e)) :
                                  e \in {j \in ids : j < i}}
<1>1. ids = Allowed(ix, c)
  <2>1. DOMAIN c.ids \in SUBSET (DOMAIN ix.recs)
    BY CompilingParts
  <2> QED BY <2>1 DEF Allowed, Lets
<1>2. Produced(ix, c, limit) =
        UNION {Window(ix.recs[i], c.lo, c.hi) :
          i \in {j \in ids : limit # None => Cardinality(before(j)) < limit}}
  BY Zenon DEF Produced, Listed
<1> HIDE DEF ids
<1>3. \A i : before(i) = Before(ix, c, i)
  BY <1>1, Zenon DEF Before
<1> QED BY <1>1, <1>2, <1>3, Zenon

(* Where every id is listed once, rows are counted.                        *)
LEMMA BeforeCounts ==
    ASSUME NEW ix, NEW c \in Compiling(ix), Once(c), NEW i,
           IsFiniteSet(Prior(ix, c, i))
    PROVE  Cardinality(Before(ix, c, i)) = Cardinality(Prior(ix, c, i))
<1>1. \A e \in Allowed(ix, c) : 1 .. Listed(c, e) = {1}
  <2>1. \A e \in Allowed(ix, c) : Listed(c, e) = 1
    BY DEF Allowed, Listed, Lets, Once
  <2>2. 1 .. 1 = {1}
    OBVIOUS
  <2> QED BY <2>1, <2>2
<1>2. Before(ix, c, i) = Prior(ix, c, i) \X {1}
  <2> DEFINE W(e) == Window(ix.recs[e], c.lo, c.hi)
             E == {j \in Allowed(ix, c) : j < i}
  <2>1. Before(ix, c, i) = UNION {W(e) \X {1} : e \in E}
    BY <1>1 DEF Before
  <2>2. Prior(ix, c, i) = UNION {W(e) : e \in E}
    BY DEF Prior
  <2> HIDE DEF W, E
  <2>3. UNION {W(e) \X {1} : e \in E} = (UNION {W(e) : e \in E}) \X {1}
    OBVIOUS
  <2> QED BY <2>1, <2>2, <2>3
<1>3. IsFiniteSet({1}) /\ Cardinality({1}) = 1
  BY FS_Singleton
<1>4. Cardinality(Prior(ix, c, i) \X {1}) = Cardinality(Prior(ix, c, i)) * Cardinality({1})
  BY <1>3, FS_Product
<1>5. Cardinality(Prior(ix, c, i)) \in Nat
  BY FS_CardinalityType
<1> QED BY <1>2, <1>3, <1>4, <1>5

(* Its lowest rows are the lowest of all that come through.                *)
LEMMA FirstProduced ==
    ASSUME NEW ix, NEW in \in Seq(InputRow), Tiles(ix, in), NEW c \in Compiling(ix), Once(c),
           NEW limit \in Nat, limit # None
    PROVE  Lowest(limit, Produced(ix, c, limit)) = Lowest(limit, Through(ix, c))
<1> DEFINE W(i) == Window(ix.recs[i], c.lo, c.hi)
           T == Through(ix, c)
           P == Produced(ix, c, limit)
           A == Allowed(ix, c)
           B(i) == Prior(ix, c, i)
           Under(S, r) == {q \in S : q < r}
<1>1. ix.recs \in Seq(RowRecord) /\ c.lo \in Int /\ c.hi \in Int /\ A \subseteq DOMAIN ix.recs
  BY CompilingParts DEF Tiles, Allowed
<1>2. T \subseteq 0 .. Len(in) - 1
  BY <1>1, ThroughIs, PlacesOnAxis
<1>3. IsFiniteSet(T)
  <2>1. IsFiniteSet(0 .. Len(in) - 1)
    BY FS_Interval, InputParts
  <2> QED BY <1>2, <2>1, FS_Subset
<1>4. /\ \A r : r \in T <=> \E i \in A : r \in W(i)
      /\ \A i, r : r \in B(i) <=> \E e \in A : e < i /\ r \in W(e)
  BY DEF Through, Allowed, Prior
<1>5. \A i : B(i) \in SUBSET T /\ IsFiniteSet(B(i))
  <2>1. \A i : B(i) \in SUBSET T
    BY <1>4
  <2> HIDE DEF T, B
  <2> QED BY <1>3, <2>1, FS_Subset
<1>6. \A r : r \in P <=> \E i \in A : r \in W(i) /\ Cardinality(B(i)) < limit
  <2>1. P = UNION {W(i) : i \in {j \in A : limit # None => Cardinality(Before(ix, c, j)) < limit}}
    BY ProducedIs
  <2>2. \A i : Cardinality(Before(ix, c, i)) = Cardinality(B(i))
    BY <1>5, BeforeCounts
  <2> HIDE DEF P, A, B, W
  <2> QED BY <2>1, <2>2
<1>7. \A i, j, q, r : i \in A /\ j \in A /\ q \in W(i) /\ r \in W(j) /\ i < j => q < r
  <2> SUFFICES ASSUME NEW i \in A, NEW j \in A, NEW q \in W(i), NEW r \in W(j), i < j
               PROVE  q < r
    OBVIOUS
  <2>1. /\ \E p \in c.lo .. c.hi - 1 : Place(ix, i, p, q)
        /\ \E p \in c.lo .. c.hi - 1 : Place(ix, j, p, r)
    BY <1>1, WindowIs
  <2> QED BY <2>1, PlacesInOrder
<1>8. A \subseteq Nat
  <2>1. DOMAIN ix.recs \subseteq Nat
    BY <1>1, RecordParts
  <2> QED BY <1>1, <2>1
<1> HIDE DEF W, T, P, A, B
<1>9. P \in SUBSET T
  BY <1>4, <1>6
<1>10. \A r : /\ Under(P, r) \in SUBSET Under(T, r)
              /\ IsFiniteSet(Under(T, r)) /\ IsFiniteSet(Under(P, r))
  <2>1. \A r : Under(P, r) \in SUBSET Under(T, r) /\ Under(T, r) \in SUBSET T
               /\ Under(P, r) \in SUBSET T
    BY <1>9
  <2> HIDE DEF Under
  <2> QED BY <1>3, <2>1, FS_Subset
<1>11. \A r : /\ Cardinality(Under(P, r)) \in Nat /\ Cardinality(Under(T, r)) \in Nat
              /\ Cardinality(Under(P, r)) <= Cardinality(Under(T, r))
  BY <1>10, FS_Subset, FS_CardinalityType
<1>12. ASSUME NEW r \in T, r \notin P PROVE ~(Cardinality(Under(T, r)) < limit)
  <2>1. PICK i \in A : r \in W(i)
    BY <1>4
  <2>2. ~(Cardinality(B(i)) < limit)
    BY <1>6, <1>12, <2>1
  <2>3. B(i) \in SUBSET Under(T, r)
    BY <1>4, <1>7, <2>1
  <2>4. /\ Cardinality(B(i)) \in Nat /\ Cardinality(Under(T, r)) \in Nat
        /\ Cardinality(B(i)) <= Cardinality(Under(T, r))
    <3> HIDE DEF Under
    <3> QED BY <1>5, <1>10, <2>3, FS_Subset, FS_CardinalityType
  <2> HIDE DEF Under
  <2> QED BY <2>2, <2>4
<1>13. ASSUME NEW r \in P, NEW q \in T, q < r PROVE q \in P
  <2>1. PICK i \in A : r \in W(i) /\ Cardinality(B(i)) < limit
    BY <1>6
  <2>2. PICK j \in A : q \in W(j)
    BY <1>4
  <2>3. ~(i < j)
    <3>1. i < j => r < q
      BY <1>7, <2>1, <2>2
    <3>2. q \in Int /\ r \in Int
      BY <1>2, <1>9, <1>13
    <3> QED BY <1>13, <3>1, <3>2
  <2>4. B(j) \in SUBSET B(i)
    <3>1. j <= i
      BY <1>8, <2>3
    <3>2. \A e \in A : e < j => e < i
      BY <1>8, <3>1
    <3> QED BY <1>4, <3>2
  <2>5. /\ Cardinality(B(j)) \in Nat /\ Cardinality(B(i)) \in Nat
        /\ Cardinality(B(j)) <= Cardinality(B(i))
    BY <1>5, <2>4, FS_Subset, FS_CardinalityType
  <2>6. Cardinality(B(j)) < limit
    BY <2>1, <2>5
  <2> QED BY <1>6, <2>2, <2>6
<1>14. ASSUME NEW r \in P PROVE Under(P, r) = Under(T, r)
  BY <1>9, <1>13
<1>15. Lowest(limit, P) = Lowest(limit, T)
  <2>1. \A S : Lowest(limit, S) = {r \in S : Cardinality(Under(S, r)) < limit}
    BY DEF Lowest
  <2> HIDE DEF Under
  <2> QED BY <1>9, <1>12, <1>14, <2>1
<1> QED BY <1>15 DEF P, T

(* A scan with a limit returns no more rows.                               *)
LEMMA LowestFew ==
    ASSUME NEW S \in SUBSET Int, IsFiniteSet(S), NEW n \in Nat
    PROVE  Cardinality(Lowest(n, S)) <= n
<1> DEFINE N == Cardinality(S)
           a == Ascending(S)
           m == Least(n, N)
<1>1. /\ N \in Nat /\ a \in [1 .. N -> S]
      /\ \A k \in 1 .. N : Cardinality({q \in S : q < a[k]}) = k - 1
      /\ \A j, k \in 1 .. N : j < k => a[j] < a[k]
      /\ \A x \in S : \E k \in 1 .. N : a[k] = x
  BY AscendingLists DEF Below
<1> HIDE DEF N, a
<1>6. \A k \in 1 .. N : a[k] \in S /\ a[k] \in Int
  BY <1>1
<1>2. m \in Nat /\ m <= n /\ m <= N /\ \A k \in 1 .. N : k - 1 < n <=> k \in 1 .. m
  BY <1>1 DEF Least
<1> HIDE DEF m
<1>3. Lowest(n, S) = {a[k] : k \in 1 .. m}
  <2>1. \A r \in S : r \in Lowest(n, S) <=> \E k \in 1 .. m : r = a[k]
    <3> SUFFICES ASSUME NEW r \in S PROVE r \in Lowest(n, S) <=> \E k \in 1 .. m : r = a[k]
      OBVIOUS
    <3>1. PICK k \in 1 .. N : a[k] = r
      BY <1>1
    <3>2. r \in Lowest(n, S) <=> k \in 1 .. m
      BY <1>1, <1>2, <3>1 DEF Lowest
    <3>3. \A j \in 1 .. m : a[j] = r => j = k
      <4> SUFFICES ASSUME NEW j \in 1 .. m, a[j] = r, j # k PROVE FALSE
        OBVIOUS
      <4>1. j \in 1 .. N /\ (j < k \/ k < j)
        BY <1>1, <1>2
      <4>2. a[j] \in Int /\ a[k] \in Int /\ (a[j] < a[k] \/ a[k] < a[j])
        BY <1>1, <1>6, <4>1
      <4> QED BY <3>1, <4>2
    <3> QED BY <3>1, <3>2, <3>3
  <2>2. \A k \in 1 .. m : a[k] \in S
    BY <1>1, <1>2
  <2> QED BY <2>1, <2>2 DEF Lowest
<1>4. CASE m = 0
  <2>1. Lowest(n, S) = {}
    BY <1>3, <1>4
  <2> QED BY <2>1, FS_EmptySet
<1>5. CASE m # 0
  <2>1. /\ 1 \in Nat /\ m \in Nat /\ 1 <= m
        /\ \A j \in 1 .. m : a[j] \in Int
        /\ \A j, k \in 1 .. m : j < k => a[j] < a[k]
    <3>1. m >= 1 /\ \A j \in 1 .. m : j \in 1 .. N
      BY <1>1, <1>2, <1>5
    <3> QED BY <1>1, <1>2, <1>6, <3>1
  <2>2. Cardinality({a[j] : j \in 1 .. m}) = m - 1 + 1
    BY <2>1, AscendingCount
  <2> QED BY <1>2, <1>3, <2>2
<1> QED BY <1>4, <1>5

(* scan_index_handle as a whole.                                           *)
LEMMA ScanMatches ==
    ASSUME NEW ix, NEW in \in Seq(InputRow), InOrder(in), Tiles(ix, in), Exact(ix, in),
           NEW req, req.pred \in Seq(Atom), Plain(req.pred),
           req.limit = None \/ req.limit \in Nat
    PROVE  LET all    == MatchingIn(in, req.pred)
               wanted == IF req.within = None THEN all ELSE all \cap req.within
               result == Scanned(ix, req)
           IN  /\ req.limit = None => wanted \subseteq result
               /\ Decidable(req.pred) =>
                    IF req.limit = None THEN result = wanted
                    ELSE /\ result \subseteq wanted
                         /\ Cardinality(result) <= req.limit
                         /\ req.within = None /\ NamedOnce(req.pred) =>
                               result = Lowest(req.limit, wanted)
<1> DEFINE M      == MatchingIn(in, req.pred)
           c      == Compiled(ix, req.pred)
           T      == Through(ix, c)
           P      == Produced(ix, c, req.limit)
           here   == IF req.within = None THEN P ELSE P \cap req.within
           wanted == IF req.within = None THEN M ELSE M \cap req.within
           result == Scanned(ix, req)
<1>1. /\ c \in Compiling(ix)
      /\ NamedOnce(req.pred) => Once(c)
      /\ T \subseteq 0 .. Len(in) - 1
      /\ M \subseteq T
      /\ Decidable(req.pred) => T = M
  BY ThroughMatches
<1>2. result = IF req.limit = None THEN here ELSE Lowest(req.limit, here)
  BY Zenon DEF Scanned
<1> HIDE DEF c, result, M
<1>3. P \subseteq T /\ (req.limit = None => P = T)
  <2>1. P = UNION {Window(ix.recs[i], c.lo, c.hi) :
              i \in {j \in Allowed(ix, c) :
                       req.limit # None => Cardinality(Before(ix, c, j)) < req.limit}}
    BY <1>1, ProducedIs
  <2>2. T = UNION {Window(ix.recs[i], c.lo, c.hi) : i \in Allowed(ix, c)}
    BY DEF Through, Allowed
  <2> HIDE DEF P, T
  <2> QED BY <2>1, <2>2
<1>4. ASSUME Once(c), req.limit # None
      PROVE  Lowest(req.limit, P) = Lowest(req.limit, T)
  BY <1>1, <1>4, FirstProduced
<1> HIDE DEF P, T
<1>5. req.limit = None => wanted \subseteq result
  BY <1>1, <1>2, <1>3
<1>6. ASSUME Decidable(req.pred), req.limit = None PROVE result = wanted
  BY <1>1, <1>2, <1>3, <1>6
<1>7. ASSUME Decidable(req.pred), req.limit # None
      PROVE  /\ result \subseteq wanted
             /\ Cardinality(result) <= req.limit
             /\ req.within = None /\ NamedOnce(req.pred) => result = Lowest(req.limit, wanted)
  <2>1. result = Lowest(req.limit, here) /\ here \subseteq wanted /\ here \subseteq T
    BY <1>1, <1>2, <1>3, <1>7
  <2>2. here \in SUBSET Int /\ IsFiniteSet(here)
    <3> HIDE DEF here
    <3>1. here \in SUBSET (0 .. Len(in) - 1)
      BY <1>1, <2>1
    <3>2. 0 \in Int /\ Len(in) - 1 \in Int
      BY InputParts
    <3>3. IsFiniteSet(0 .. Len(in) - 1)
      BY <3>2, FS_Interval
    <3>4. IsFiniteSet(here)
      BY <3>1, <3>3, FS_Subset
    <3> QED BY <3>1, <3>4
  <2>3. Cardinality(result) <= req.limit
    <3> HIDE DEF here
    <3> QED BY <1>7, <2>1, <2>2, LowestFew
  <2>4. ASSUME req.within = None, NamedOnce(req.pred) PROVE result = Lowest(req.limit, wanted)
    BY <1>1, <1>4, <1>7, <2>1, <2>4
  <2>5. Lowest(req.limit, here) \subseteq here
    BY DEF Lowest
  <2> QED BY <2>1, <2>3, <2>4, <2>5
<1> HIDE DEF wanted
<1> QED BY <1>5, <1>6, <1>7 DEF wanted, result, M

----------------------------------------------------------------------------
(* The index of a handle, whatever calls are made.                         *)
IndexInv ==
    /\ rows \in Inputs \cup {<<>>}
    /\ index # None => Tiles(index, rows) /\ (InOrder(rows) => Exact(index, rows))
    /\ answer # None /\ answer.call = "read" /\ answer.result # None =>
          /\ index # None
          /\ answer.arg.offset \in Nat /\ answer.arg.length \in Nat
          /\ answer.arg.offset + answer.arg.length <= RowCount(index)
          /\ answer.result = [i \in 1 .. answer.arg.length |->
                                RowAt(index, answer.arg.offset + i - 1)]
    /\ answer # None /\ answer.call = "locate" =>
          /\ index # None /\ answer.arg \in PairLists
          /\ answer.result = Located(index, answer.arg)
    /\ answer # None /\ answer.call = "scan" =>
          /\ index # None
          /\ answer.arg.pred \in Predicates(rows) /\ answer.arg.limit \in Limits
          /\ answer.result = Scanned(index, answer.arg)

(* A handle has the file mapped or not.                                    *)
MappedOk == mapped \in BOOLEAN
LEMMA MappedAlways == Spec => []MappedOk
<1>1. Init => MappedOk
  BY DEF Init, MappedOk
<1>2. MappedOk /\ [Next]_vars => MappedOk'
  <2> SUFFICES ASSUME MappedOk, [Next]_vars PROVE MappedOk'
    OBVIOUS
  <2> USE DEF MappedOk
  <2>1. CASE InitIndex \/ UpdateIndex
    BY <2>1, Zenon DEF InitIndex, UpdateIndex, Build
  <2>2. CASE CreateEmpty \/ UpdateFails \/ Open \/ DropIndex \/ Return \/ UNCHANGED vars
    BY <2>2 DEF CreateEmpty, UpdateFails, Open, DropIndex, Return, vars
  <2>3. CASE Read
    BY <2>3, Zenon DEF Read, Ask
  <2>4. CASE Locate
    BY <2>4, Zenon DEF Locate, Ask
  <2>5. CASE Scan
    <3>1. PICK pred \in Predicates(rows), within \in Withins, limit \in Limits :
            LET req == [pred |-> pred, within |-> within, limit |-> limit]
            IN  Ask("scan", req, Scanned(index, req))
      BY <2>5 DEF Scan
    <3> QED BY <3>1 DEF Ask
  <2> QED BY <2>1, <2>2, <2>3, <2>4, <2>5 DEF Next
<1> QED BY <1>1, <1>2, PTL DEF Spec

(* The invariant of the index always holds.                                *)
LEMMA IndexAlways == Spec => []IndexInv
<1>1. Init => IndexInv
  BY DEF Init, IndexInv
<1>2. IndexInv /\ [Next]_vars => IndexInv'
  <2> SUFFICES ASSUME IndexInv, [Next]_vars PROVE IndexInv'
    OBVIOUS
  <2> USE DEF IndexInv
  <2>1. CASE CreateEmpty
    <3>1. index' = Empty /\ rows' = <<>> /\ answer'.call = "create"
      BY <2>1 DEF CreateEmpty, Answer
    <3> QED BY <3>1, EmptyTiles, EmptyExact
  <2>2. CASE InitIndex \/ UpdateIndex
    <3>1. PICK in \in Inputs : Build(in)
      BY <2>2 DEF InitIndex, UpdateIndex
    <3>2. answer'.call = "build"
      BY <3>1 DEF Build, Answer
    <3>3. CASE Fits(in)
      <4>1. index' = Built(in) /\ rows' = in /\ in \in Seq(InputRow)
        BY <3>1, <3>3, InputAssumption DEF Build
      <4>2. Tiles(Built(in), in) /\ (InOrder(in) => Exact(Built(in), in))
        BY <3>3, <4>1, BuiltTiles, BuiltExact
      <4> QED BY <3>2, <4>1, <4>2
    <3>4. CASE ~Fits(in)
      BY <3>1, <3>2, <3>4 DEF Build
    <3> QED BY <3>3, <3>4
  <2>3. CASE DropIndex \/ UpdateFails
    BY <2>3 DEF DropIndex, UpdateFails, Answer
  <2>4. CASE Read
    <3> DEFINE Result(o, n) == IF o + n > RowCount(index) THEN None
                               ELSE [i \in 1 .. n |-> RowAt(index, o + i - 1)]
    <3>1. /\ index # None
          /\ \E o, n \in 0 .. RowCount(index) + 1 :
               Ask("read", [offset |-> o, length |-> n], Result(o, n))
      BY <2>4 DEF Read, MayAsk
    <3> HIDE DEF Result
    <3>2. PICK o \in 0 .. RowCount(index) + 1, n \in 0 .. RowCount(index) + 1 :
            Ask("read", [offset |-> o, length |-> n], Result(o, n))
      BY <3>1
    <3>3. /\ UNCHANGED <<index, rows>> /\ answer'.call = "read"
          /\ answer'.arg.offset = o /\ answer'.arg.length = n
          /\ answer'.result = Result(o, n)
      BY <3>2 DEF Ask, Answer
    <3>4. RowCount(index) \in Nat
      <4>1. rows \in Seq(InputRow)
        BY InputAssumption, EmptySeq
      <4> QED BY <3>1, <4>1, InputParts DEF Tiles
    <3>5. o \in Nat /\ n \in Nat
      BY <3>4
    <3>6. Result(o, n) # None => /\ o + n <= RowCount(index)
                                 /\ Result(o, n) = [i \in 1 .. n |-> RowAt(index, o + i - 1)]
      BY <3>4, <3>5 DEF Result
    <3> QED BY <3>1, <3>3, <3>5, <3>6
  <2>5. CASE Locate
    <3>1. PICK ps \in PairLists : Ask("locate", ps, Located(index, ps))
      BY <2>5 DEF Locate
    <3>2. index # None
      BY <2>5 DEF Locate, MayAsk
    <3> QED BY <3>1, <3>2 DEF Ask, Answer
  <2>6. CASE Scan
    <3>1. PICK pred \in Predicates(rows), within \in Withins, limit \in Limits :
            LET req == [pred |-> pred, within |-> within, limit |-> limit]
            IN  Ask("scan", req, Scanned(index, req))
      BY <2>6 DEF Scan
    <3>2. index # None
      BY <2>6 DEF Scan, MayAsk
    <3> DEFINE req == [pred |-> pred, within |-> within, limit |-> limit]
    <3>3. req.pred \in Predicates(rows) /\ req.limit \in Limits
      OBVIOUS
    <3> HIDE DEF req
    <3>4. /\ UNCHANGED <<index, rows>> /\ answer'.call = "scan"
          /\ answer'.arg = req /\ answer'.result = Scanned(index, req)
      BY <3>1 DEF Ask, Answer, req
    <3> QED BY <3>2, <3>3, <3>4
  <2>7. CASE Open \/ Return \/ UNCHANGED vars
    BY <2>7 DEF Open, Return, vars
  <2> QED BY <2>1, <2>2, <2>3, <2>4, <2>5, <2>6, <2>7 DEF Next
<1> QED BY <1>1, <1>2, PTL DEF Spec

(* For inputs of any length and in any order, any names, times and widths: *)
(* the records of an index tile its rows, each on the axis, the axis       *)
(* ascends, and a row that locate names reads back as the key it was asked *)
(* for (MetaBuilder::build, locate_row, locate_index_generic).             *)
THEOREM AlwaysSound == Spec => []SoundForAnyInput
<1>1. IndexInv /\ MappedOk => SoundForAnyInput
  <2> SUFFICES ASSUME IndexInv, MappedOk PROVE SoundForAnyInput
    OBVIOUS
  <2>1. rows \in Seq(InputRow)
    BY InputAssumption, EmptySeq DEF IndexInv
  <2>2. TypeOK /\ GridTiles
    BY DEF IndexInv, MappedOk, Tiles, TypeOK, GridTiles
  <2>3. ASSUME answer # None, answer.call = "locate", answer.result # None
        PROVE  \A i \in DOMAIN answer.arg :
                  /\ answer.result[i] \in 0 .. RowCount(index) - 1
                  /\ RowAt(index, answer.result[i]) = answer.arg[i]
    <3>1. /\ Tiles(index, rows) /\ answer.arg \in Seq(Pair)
          /\ answer.result = Located(index, answer.arg)
      BY <2>3, RequestAssumption DEF IndexInv
    <3> QED BY <2>1, <2>3, <3>1, LocatedReadsBack
  <2>4. LocateReadsBack
    BY <2>3 DEF LocateReadsBack
  <2> QED BY <2>2, <2>4 DEF SoundForAnyInput
<1> QED BY <1>1, IndexAlways, MappedAlways, PTL

(* For inputs of any length in (sym, time) order, any names and widths: a  *)
(* stretch of the index reads back the rows it was built from, and locate  *)
(* succeeds exactly if its keys are in order and all there, and names the  *)
(* row of each (read_index_handle, locate_index_generic).                  *)
THEOREM AlwaysExact == Spec => []PointsExact
<1>1. IndexInv => PointsExact
  <2> SUFFICES ASSUME IndexInv PROVE PointsExact
    OBVIOUS
  <2>1. rows \in Seq(InputRow)
    BY InputAssumption, EmptySeq DEF IndexInv
  <2>2. Len(rows) \in Nat /\ DOMAIN rows = 1 .. Len(rows)
    BY <2>1, InputParts
  <2>3. ASSUME answer # None, answer.call = "read", answer.result # None, InOrder(rows),
               NEW i \in DOMAIN answer.result
        PROVE  LET in == rows[answer.arg.offset + i]
               IN  answer.result[i] = [sym |-> in.sym, time |-> in.time]
    <3> DEFINE o == answer.arg.offset
               n == answer.arg.length
    <3>1. /\ Tiles(index, rows) /\ Exact(index, rows)
          /\ o \in Nat /\ n \in Nat /\ o + n <= RowCount(index)
          /\ answer.result = [k \in 1 .. n |-> RowAt(index, o + k - 1)]
      BY <2>3 DEF IndexInv
    <3> HIDE DEF o, n
    <3>2. i \in 1 .. n /\ answer.result[i] = RowAt(index, o + i - 1)
      BY <3>1
    <3>3. RowCount(index) = Len(rows)
      BY <3>1 DEF Tiles
    <3>4. o + i \in 1 .. Len(rows)
      BY <2>2, <3>1, <3>2, <3>3
    <3>5. RowAt(index, (o + i) - 1) = [sym |-> rows[o + i].sym, time |-> rows[o + i].time]
      BY <2>1, <2>3, <3>1, <3>4, RowIsRead
    <3>6. o + i - 1 = (o + i) - 1
      BY <3>1, <3>4
    <3>7. answer.result[i] = [sym |-> rows[o + i].sym, time |-> rows[o + i].time]
      BY <3>2, <3>5, <3>6
    <3> QED BY <3>7 DEF o
  <2>4. ASSUME answer # None, answer.call = "locate", InOrder(rows)
        PROVE  IF StrictlyOrdered(answer.arg) /\ \A i \in DOMAIN answer.arg : HasPair(answer.arg[i])
               THEN /\ answer.result # None
                    /\ Len(answer.result) = Len(answer.arg)
                    /\ \A i \in DOMAIN answer.arg :
                         LET in == rows[answer.result[i] + 1]
                         IN  in.sym = answer.arg[i].sym /\ in.time = answer.arg[i].time
               ELSE answer.result = None
    <3> DEFINE ps == answer.arg
    <3>1. /\ Tiles(index, rows) /\ Exact(index, rows) /\ ps \in Seq(Pair)
          /\ answer.result = Located(index, ps)
      BY <2>4, RequestAssumption DEF IndexInv
    <3>2. (StrictlyOrdered(ps) /\ \A i \in DOMAIN ps : HasPair(ps[i])) <=> AllThere(rows, ps)
      BY DEF AllThere, HasPair
    <3>3. AllThere(rows, ps) => /\ answer.result # None
                                /\ Len(answer.result) = Len(ps)
      BY <2>1, <2>4, <3>1, LocatedFinds, NoneAssumption
    <3>4. answer.result # None =>
             /\ AllThere(rows, ps)
             /\ \A i \in DOMAIN ps :
                  LET in == rows[answer.result[i] + 1]
                  IN  in.sym = ps[i].sym /\ in.time = ps[i].time
      BY <2>1, <2>4, <3>1, LocatedIsThere DEF AllThere
    <3> HIDE DEF ps
    <3>5. CASE AllThere(rows, ps)
      BY <3>2, <3>3, <3>4, <3>5, Zenon DEF ps
    <3>6. CASE ~AllThere(rows, ps)
      BY <3>2, <3>4, <3>6, Zenon DEF ps
    <3> QED BY <3>5, <3>6
  <2> QED BY <2>3, <2>4 DEF PointsExact, ReadsInput, LocateExact
<1> QED BY <1>1, IndexAlways, PTL

(* For inputs of any length in (sym, time) order, any conjunctions and     *)
(* widths: a scan misses no row its predicate holds of, finds no other     *)
(* where the index can decide the predicate, and keeps to its limit, with  *)
(* the first rows that match unless an Or names a sym twice or candidate   *)
(* ranges are given (compile_node, sym_id_of, scan_index_handle).          *)
THEOREM ScansAlwaysExact == Spec => []ScansExact
<1>1. IndexInv => ScansExact
  <2> SUFFICES ASSUME IndexInv PROVE ScansExact
    OBVIOUS
  <2>1. rows \in Seq(InputRow)
    BY InputAssumption, EmptySeq DEF IndexInv
  <2> DEFINE req == answer.arg
  <2>2. ASSUME answer # None, answer.call = "scan", Plain(req.pred), InOrder(rows)
        PROVE  /\ req.limit = None => Wanted(req) \subseteq answer.result
               /\ Decidable(req.pred) =>
                    IF req.limit = None THEN answer.result = Wanted(req)
                    ELSE /\ answer.result \subseteq Wanted(req)
                         /\ Cardinality(answer.result) <= req.limit
                         /\ req.within = None /\ NamedOnce(req.pred) =>
                               answer.result = Lowest(req.limit, Wanted(req))
    <3>1. /\ Tiles(index, rows) /\ Exact(index, rows)
          /\ answer.result = Scanned(index, req)
          /\ req.pred \in Predicates(rows) /\ req.limit \in Limits
          /\ rows \in Inputs \cup {<<>>}
      BY <2>2 DEF IndexInv
    <3>2. req.pred \in Seq(Atom) /\ (req.limit = None \/ req.limit \in Nat)
      BY <3>1, RequestAssumption
    <3> HIDE DEF req
    <3>3. Wanted(req) = IF req.within = None THEN MatchingIn(rows, req.pred)
                        ELSE MatchingIn(rows, req.pred) \cap req.within
      BY DEF Wanted, Matching, MatchingIn
    <3> DEFINE all    == MatchingIn(rows, req.pred)
               wanted == IF req.within = None THEN all ELSE all \cap req.within
               result == Scanned(index, req)
    <3>4. InOrder(rows) /\ Plain(req.pred)
      BY <2>2
    <3>5. /\ req.limit = None => wanted \subseteq result
          /\ Decidable(req.pred) =>
               IF req.limit = None THEN result = wanted
               ELSE /\ result \subseteq wanted
                    /\ Cardinality(result) <= req.limit
                    /\ req.within = None /\ NamedOnce(req.pred) =>
                          result = Lowest(req.limit, wanted)
      BY <2>1, <3>1, <3>2, <3>4, ScanMatches, Zenon
    <3>6. Wanted(req) = wanted /\ answer.result = result
      BY <3>1, <3>3
    <3> HIDE DEF wanted, result
    <3> QED BY <3>5, <3>6, Zenon
  <2>3. \A pred : Decidable(pred) => Plain(pred)
    BY DEF Decidable
  <2> HIDE DEF req
  <2>4. ScanComplete
    BY <2>2 DEF ScanComplete, req
  <2>5. ScanExact
    BY <2>2, <2>3 DEF ScanExact, req
  <2> QED BY <2>4, <2>5 DEF ScansExact
<1> QED BY <1>1, IndexAlways, PTL
=============================================================================
