---------------------------- MODULE ReorderBufferProofs ------------------------
(***************************************************************************)
(* The reorder buffer for any number of samples and any limit.             *)
(*                                                                         *)
(* The elements of the chains are counted as pairs of an interval and a    *)
(* place in its chain.  An interval has at least as many sequence numbers  *)
(* as its chain has elements, so that the pairs can be mapped one to one   *)
(* to sequence numbers, and the numbers bound the count.                   *)
(***************************************************************************)
EXTENDS Reorder, FiniteSetTheorems, TLAPS

Count(S) == Cardinality(Elements(S))

\* A chain of an interval [lo, hi): its samples are in order, and there is room
\* for what follows a sample, which delete_last_sample relies on.
ChainOK(lo, hi, sc) ==
  /\ sc \in Seq(0..MaxSeq) /\ Len(sc) > 0 /\ lo + Len(sc) <= hi
  /\ \A x \in 1..Len(sc) : sc[x] # 0 => lo <= sc[x] /\ sc[x] + (Len(sc) - x) < hi
  /\ \A x, y \in 1..Len(sc) : x < y /\ sc[x] # 0 /\ sc[y] # 0 => sc[x] < sc[y]

IvOK(i) == i.min \in Nat \ {0} /\ i.maxp1 \in Nat /\ i.maxp1 <= MaxSeq + 1 /\ ChainOK(i.min, i.maxp1, i.sc)

Apart(S) == \A i, j \in S : i # j => i.maxp1 < j.min \/ j.maxp1 < i.min

IvsOK(S) == (\A i \in S : IvOK(i)) /\ Apart(S)

---------------------------------------------------------------------------
(* Intervals. *)

\* Of the constants only the number of samples is needed, and that there is one.
LEMMA MaxSeqNat == MaxSeq \in Nat /\ MaxSeq > 0
BY ReorderAssumption

\* A set of natural numbers that is not empty has a least one, and a greatest
\* one if it is bounded.
LEMMA LeastNat ==
  ASSUME NEW S \in SUBSET Nat, S # {}
  PROVE  \E x \in S : \A y \in S : x <= y
<1>1. PICK x \in S : \A y \in S : ~(<<y, x>> \in OpToRel(<, Nat))
  BY Zenon, NatLessThanWellFounded, WFMin
<1>2. \A y \in S : x <= y
  <2> SUFFICES ASSUME NEW y \in S PROVE x <= y BY Zenon
  <2>1. y \in Nat /\ x \in Nat BY Zenon
  <2>2. ~(y < x) BY Zenon, <1>1, <2>1 DEF OpToRel
  <2> QED BY ONLY <2>1, <2>2
<1> QED BY Zenon, <1>2

\* A set of numbers with a bound has a greatest element.
LEMMA GreatestNat ==
  ASSUME NEW n \in Nat, NEW S \in SUBSET (0..n), S # {}
  PROVE  \E x \in S : \A y \in S : y <= x
<1>1. PICK U : U = {n - y : y \in S} BY Zenon
<1>2. U \in SUBSET Nat /\ U # {}
  <2>1. \A y \in S : n - y \in Nat BY SMT
  <2> QED BY Zenon, <1>1, <2>1
<1>3. PICK u \in U : \A v \in U : u <= v BY Zenon, <1>2, LeastNat
<1>4. PICK x \in S : u = n - x BY Zenon, <1>1
<1>5. \A y \in S : n - x <= n - y BY Zenon, <1>1, <1>3, <1>4
<1>6. \A y \in S : y <= x BY SMT, <1>5
<1> QED BY Zenon, <1>6

\* An interval has at least one number and its chain at least one element.
LEMMA IvFields ==
  ASSUME NEW i, IvOK(i)
  PROVE  /\ i.min \in Nat /\ i.min > 0 /\ i.maxp1 \in Nat /\ i.maxp1 <= MaxSeq + 1
         /\ i.sc \in Seq(0..MaxSeq) /\ Len(i.sc) \in Nat /\ Len(i.sc) > 0 /\ DOMAIN i.sc = 1..Len(i.sc)
         /\ i.min + Len(i.sc) <= i.maxp1 /\ i.min < i.maxp1 /\ i.min <= MaxSeq
<1>1. i.min \in Nat /\ i.min > 0 /\ i.maxp1 \in Nat /\ i.maxp1 <= MaxSeq + 1 BY DEF IvOK
<1>2. i.sc \in Seq(0..MaxSeq) /\ Len(i.sc) > 0 /\ i.min + Len(i.sc) <= i.maxp1 BY Zenon DEF IvOK, ChainOK
<1>3. Len(i.sc) \in Nat /\ DOMAIN i.sc = 1..Len(i.sc) BY <1>2
<1> QED BY <1>1, <1>2, <1>3, MaxSeqNat

\* Intervals that are apart are told apart by where they begin.
LEMMA ApartFacts ==
  ASSUME NEW S, IvsOK(S)
  PROVE  \A i, j \in S : /\ i.min = j.min => i = j
                         /\ i.min < j.min => i.maxp1 < j.min
<1> SUFFICES ASSUME NEW i \in S, NEW j \in S
             PROVE  (i.min = j.min => i = j) /\ (i.min < j.min => i.maxp1 < j.min)
  BY Zenon
<1>1. IvOK(i) /\ IvOK(j) /\ (i # j => i.maxp1 < j.min \/ j.maxp1 < i.min) BY Zenon DEF IvsOK, Apart
<1>2. i.min \in Nat /\ i.maxp1 \in Nat /\ i.min < i.maxp1 BY Zenon, <1>1, IvFields
<1>3. j.min \in Nat /\ j.maxp1 \in Nat /\ j.min < j.maxp1 BY Zenon, <1>1, IvFields
<1> QED BY ONLY <1>1, <1>2, <1>3

\* Some of the intervals are right if all are.
LEMMA SubIvs ==
  ASSUME NEW S, IvsOK(S), NEW R, R \subseteq S
  PROVE  IvsOK(R)
BY Zenon DEF IvsOK, Apart

\* Lowest and Highest, of intervals, find what they are named for.
LEMMA EndsFound ==
  ASSUME NEW S, \A i \in S : IvOK(i), S # {}
  PROVE  /\ Lowest(S) \in S /\ \A j \in S : Lowest(S).min <= j.min
         /\ Highest(S) \in S /\ \A j \in S : Highest(S).min >= j.min
<1>1. PICK M : M = {i.min : i \in S} BY Zenon
<1>2. \A i \in S : i.min \in Nat /\ i.min <= MaxSeq BY Zenon, IvFields
<1>3. M \in SUBSET Nat /\ M \in SUBSET (0..MaxSeq) /\ M # {} BY <1>1, <1>2, MaxSeqNat
<1>4. PICK l \in M : \A y \in M : l <= y BY Zenon, <1>3, LeastNat
<1>5. PICK h \in M : \A y \in M : y <= h BY Zenon, <1>3, GreatestNat, MaxSeqNat
<1>6. \E i \in S : \A j \in S : i.min <= j.min BY Zenon, <1>1, <1>4
<1>7. \E i \in S : \A j \in S : i.min >= j.min
  <2>1. PICK i \in S : i.min = h BY Zenon, <1>1
  <2>2. \A j \in S : j.min <= i.min BY Zenon, <1>1, <1>5, <2>1
  <2>3. \A j \in S : i.min >= j.min BY ONLY Zenon, <1>2, <2>2, i \in S
  <2> QED BY Zenon, <2>3
<1>8. Lowest(S) \in S /\ \A j \in S : Lowest(S).min <= j.min BY Zenon, <1>6 DEF Lowest
<1>9. Highest(S) \in S /\ \A j \in S : Highest(S).min >= j.min BY Zenon, <1>7 DEF Highest
<1> QED BY Zenon, <1>8, <1>9

---------------------------------------------------------------------------
(* Counting the elements of chains. *)

\* An element is an interval with a place in its chain.
LEMMA ElementOf ==
  ASSUME NEW S, NEW e \in Elements(S)
  PROVE  \E i \in S : \E x \in DOMAIN i.sc : e = <<i, x>>
BY DEF Elements

\* And every interval with such a place is one.
LEMMA PlaceIn ==
  ASSUME NEW S, NEW i \in S, NEW x \in DOMAIN i.sc
  PROVE  <<i, x>> \in Elements(S)
BY DEF Elements

\* Intervals within [lo, hi) have no more than hi - lo elements.
LEMMA CountWithin ==
  ASSUME NEW S, IvsOK(S), NEW lo \in Nat, NEW hi \in Nat, lo <= hi,
         \A i \in S : lo <= i.min /\ i.maxp1 <= hi
  PROVE  IsFiniteSet(Elements(S)) /\ Count(S) \in Nat /\ Count(S) <= hi - lo
<1>1. PICK E : E = Elements(S) BY Zenon
<1>2. PICK f : f = [e \in E |-> e[1].min + e[2]] BY Zenon
<1>3. ASSUME NEW i \in S, NEW x \in DOMAIN i.sc
      PROVE  /\ i.min \in Nat /\ x \in Nat /\ i.min + x > i.min /\ i.min + x <= i.maxp1
             /\ <<i, x>> \in E /\ f[<<i, x>>] = i.min + x
  <2>1. IvOK(i) BY Zenon DEF IvsOK
  <2>2. i.min \in Nat /\ i.maxp1 \in Nat /\ i.min + Len(i.sc) <= i.maxp1 /\ DOMAIN i.sc = 1..Len(i.sc)
        /\ Len(i.sc) \in Nat BY Zenon, <2>1, IvFields
  <2>3. x \in 1..Len(i.sc) BY Zenon, <2>2
  <2>4. <<i, x>> \in E BY Zenon, <1>1, PlaceIn
  <2>5. f[<<i, x>>] = i.min + x BY Zenon, <1>2, <2>4
  <2> QED BY ONLY <2>2, <2>3, <2>4, <2>5
<1>4. \A e \in E : \E i \in S : \E x \in DOMAIN i.sc : e = <<i, x>> BY Zenon, <1>1, ElementOf
<1>5. f \in [E -> (lo + 1)..hi]
  <2>1. ASSUME NEW e \in E PROVE f[e] \in (lo + 1)..hi
    <3>1. PICK i \in S : \E x \in DOMAIN i.sc : e = <<i, x>> BY Zenon, <1>4
    <3>2. PICK x \in DOMAIN i.sc : e = <<i, x>> BY Zenon, <3>1
    <3>3. lo <= i.min /\ i.maxp1 <= hi BY Zenon
    <3>4. f[e] = i.min + x /\ i.min \in Nat /\ x \in Nat /\ i.min + x > i.min /\ i.min + x <= i.maxp1
      BY Zenon, <1>3, <3>2
    <3>5. i.maxp1 \in Nat BY Zenon, IvFields DEF IvsOK
    <3> QED BY ONLY <3>3, <3>4, <3>5, lo \in Nat, hi \in Nat
  <2>2. f = [e \in E |-> f[e]] BY Zenon, <1>2
  <2> QED BY Zenon, <2>1, <2>2
<1>6. f \in Injection(E, (lo + 1)..hi)
  <2>1. ASSUME NEW d \in E, NEW e \in E, f[d] = f[e] PROVE d = e
    <3>1. PICK i \in S : \E x \in DOMAIN i.sc : d = <<i, x>> BY Zenon, <1>4
    <3>2. PICK x \in DOMAIN i.sc : d = <<i, x>> BY Zenon, <3>1
    <3>3. PICK j \in S : \E y \in DOMAIN j.sc : e = <<j, y>> BY Zenon, <1>4
    <3>4. PICK y \in DOMAIN j.sc : e = <<j, y>> BY Zenon, <3>3
    <3>5. f[d] = i.min + x /\ i.min \in Nat /\ x \in Nat /\ i.min + x > i.min /\ i.min + x <= i.maxp1
      BY Zenon, <1>3, <3>2
    <3>6. f[e] = j.min + y /\ j.min \in Nat /\ y \in Nat /\ j.min + y > j.min /\ j.min + y <= j.maxp1
      BY Zenon, <1>3, <3>4
    <3>7. i.maxp1 \in Nat /\ j.maxp1 \in Nat BY Zenon, IvFields DEF IvsOK
    <3>8. i # j => i.maxp1 < j.min \/ j.maxp1 < i.min BY Zenon DEF IvsOK, Apart
    <3>9. i.min + x = j.min + y BY Zenon, <2>1, <3>5, <3>6
    <3>10. i = j BY ONLY <3>5, <3>6, <3>7, <3>8, <3>9
    <3>11. x = y BY ONLY <3>5, <3>6, <3>9, <3>10
    <3> QED BY Zenon, <3>2, <3>4, <3>10, <3>11
  <2> QED BY Zenon, <1>5, <2>1 DEF Injection, IsInjective
<1>7. IsFiniteSet((lo + 1)..hi) /\ Cardinality((lo + 1)..hi) = hi - lo
  <2>1. lo + 1 \in Int /\ hi \in Int BY SMT
  <2>2. IsFiniteSet((lo + 1)..hi) /\ Cardinality((lo + 1)..hi) = IF lo + 1 > hi THEN 0 ELSE hi - (lo + 1) + 1
    BY ONLY Zenon, <2>1, FS_Interval
  <2>3. (IF lo + 1 > hi THEN 0 ELSE hi - (lo + 1) + 1) = hi - lo BY ONLY lo \in Nat, hi \in Nat, lo <= hi
  <2> QED BY ONLY <2>2, <2>3
<1>8. IsFiniteSet(E) /\ Cardinality(E) <= Cardinality((lo + 1)..hi) BY Zenon, <1>6, <1>7, FS_Injection
<1>9. Cardinality(E) \in Nat BY Zenon, <1>8, FS_CardinalityType
<1> QED BY Zenon, <1>1, <1>7, <1>8, <1>9 DEF Count

\* Intervals have finitely many elements.
LEMMA CountFinite ==
  ASSUME NEW S, IvsOK(S)
  PROVE  IsFiniteSet(Elements(S)) /\ Count(S) \in Nat
<1>1. \A i \in S : 0 <= i.min /\ i.maxp1 <= MaxSeq + 1
  <2> SUFFICES ASSUME NEW i \in S PROVE 0 <= i.min /\ i.maxp1 <= MaxSeq + 1 BY Zenon
  <2>1. IvOK(i) BY Zenon DEF IvsOK
  <2> QED BY <2>1, IvFields
<1>2. 0 \in Nat /\ MaxSeq + 1 \in Nat /\ 0 <= MaxSeq + 1 BY MaxSeqNat
<1> QED BY Zenon, <1>1, <1>2, CountWithin

\* No interval, no element.
LEMMA CountNone == Count({}) = 0
<1>1. Elements({}) = {} BY Zenon DEF Elements
<1> QED BY Zenon, <1>1, FS_EmptySet DEF Count

\* The elements of some of the intervals and of the others add up.
LEMMA CountSplit ==
  ASSUME NEW S, IvsOK(S), NEW R, R \subseteq S
  PROVE  Count(S) = Count(R) + Count(S \ R) /\ Count(R) \in Nat /\ Count(S \ R) \in Nat
<1>1. IvsOK(R) /\ IvsOK(S \ R) BY Zenon, SubIvs
<1>2. IsFiniteSet(Elements(R)) /\ Count(R) \in Nat BY Zenon, <1>1, CountFinite
<1>3. IsFiniteSet(Elements(S \ R)) /\ Count(S \ R) \in Nat BY Zenon, <1>1, CountFinite
<1>4. Elements(S) = Elements(R) \cup Elements(S \ R)
  <2>1. ASSUME NEW e PROVE e \in Elements(S) <=> e \in Elements(R) \/ e \in Elements(S \ R)
    <3>1. ASSUME e \in Elements(S) PROVE e \in Elements(R) \/ e \in Elements(S \ R)
      <4>1. PICK i \in S : \E x \in DOMAIN i.sc : e = <<i, x>> BY Zenon, <3>1, ElementOf
      <4>2. PICK x \in DOMAIN i.sc : e = <<i, x>> BY Zenon, <4>1
      <4>3. CASE i \in R BY Zenon, <4>2, <4>3, PlaceIn
      <4>4. CASE i \in S \ R BY Zenon, <4>2, <4>4, PlaceIn
      <4> QED BY Zenon, <4>3, <4>4
    <3>2. ASSUME NEW Q, Q \subseteq S, e \in Elements(Q) PROVE e \in Elements(S)
      <4>1. PICK i \in Q : \E x \in DOMAIN i.sc : e = <<i, x>> BY Zenon, <3>2, ElementOf
      <4>2. i \in S BY Zenon, <3>2
      <4> QED BY Zenon, <4>1, <4>2, PlaceIn
    <3>3. S \ R \subseteq S BY Zenon
    <3> QED BY Zenon, <3>1, <3>2, <3>3
  <2> QED BY Zenon, <2>1
<1>5. Elements(R) \cap Elements(S \ R) = {}
  <2> SUFFICES ASSUME NEW e, e \in Elements(R), e \in Elements(S \ R) PROVE FALSE BY Zenon
  <2>1. PICK i \in R : \E x \in DOMAIN i.sc : e = <<i, x>> BY Zenon, ElementOf
  <2>2. PICK j \in S \ R : \E x \in DOMAIN j.sc : e = <<j, x>> BY Zenon, ElementOf
  <2>3. e[1] = i /\ e[1] = j BY <2>1, <2>2
  <2> QED BY Zenon, <2>3
<1>6. Cardinality(Elements(S)) = Cardinality(Elements(R)) + Cardinality(Elements(S \ R)) - Cardinality({})
  <2>1. PICK A : A = Elements(R) BY Zenon
  <2>2. PICK B : B = Elements(S \ R) BY Zenon
  <2>3. IsFiniteSet(A) /\ IsFiniteSet(B) BY Zenon, <1>2, <1>3, <2>1, <2>2
  <2>4. Cardinality(A \cup B) = Cardinality(A) + Cardinality(B) - Cardinality(A \cap B)
    BY ONLY Zenon, <2>3, FS_Union
  <2>5. A \cup B = Elements(S) /\ A \cap B = {} BY Zenon, <1>4, <1>5, <2>1, <2>2
  <2> QED BY Zenon, <2>1, <2>2, <2>4, <2>5
<1>7. Cardinality({}) = 0 BY Zenon, FS_EmptySet
<1> QED BY ONLY <1>2, <1>3, <1>6, <1>7 DEF Count

\* An interval has as many elements as its chain.
LEMMA CountOne ==
  ASSUME NEW i, IvOK(i)
  PROVE  Count({i}) = Len(i.sc)
<1>1. Len(i.sc) \in Nat /\ DOMAIN i.sc = 1..Len(i.sc) BY Zenon, IvFields
<1>2. PICK f : f = [x \in 1..Len(i.sc) |-> <<i, x>>] BY Zenon
<1>3. \A x \in 1..Len(i.sc) : f[x] = <<i, x>> /\ f[x] \in Elements({i})
  <2>1. \A x \in 1..Len(i.sc) : f[x] = <<i, x>> BY Zenon, <1>2
  <2>2. \A x \in 1..Len(i.sc) : <<i, x>> \in Elements({i}) BY Zenon, <1>1, PlaceIn
  <2> QED BY Zenon, <2>1, <2>2
<1>4. f \in [1..Len(i.sc) -> Elements({i})] BY Zenon, <1>2, <1>3
<1>5. \A x, y \in 1..Len(i.sc) : f[x] = f[y] => x = y BY <1>3
<1>6. ASSUME NEW e \in Elements({i}) PROVE \E x \in 1..Len(i.sc) : f[x] = e
  <2>1. \E j \in {i} : \E x \in DOMAIN j.sc : e = <<j, x>>
    <3>1. PICK Q : Q = {i} BY Zenon
    <3>2. e \in Elements(Q) BY Zenon, <3>1
    <3>3. \E j \in Q : \E x \in DOMAIN j.sc : e = <<j, x>> BY Zenon, <3>2, ElementOf
    <3> QED BY Zenon, <3>1, <3>3
  <2>2. \E x \in DOMAIN i.sc : e = <<i, x>> BY Zenon, <2>1
  <2>3. PICK x \in DOMAIN i.sc : e = <<i, x>> BY Zenon, <2>2
  <2>4. x \in 1..Len(i.sc) BY Zenon, <1>1
  <2> QED BY Zenon, <1>3, <2>3, <2>4
<1>7. f \in Bijection(1..Len(i.sc), Elements({i}))
  BY Zenon, <1>4, <1>5, <1>6 DEF Bijection, Injection, Surjection, IsInjective
<1>8. ExistsBijection(1..Len(i.sc), Elements({i})) BY Zenon, <1>7 DEF ExistsBijection
<1>9. IsFiniteSet(1..Len(i.sc)) /\ Cardinality(1..Len(i.sc)) = Len(i.sc)
  <2>1. 1 \in Int /\ Len(i.sc) \in Int BY <1>1
  <2>2. IsFiniteSet(1..Len(i.sc))
        /\ Cardinality(1..Len(i.sc)) = IF 1 > Len(i.sc) THEN 0 ELSE Len(i.sc) - 1 + 1
    BY ONLY Zenon, <2>1, FS_Interval
  <2> QED BY ONLY <1>1, <2>2
<1> QED BY Zenon, <1>8, <1>9, FS_Bijection DEF Count

\* Intervals R are replaced by one interval.
LEMMA CountReplace ==
  ASSUME NEW S, IvsOK(S), NEW R, R \subseteq S, NEW w, w \notin S \ R, IvsOK((S \ R) \cup {w})
  PROVE  Count((S \ R) \cup {w}) = Count(S) - Count(R) + Len(w.sc)
<1>1. Count(S) = Count(R) + Count(S \ R) /\ Count(R) \in Nat /\ Count(S \ R) \in Nat BY Zenon, CountSplit
<1>2. PICK U : U = (S \ R) \cup {w} BY Zenon
<1>3. Count(U) = Count({w}) + Count(U \ {w}) /\ Count({w}) \in Nat
  <2>1. IvsOK(U) /\ {w} \subseteq U BY Zenon, <1>2
  <2> QED BY Zenon, <2>1, CountSplit
<1>4. U \ {w} = S \ R BY Zenon, <1>2
<1>5. Count({w}) = Len(w.sc) BY Zenon, CountOne DEF IvsOK
<1>6. Count(U) = Len(w.sc) + Count(S \ R) /\ Len(w.sc) \in Nat BY Zenon, <1>3, <1>4, <1>5
<1>7. Count(U) = Count(S) - Count(R) + Len(w.sc) BY ONLY <1>1, <1>6
<1> QED BY Zenon, <1>2, <1>7

---------------------------------------------------------------------------
(* The chains of several intervals one after the other. *)

Below(S, i) == {j \in S : j.min < i.min}
Before(S, i) == Count(Below(S, i))

\* A place of a sequence holds a member of the set it is over.
LEMMA SeqElt ==
  ASSUME NEW V, NEW s \in Seq(V), NEW x \in 1..Len(s)
  PROVE  s[x] \in V
OBVIOUS

---------------------------------------------------------------------------
(* What is done to intervals. *)

\* The elements of a chain.
Rng(sc) == {sc[x] : x \in DOMAIN sc}

\* Consecutive chains: the intervals' elements in order make a chain.
LEMMA ChainedIvs ==
  \A S : IvsOK(S) /\ S # {} =>
    /\ Rng(Chained(S)) = UNION {Rng(i.sc) : i \in S}
    /\ \A lo, hi \in Nat : lo <= hi /\ (\A i \in S : lo <= i.min /\ i.maxp1 <= hi)
         => ChainOK(lo, hi, Chained(S)) /\ Len(Chained(S)) = Count(S)
\* Chained, with its definitions named.
<1>ChainedIs. ASSUME NEW S
              PROVE  LET at(p) == CHOOSE i \in S : p - Before(S, i) \in DOMAIN i.sc
                     IN  Chained(S) = [p \in 1..Count(S) |-> at(p).sc[p - Before(S, at(p))]]
  BY Zenon, <1>ChainedIs DEF Chained, Before, Below, Count
\* What comes before an interval, and the interval, and what comes after it.
<1>BeforeSplit.
     ASSUME NEW S, IvsOK(S), NEW i \in S
     PROVE  LET above == {j \in S : i.min < j.min}
            IN  /\ Count(S) = Before(S, i) + Len(i.sc) + Count(above)
                /\ Before(S, i) \in Nat /\ Len(i.sc) \in Nat /\ Len(i.sc) > 0 /\ Count(above) \in Nat
  <2> USE <1>BeforeSplit
  <2> DEFINE above == {j \in S : i.min < j.min}
  <2> SUFFICES /\ Count(S) = Before(S, i) + Len(i.sc) + Count(above)
               /\ Before(S, i) \in Nat /\ Len(i.sc) \in Nat /\ Len(i.sc) > 0 /\ Count(above) \in Nat
    BY Zenon
  <2>1. PICK T : T = S \ Below(S, i) BY Zenon
  <2>2. Below(S, i) \subseteq S BY Zenon DEF Below
  <2>3. Count(S) = Count(Below(S, i)) + Count(T) /\ Count(Below(S, i)) \in Nat
    BY Zenon, <2>1, <2>2, CountSplit
  <2>4. \A j \in S : j.min \in Nat BY Zenon, IvFields DEF IvsOK
  <2>5. i \in T
    <3>1. ~(i.min < i.min) BY <2>4
    <3> QED BY Zenon, <2>1, <3>1 DEF Below
  <2>6. IvsOK(T) BY Zenon, <2>1, SubIvs
  <2>7. Count(T) = Count({i}) + Count(T \ {i}) /\ Count(T \ {i}) \in Nat BY Zenon, <2>5, <2>6, CountSplit
  <2>8. T \ {i} = above
    <3>1. ASSUME NEW j PROVE j \in T \ {i} <=> j \in above
      <4>1. CASE j \in S
        <5>1. i.min \in Nat /\ j.min \in Nat BY Zenon, <2>4, <4>1
        <5>2. i.min = j.min => i = j BY Zenon, <4>1, ApartFacts
        <5>3. i.min < j.min <=> ~(j.min < i.min) /\ i.min # j.min BY ONLY <5>1
        <5>4. j \in T <=> ~(j.min < i.min) BY Zenon, <2>1, <4>1 DEF Below
        <5> QED BY Zenon, <4>1, <5>2, <5>3, <5>4
      <4>2. CASE j \notin S BY Zenon, <2>1, <4>2
      <4> QED BY Zenon, <4>1, <4>2
    <3> QED BY Zenon, <3>1
  <2>9. IvOK(i) BY Zenon DEF IvsOK
  <2>10. Count({i}) = Len(i.sc) /\ Len(i.sc) \in Nat /\ Len(i.sc) > 0 BY Zenon, <2>9, CountOne, IvFields
  <2> HIDE DEF above
  <2>11. Count(T) = Len(i.sc) + Count(above) /\ Count(above) \in Nat BY Zenon, <2>7, <2>8, <2>10
  <2>12. Count(S) = Before(S, i) + Count(T) /\ Before(S, i) \in Nat BY Zenon, <2>3 DEF Before
  <2> QED BY ONLY <2>10, <2>11, <2>12
\* An interval comes after all of an earlier one.
<1>BeforeLess. ASSUME NEW S, IvsOK(S), NEW i \in S, NEW j \in S, j.min < i.min
               PROVE  Before(S, j) + Len(j.sc) <= Before(S, i)
  <2> USE <1>BeforeLess
  <2>1. PICK R : R = Below(S, i) BY Zenon
  <2>2. R \subseteq S /\ j \in R BY Zenon, <2>1 DEF Below
  <2>3. IvsOK(R) BY Zenon, <2>2, SubIvs
  <2>4. \A k \in S : k.min \in Nat BY Zenon, IvFields DEF IvsOK
  <2>5. Below(R, j) = Below(S, j)
    <3>1. \A k \in S : k.min < j.min => k.min < i.min BY ONLY <2>4, i \in S, j \in S, j.min < i.min
    <3> QED BY Zenon, <2>1, <3>1 DEF Below
  <2>6. PICK n \in Nat : Count(R) = Before(R, j) + Len(j.sc) + n BY Zenon, <2>2, <2>3, <1>BeforeSplit
  <2>7. Before(S, j) \in Nat /\ Len(j.sc) \in Nat BY Zenon, <1>BeforeSplit
  <2>8. Before(R, j) = Before(S, j) /\ Count(R) = Before(S, i) BY Zenon, <2>1, <2>5 DEF Before
  <2>9. Before(S, i) = Before(S, j) + Len(j.sc) + n BY Zenon, <2>6, <2>8
  <2> QED BY ONLY <2>7, <2>9, n \in Nat
\* Every position of the chain is in one of the intervals' chains.
<1>AtFound. ASSUME NEW S, IvsOK(S), NEW p \in 1..Count(S)
            PROVE  \E i \in S : p - Before(S, i) \in 1..Len(i.sc)
  <2> USE <1>AtFound
  <2>1. S # {}
    <3>1. Count(S) # 0 BY ONLY p \in 1..Count(S)
    <3> QED BY Zenon, <3>1, CountNone
  <2>2. \A i \in S : IvOK(i) BY Zenon DEF IvsOK
  <2>3. \A i \in S : i.min \in Nat BY Zenon, <2>2, IvFields
  <2>4. \A i \in S : Before(S, i) \in Nat /\ Len(i.sc) \in Nat BY Zenon, <1>BeforeSplit
  <2>5. PICK Q : Q = {i \in S : Before(S, i) < p} BY Zenon
  <2>6. Q # {}
    <3>1. PICK l : l = Lowest(S) BY Zenon
    <3>2. l \in S /\ \A j \in S : l.min <= j.min BY Zenon, <2>1, <2>2, <3>1, EndsFound
    <3>3. \A j \in S : ~(j.min < l.min) BY ONLY <2>3, <3>2
    <3>4. Below(S, l) = {} BY Zenon, <3>3 DEF Below
    <3>5. Before(S, l) = 0 BY Zenon, <3>4, CountNone DEF Before
    <3>6. 0 < p BY SMT
    <3> QED BY Zenon, <2>5, <3>2, <3>5, <3>6
  <2>7. PICK h : h = Highest(Q) BY Zenon
  <2>8. h \in Q /\ \A j \in Q : h.min >= j.min
    <3>1. \A i \in Q : IvOK(i) BY Zenon, <2>2, <2>5
    <3> QED BY Zenon, <2>6, <2>7, <3>1, EndsFound
  <2>9. h \in S /\ Before(S, h) < p BY Zenon, <2>5, <2>8
  <2>10. PICK A : A = {j \in S : h.min < j.min} BY Zenon
  <2>11. Count(S) = Before(S, h) + Len(h.sc) + Count(A) /\ Count(A) \in Nat
    BY Zenon, <2>9, <2>10, <1>BeforeSplit
  <2>12. p <= Before(S, h) + Len(h.sc)
    <3> SUFFICES ASSUME ~(p <= Before(S, h) + Len(h.sc)) PROVE FALSE BY Zenon
    <3>1. A # {}
      <4> SUFFICES ASSUME A = {} PROVE FALSE BY Zenon
      <4>1. Count(A) = 0 BY Zenon, CountNone
      <4>2. Before(S, h) \in Nat /\ Len(h.sc) \in Nat BY Zenon, <2>4, <2>9
      <4> QED BY ONLY <2>11, <4>1, <4>2, p \in 1..Count(S), ~(p <= Before(S, h) + Len(h.sc))
    <3>2. PICK n : n = Lowest(A) BY Zenon
    <3>3. n \in A /\ \A j \in A : n.min <= j.min
      <4>1. \A i \in A : IvOK(i) BY Zenon, <2>2, <2>10
      <4> QED BY Zenon, <3>1, <3>2, <4>1, EndsFound
    <3>4. n \in S /\ h.min < n.min BY Zenon, <2>10, <3>3
    <3>5. PICK R : R = Below(S, n) BY Zenon
    <3>6. R \subseteq S /\ h \in R BY Zenon, <2>9, <3>4, <3>5 DEF Below
    <3>7. IvsOK(R) BY Zenon, <3>6, SubIvs
    <3>8. PICK B : B = {j \in R : h.min < j.min} BY Zenon
    <3>9. Count(R) = Before(R, h) + Len(h.sc) + Count(B) BY Zenon, <3>6, <3>7, <3>8, <1>BeforeSplit
    <3>10. B = {}
      <4> SUFFICES ASSUME NEW j \in B PROVE FALSE BY Zenon
      <4>1. j \in S /\ j.min < n.min /\ j \in A BY Zenon, <2>10, <3>5, <3>8 DEF Below
      <4>2. n.min <= j.min BY Zenon, <3>3, <4>1
      <4>3. n.min \in Nat /\ j.min \in Nat BY Zenon, <2>3, <3>4, <4>1
      <4> QED BY ONLY <4>1, <4>2, <4>3
    <3>11. Below(R, h) = Below(S, h)
      <4>1. \A k \in S : k.min < h.min => k.min < n.min BY ONLY <2>3, <2>9, <3>4
      <4> QED BY Zenon, <3>5, <4>1 DEF Below
    <3>12. Before(S, n) = Before(S, h) + Len(h.sc) + 0
      BY Zenon, <3>5, <3>9, <3>10, <3>11, CountNone DEF Before
    <3>13. Before(S, n) < p
      <4>1. Before(S, h) \in Nat /\ Len(h.sc) \in Nat /\ p \in Nat BY <2>4, <2>9
      <4> QED BY ONLY <3>12, <4>1, ~(p <= Before(S, h) + Len(h.sc))
    <3>14. h.min >= n.min BY Zenon, <2>5, <2>8, <3>4, <3>13
    <3> QED BY ONLY <2>3, <2>9, <3>4, <3>14
  <2>13. p - Before(S, h) \in 1..Len(h.sc)
    <3>1. Before(S, h) \in Nat /\ Len(h.sc) \in Nat /\ p \in Nat BY <2>4, <2>9
    <3> QED BY ONLY <2>9, <2>12, <3>1
  <2> QED BY Zenon, <2>9, <2>13
<1>AtUnique. ASSUME NEW S, IvsOK(S), NEW p \in Nat, NEW i \in S, NEW j \in S,
                    p - Before(S, i) \in 1..Len(i.sc), p - Before(S, j) \in 1..Len(j.sc)
             PROVE  i = j
  <2> USE <1>AtUnique
  <2>1. Before(S, i) \in Nat /\ Len(i.sc) \in Nat /\ Before(S, j) \in Nat /\ Len(j.sc) \in Nat
    BY Zenon, <1>BeforeSplit
  <2>2. i.min \in Nat /\ j.min \in Nat BY Zenon, IvFields DEF IvsOK
  <2>3. CASE i.min < j.min
    <3>1. Before(S, i) + Len(i.sc) <= Before(S, j) BY Zenon, <2>3, <1>BeforeLess
    <3> QED BY ONLY <2>1, <3>1, p \in Nat, p - Before(S, i) \in 1..Len(i.sc), p - Before(S, j) \in 1..Len(j.sc)
  <2>4. CASE j.min < i.min
    <3>1. Before(S, j) + Len(j.sc) <= Before(S, i) BY Zenon, <2>4, <1>BeforeLess
    <3> QED BY ONLY <2>1, <3>1, p \in Nat, p - Before(S, i) \in 1..Len(i.sc), p - Before(S, j) \in 1..Len(j.sc)
  <2>5. CASE i.min = j.min BY Zenon, <2>5, ApartFacts
  <2>6. i.min < j.min \/ j.min < i.min \/ i.min = j.min BY ONLY <2>2
  <2> QED BY Zenon, <2>3, <2>4, <2>5, <2>6
\* An interval's element has its place in the chain of all of them.
<1>ChainedHas. ASSUME NEW S, IvsOK(S), NEW i \in S, NEW x \in 1..Len(i.sc)
               PROVE  Before(S, i) + x \in 1..Count(S) /\ Chained(S)[Before(S, i) + x] = i.sc[x]
  <2> USE <1>ChainedHas
  <2>1. PICK n \in Nat : Count(S) = Before(S, i) + Len(i.sc) + n BY Zenon, <1>BeforeSplit
  <2>2. Before(S, i) \in Nat /\ Len(i.sc) \in Nat BY Zenon, <1>BeforeSplit
  <2>3. PICK p : p = Before(S, i) + x BY Zenon
  <2>4. p \in 1..Count(S) /\ p \in Nat /\ p - Before(S, i) = x
    BY ONLY <2>1, <2>2, <2>3, n \in Nat, x \in 1..Len(i.sc)
  <2>5. PICK a : a = CHOOSE j \in S : p - Before(S, j) \in DOMAIN j.sc BY Zenon
  <2>6. Chained(S)[p] = a.sc[p - Before(S, a)]
    <3> DEFINE at(q) == CHOOSE j \in S : q - Before(S, j) \in DOMAIN j.sc
    <3>1. Chained(S) = [q \in 1..Count(S) |-> at(q).sc[q - Before(S, at(q))]] BY Zenon, <1>ChainedIs
    <3>2. a = at(p) BY Zenon, <2>5
    <3> HIDE DEF at
    <3>3. Chained(S)[p] = at(p).sc[p - Before(S, at(p))] BY Zenon, <2>4, <3>1
    <3> QED BY Zenon, <3>2, <3>3
  <2>7. \A j \in S : DOMAIN j.sc = 1..Len(j.sc) BY Zenon, IvFields DEF IvsOK
  <2>8. p - Before(S, i) \in DOMAIN i.sc BY Zenon, <2>4, <2>7
  <2>9. a \in S /\ p - Before(S, a) \in DOMAIN a.sc BY Zenon, <2>5, <2>8
  <2>10. a = i BY Zenon, <2>4, <2>7, <2>8, <2>9, <1>AtUnique
  <2> QED BY Zenon, <2>3, <2>4, <2>6, <2>10
\* And every element of it is an interval's.
<1>ChainedAt. ASSUME NEW S, IvsOK(S), NEW p \in 1..Count(S)
              PROVE  \E i \in S : \E x \in 1..Len(i.sc) : p = Before(S, i) + x /\ Chained(S)[p] = i.sc[x]
  <2> USE <1>ChainedAt
  <2>1. PICK i \in S : p - Before(S, i) \in 1..Len(i.sc) BY Zenon, <1>AtFound
  <2>2. Before(S, i) \in Nat /\ Len(i.sc) \in Nat BY Zenon, <1>BeforeSplit
  <2>3. PICK x : x = p - Before(S, i) BY Zenon
  <2>4. x \in 1..Len(i.sc) BY Zenon, <2>1, <2>3
  <2>5. p = Before(S, i) + x BY ONLY <2>2, <2>3, p \in 1..Count(S)
  <2>6. Chained(S)[Before(S, i) + x] = i.sc[x] BY Zenon, <2>4, <1>ChainedHas
  <2> QED BY Zenon, <2>4, <2>5, <2>6
<1>FunSeq. ASSUME NEW V, NEW n \in Nat, NEW f \in [1..n -> V]
           PROVE  f \in Seq(V) /\ Len(f) = n
  BY <1>FunSeq
\* What an element's interval leaves room for, the intervals around it do.
<1>RoomWithin. ASSUME NEW v \in Nat, NEW len \in Nat, NEW x \in 1..len, NEW before \in Nat, NEW after \in Nat,
                      NEW lo \in Nat, NEW min \in Nat, NEW maxp1 \in Nat, NEW hi \in Nat,
                      lo <= min, after <= hi - maxp1, min <= v, v + (len - x) < maxp1
               PROVE  lo <= v /\ v + ((before + len + after) - (before + x)) < hi
  BY <1>RoomWithin
\* The intervals' elements in order make a chain.
<1>ChainedOK. ASSUME NEW S, IvsOK(S), S # {}, NEW lo \in Nat, NEW hi \in Nat, lo <= hi,
                     \A i \in S : lo <= i.min /\ i.maxp1 <= hi
              PROVE  ChainOK(lo, hi, Chained(S)) /\ Len(Chained(S)) = Count(S)
  <2> USE <1>ChainedOK
  <2>1. PICK sc : sc = Chained(S) BY Zenon
  <2>2. PICK n : n = Count(S) BY Zenon
  <2>3. n \in Nat /\ n <= hi - lo BY Zenon, <2>2, CountWithin
  <2>4. \A p \in 1..n : \E i \in S : \E x \in 1..Len(i.sc) : p = Before(S, i) + x /\ sc[p] = i.sc[x]
    BY Zenon, <2>1, <2>2, <1>ChainedAt
  <2>5. ASSUME NEW i \in S
        PROVE  /\ i.min \in Nat /\ i.maxp1 \in Nat /\ Len(i.sc) \in Nat /\ Len(i.sc) > 0 /\ Before(S, i) \in Nat
               /\ i.sc \in Seq(0..MaxSeq) /\ ChainOK(i.min, i.maxp1, i.sc) /\ lo <= i.min /\ i.maxp1 <= hi
    <3>1. IvOK(i) BY Zenon DEF IvsOK
    <3>2. Before(S, i) \in Nat BY Zenon, <1>BeforeSplit
    <3>3. ChainOK(i.min, i.maxp1, i.sc) BY Zenon, <3>1 DEF IvOK
    <3> QED BY Zenon, <3>1, <3>2, <3>3, IvFields
  <2>6. ASSUME NEW i \in S, NEW x \in 1..Len(i.sc) PROVE i.sc[x] \in 0..MaxSeq
    <3>1. i.sc \in Seq(0..MaxSeq) BY Zenon, <2>5
    <3> QED BY Zenon, <3>1, SeqElt
  <2>7. sc \in [1..n -> 0..MaxSeq]
    <3>1. ASSUME NEW p \in 1..n PROVE sc[p] \in 0..MaxSeq
      <4>1. PICK i \in S : \E x \in 1..Len(i.sc) : p = Before(S, i) + x /\ sc[p] = i.sc[x] BY Zenon, <2>4
      <4> QED BY Zenon, <2>6, <4>1
    <3>2. sc = [p \in 1..n |-> sc[p]]
      <4> DEFINE at(q) == CHOOSE j \in S : q - Before(S, j) \in DOMAIN j.sc
      <4>1. sc = [q \in 1..n |-> at(q).sc[q - Before(S, at(q))]] BY Zenon, <2>1, <2>2, <1>ChainedIs
      <4> HIDE DEF at
      <4>2. \A q \in 1..n : sc[q] = at(q).sc[q - Before(S, at(q))] BY Zenon, <4>1
      <4> QED BY Zenon, <4>1, <4>2
    <3> QED BY Zenon, <3>1, <3>2
  <2>8. sc \in Seq(0..MaxSeq) /\ Len(sc) = n BY Zenon, <2>3, <2>7, <1>FunSeq
  <2>9. n > 0 /\ lo + n <= hi
    <3>1. PICK i \in S : TRUE BY Zenon
    <3>2. PICK m \in Nat : n = Before(S, i) + Len(i.sc) + m BY Zenon, <2>2, <1>BeforeSplit
    <3>3. Before(S, i) \in Nat /\ Len(i.sc) \in Nat /\ Len(i.sc) > 0 BY Zenon, <2>5
    <3> QED BY ONLY <2>3, <3>2, <3>3, m \in Nat, lo \in Nat, hi \in Nat
  <2>10. ASSUME NEW p \in 1..n, sc[p] # 0 PROVE lo <= sc[p] /\ sc[p] + (n - p) < hi
    <3>1. PICK i \in S : \E x \in 1..Len(i.sc) : p = Before(S, i) + x /\ sc[p] = i.sc[x] BY Zenon, <2>4
    <3>2. PICK x \in 1..Len(i.sc) : p = Before(S, i) + x /\ sc[p] = i.sc[x] BY Zenon, <3>1
    <3>3. PICK A : A = {j \in S : i.min < j.min} BY Zenon
    <3>4. n = Before(S, i) + Len(i.sc) + Count(A) BY Zenon, <2>2, <3>3, <1>BeforeSplit
    <3>5. Count(A) \in Nat /\ Count(A) <= hi - i.maxp1
      <4>1. A \subseteq S BY Zenon, <3>3
      <4>2. IvsOK(A) BY Zenon, <4>1, SubIvs
      <4>3. \A j \in A : i.maxp1 <= j.min
        <5>1. \A j \in A : i.maxp1 < j.min BY Zenon, <3>3, ApartFacts
        <5>2. \A j \in A : j.min \in Nat BY Zenon, <2>5, <4>1
        <5>3. i.maxp1 \in Nat BY Zenon, <2>5
        <5> QED BY ONLY <5>1, <5>2, <5>3
      <4>4. \A j \in A : j.maxp1 <= hi BY Zenon, <4>1
      <4>5. i.maxp1 \in Nat /\ i.maxp1 <= hi BY Zenon, <2>5
      <4> QED BY Zenon, <4>2, <4>3, <4>4, <4>5, CountWithin
    <3>6. i.sc[x] # 0 => i.min <= i.sc[x] /\ i.sc[x] + (Len(i.sc) - x) < i.maxp1 BY Zenon, <2>5 DEF ChainOK
    <3>7. i.sc[x] \in Nat
      <4>1. i.sc[x] \in 0..MaxSeq BY Zenon, <2>6
      <4> QED BY ONLY <4>1
    <3>8. i.min \in Nat /\ i.maxp1 \in Nat /\ lo <= i.min /\ Len(i.sc) \in Nat /\ Before(S, i) \in Nat
      BY Zenon, <2>5
    <3>9. lo <= i.sc[x] /\ i.sc[x] + ((Before(S, i) + Len(i.sc) + Count(A)) - (Before(S, i) + x)) < hi
      BY Zenon, <2>10, <3>2, <3>5, <3>6, <3>7, <3>8, <1>RoomWithin
    <3> QED BY Zenon, <3>2, <3>4, <3>9
  <2>11. ASSUME NEW p \in 1..n, NEW q \in 1..n, p < q, sc[p] # 0, sc[q] # 0 PROVE sc[p] < sc[q]
    <3>1. PICK i \in S : \E x \in 1..Len(i.sc) : p = Before(S, i) + x /\ sc[p] = i.sc[x] BY Zenon, <2>4
    <3>2. PICK x \in 1..Len(i.sc) : p = Before(S, i) + x /\ sc[p] = i.sc[x] BY Zenon, <3>1
    <3>3. PICK j \in S : \E y \in 1..Len(j.sc) : q = Before(S, j) + y /\ sc[q] = j.sc[y] BY Zenon, <2>4
    <3>4. PICK y \in 1..Len(j.sc) : q = Before(S, j) + y /\ sc[q] = j.sc[y] BY Zenon, <3>3
    <3>5. i.sc[x] \in Nat /\ j.sc[y] \in Nat
      <4>1. i.sc[x] \in 0..MaxSeq /\ j.sc[y] \in 0..MaxSeq BY Zenon, <2>6
      <4> QED BY ONLY <4>1
    <3>6. i.min \in Nat /\ i.maxp1 \in Nat /\ Len(i.sc) \in Nat /\ Before(S, i) \in Nat BY Zenon, <2>5
    <3>7. j.min \in Nat /\ j.maxp1 \in Nat /\ Len(j.sc) \in Nat /\ Before(S, j) \in Nat BY Zenon, <2>5
    <3>8. CASE i.min < j.min
      <4>1. i.maxp1 < j.min BY Zenon, <3>8, ApartFacts
      <4>2. i.sc[x] + (Len(i.sc) - x) < i.maxp1 BY Zenon, <2>5, <2>11, <3>2 DEF ChainOK
      <4>3. j.min <= j.sc[y] BY Zenon, <2>5, <2>11, <3>4 DEF ChainOK
      <4>4. PICK v : v = i.sc[x] BY Zenon
      <4>5. PICK w : w = j.sc[y] BY Zenon
      <4>6. v \in Nat /\ w \in Nat /\ v + (Len(i.sc) - x) < i.maxp1 /\ j.min <= w
        BY Zenon, <3>5, <4>2, <4>3, <4>4, <4>5
      <4>7. v < w BY ONLY <3>6, <3>7, <4>1, <4>6, x \in 1..Len(i.sc)
      <4> QED BY Zenon, <3>2, <3>4, <4>4, <4>5, <4>7
    <3>9. CASE j.min < i.min
      <4>1. Before(S, j) + Len(j.sc) <= Before(S, i) BY Zenon, <3>9, <1>BeforeLess
      <4> QED BY ONLY <2>11, <3>2, <3>4, <3>6, <3>7, <4>1, x \in 1..Len(i.sc), y \in 1..Len(j.sc)
    <3>10. CASE i.min = j.min
      <4>1. i = j BY Zenon, <3>10, ApartFacts
      <4>2. x < y
        <5>1. p = Before(S, i) + x /\ q = Before(S, i) + y /\ x \in Nat /\ y \in Nat
          BY ONLY <3>2, <3>4, <3>6, <3>7, <4>1, x \in 1..Len(i.sc), y \in 1..Len(j.sc)
        <5> QED BY ONLY <2>11, <3>6, <5>1
      <4>3. i.sc[x] < i.sc[y] BY Zenon, <2>5, <2>11, <3>2, <3>4, <4>1, <4>2 DEF ChainOK
      <4> QED BY Zenon, <3>2, <3>4, <4>1, <4>3
    <3>11. i.min < j.min \/ j.min < i.min \/ i.min = j.min BY ONLY <3>6, <3>7
    <3> QED BY Zenon, <3>8, <3>9, <3>10, <3>11
  <2>12. ChainOK(lo, hi, sc)
    <3>1. \A p \in 1..Len(sc) : sc[p] # 0 => lo <= sc[p] /\ sc[p] + (Len(sc) - p) < hi BY Zenon, <2>8, <2>10
    <3>2. \A p, q \in 1..Len(sc) : p < q /\ sc[p] # 0 /\ sc[q] # 0 => sc[p] < sc[q] BY Zenon, <2>8, <2>11
    <3>3. Len(sc) > 0 /\ lo + Len(sc) <= hi BY Zenon, <2>8, <2>9
    <3> QED BY Zenon, <2>8, <3>1, <3>2, <3>3 DEF ChainOK
  <2> QED BY Zenon, <2>1, <2>2, <2>8, <2>12
<1>RngChained. ASSUME NEW S, IvsOK(S), S # {}
               PROVE  Rng(Chained(S)) = UNION {Rng(i.sc) : i \in S}
  <2> USE <1>RngChained
  <2>1. DOMAIN Chained(S) = 1..Count(S)
    <3> DEFINE at(q) == CHOOSE j \in S : q - Before(S, j) \in DOMAIN j.sc
    <3>1. Chained(S) = [q \in 1..Count(S) |-> at(q).sc[q - Before(S, at(q))]] BY Zenon, <1>ChainedIs
    <3> HIDE DEF at
    <3> QED BY Zenon, <3>1
  <2>2. \A i \in S : DOMAIN i.sc = 1..Len(i.sc) BY Zenon, IvFields DEF IvsOK
  <2>3. ASSUME NEW v \in Rng(Chained(S)) PROVE \E i \in S : v \in Rng(i.sc)
    <3>1. PICK p \in 1..Count(S) : v = Chained(S)[p] BY Zenon, <2>1 DEF Rng
    <3>2. PICK i \in S : \E x \in 1..Len(i.sc) : p = Before(S, i) + x /\ Chained(S)[p] = i.sc[x]
      BY Zenon, <1>ChainedAt
    <3> QED BY Zenon, <2>2, <3>1, <3>2 DEF Rng
  <2>4. ASSUME NEW i \in S, NEW v \in Rng(i.sc) PROVE v \in Rng(Chained(S))
    <3>1. PICK x \in 1..Len(i.sc) : v = i.sc[x] BY Zenon, <2>2 DEF Rng
    <3>2. Before(S, i) + x \in 1..Count(S) /\ Chained(S)[Before(S, i) + x] = i.sc[x] BY Zenon, <1>ChainedHas
    <3> QED BY Zenon, <2>1, <3>1, <3>2 DEF Rng
  <2> QED BY Zenon, <2>3, <2>4
<1> QED BY Zenon, <1>ChainedOK, <1>RngChained

\* What concatenation does to length and places.
LEMMA Cat ==
  ASSUME NEW V, NEW s \in Seq(V), NEW t \in Seq(V)
  PROVE  /\ s \o t \in Seq(V) /\ Len(s) \in Nat /\ Len(t) \in Nat /\ Len(s \o t) = Len(s) + Len(t)
         /\ \A x \in 1..Len(s) : (s \o t)[x] = s[x]
         /\ \A x \in (Len(s) + 1)..(Len(s) + Len(t)) : (s \o t)[x] = t[x - Len(s)]
OBVIOUS

\* A concatenation holds what its parts hold.
LEMMA RngCat ==
  ASSUME NEW V, NEW s \in Seq(V), NEW t \in Seq(V)
  PROVE  Rng(s \o t) = Rng(s) \cup Rng(t)
<1>1. PICK u : u = s \o t BY Zenon
<1>2. u \in Seq(V) /\ Len(s) \in Nat /\ Len(t) \in Nat /\ Len(u) = Len(s) + Len(t) BY Zenon, <1>1, Cat
<1>3. \A x \in 1..Len(s) : u[x] = s[x] BY Zenon, <1>1, Cat
<1>4. \A x \in (Len(s) + 1)..(Len(s) + Len(t)) : u[x] = t[x - Len(s)] BY Zenon, <1>1, Cat
<1>5. DOMAIN s = 1..Len(s) /\ DOMAIN t = 1..Len(t) /\ DOMAIN u = 1..(Len(s) + Len(t))
  BY ONLY <1>2, s \in Seq(V), t \in Seq(V)
<1>6. ASSUME NEW v \in Rng(u) PROVE v \in Rng(s) \/ v \in Rng(t)
  <2>1. PICK x \in 1..(Len(s) + Len(t)) : v = u[x] BY Zenon, <1>5 DEF Rng
  <2>2. x \in 1..Len(s) \/ (x \in (Len(s) + 1)..(Len(s) + Len(t)) /\ x - Len(s) \in 1..Len(t))
    BY ONLY <1>2, x \in 1..(Len(s) + Len(t))
  <2> QED BY Zenon, <1>3, <1>4, <1>5, <2>1, <2>2 DEF Rng
<1>7. ASSUME NEW v \in Rng(s) PROVE v \in Rng(u)
  <2>1. PICK x \in 1..Len(s) : v = s[x] BY Zenon, <1>5 DEF Rng
  <2>2. x \in 1..(Len(s) + Len(t)) BY ONLY <1>2, x \in 1..Len(s)
  <2> QED BY Zenon, <1>3, <1>5, <2>1, <2>2 DEF Rng
<1>8. ASSUME NEW v \in Rng(t) PROVE v \in Rng(u)
  <2>1. PICK x \in 1..Len(t) : v = t[x] BY Zenon, <1>5 DEF Rng
  <2>2. PICK y : y = Len(s) + x BY Zenon
  <2>3. y \in (Len(s) + 1)..(Len(s) + Len(t)) /\ y \in 1..(Len(s) + Len(t)) /\ y - Len(s) = x
    BY ONLY <1>2, <2>2, x \in 1..Len(t)
  <2>4. u[y] = t[x] BY Zenon, <1>4, <2>3
  <2> QED BY Zenon, <1>5, <2>1, <2>3, <2>4 DEF Rng
<1> QED BY Zenon, <1>1, <1>6, <1>7, <1>8

\* The interval of one sample.
LEMMA SingleOK ==
  ASSUME NEW s \in 1..MaxSeq, NEW i, i = Interval(s, s + 1, <<s>>)
  PROVE  IvOK(i) /\ i.min = s /\ i.maxp1 = s + 1 /\ Len(i.sc) = 1 /\ Rng(i.sc) = {s} /\ i.sc = <<s>>
<1>1. i.min = s /\ i.maxp1 = s + 1 /\ i.sc = <<s>> BY Zenon DEF Interval
<1>2. PICK c : c = <<s>> BY Zenon
<1>3. s \in Nat /\ s > 0 /\ s <= MaxSeq /\ s \in 0..MaxSeq BY MaxSeqNat
<1>4. c \in Seq(0..MaxSeq) /\ Len(c) = 1 /\ c[1] = s /\ DOMAIN c = {1} BY <1>2, <1>3
<1>5. Rng(c) = {s} BY Zenon, <1>4 DEF Rng
<1>6. ChainOK(s, s + 1, c)
  <2>1. \A x \in 1..Len(c) : x = 1 BY <1>4
  <2>2. \A x \in 1..Len(c) : c[x] # 0 => s <= c[x] /\ c[x] + (Len(c) - x) < s + 1 BY <1>3, <1>4, <2>1
  <2>3. \A x, y \in 1..Len(c) : x < y /\ c[x] # 0 /\ c[y] # 0 => c[x] < c[y] BY <2>1
  <2>4. Len(c) > 0 /\ s + Len(c) <= s + 1 BY <1>3, <1>4
  <2> QED BY Zenon, <1>4, <2>2, <2>3, <2>4 DEF ChainOK
<1>7. s \in Nat \ {0} /\ s + 1 \in Nat /\ s + 1 <= MaxSeq + 1 BY <1>3, MaxSeqNat
<1>8. IvOK(i) BY Zenon, <1>1, <1>2, <1>6, <1>7 DEF IvOK
<1>9. Len(i.sc) = 1 /\ Rng(i.sc) = {s} BY Zenon, <1>1, <1>2, <1>4, <1>5
<1> QED BY Zenon, <1>1, <1>8, <1>9

\* The interval i is a followed by b.
Appended(i, a, b) ==
  /\ IvOK(i) /\ i.min = a.min /\ i.maxp1 = b.maxp1 /\ Len(i.sc) = Len(a.sc) + Len(b.sc)
  /\ i.sc = a.sc \o b.sc /\ Rng(i.sc) = Rng(a.sc) \cup Rng(b.sc)

\* append_rsample_interval makes an interval of two that touch.
LEMMA AppendOK ==
  \A a, b :
    IvOK(a) /\ IvOK(b) /\ a.maxp1 <= b.min
    => Appended(append_rsample_interval(a, b), a, b)
\* A chain that goes on where another one ends.
<1>CatOK. ASSUME NEW lo \in Nat, NEW mid \in Nat, NEW next \in Nat, NEW hi \in Nat, mid <= next,
                 NEW s, ChainOK(lo, mid, s), NEW t, ChainOK(next, hi, t)
          PROVE  ChainOK(lo, hi, s \o t) /\ Len(s \o t) = Len(s) + Len(t)
  <2> USE <1>CatOK
  <2>1. s \in Seq(0..MaxSeq) /\ t \in Seq(0..MaxSeq) BY Zenon DEF ChainOK
  <2>2. PICK u : u = s \o t BY Zenon
  <2>3. u \in Seq(0..MaxSeq) /\ Len(s) \in Nat /\ Len(t) \in Nat /\ Len(u) = Len(s) + Len(t)
    BY Zenon, <2>1, <2>2, Cat
  <2>4. \A x \in 1..Len(s) : u[x] = s[x] BY Zenon, <2>1, <2>2, Cat
  <2>5. \A x \in (Len(s) + 1)..(Len(s) + Len(t)) : u[x] = t[x - Len(s)] BY Zenon, <2>1, <2>2, Cat
  <2>6. Len(s) > 0 /\ lo + Len(s) <= mid /\ Len(t) > 0 /\ next + Len(t) <= hi BY Zenon DEF ChainOK
  <2>7. Len(u) > 0 /\ lo + Len(u) <= hi
    BY ONLY <2>3, <2>6, lo \in Nat, mid \in Nat, next \in Nat, hi \in Nat, mid <= next
  <2>8. ASSUME NEW x \in 1..Len(u)
        PROVE  \/ x \in 1..Len(s) /\ u[x] = s[x] /\ s[x] \in Nat
               \/ \E y \in 1..Len(t) : x = Len(s) + y /\ u[x] = t[y] /\ t[y] \in Nat
    <3>1. CASE x \in 1..Len(s)
      <4>1. u[x] = s[x] /\ s[x] \in 0..MaxSeq BY Zenon, <2>1, <2>4, <3>1, SeqElt
      <4>2. s[x] \in Nat BY ONLY <4>1
      <4> QED BY Zenon, <3>1, <4>1, <4>2
    <3>2. CASE x \notin 1..Len(s)
      <4>1. PICK y : y = x - Len(s) BY Zenon
      <4>2. x \in (Len(s) + 1)..(Len(s) + Len(t)) /\ y \in 1..Len(t) /\ x = Len(s) + y
        BY ONLY <2>3, <3>2, <4>1, x \in 1..Len(u)
      <4>3. u[x] = t[y] /\ t[y] \in 0..MaxSeq BY Zenon, <2>1, <2>5, <4>1, <4>2, SeqElt
      <4>4. t[y] \in Nat BY ONLY <4>3
      <4> QED BY Zenon, <4>2, <4>3, <4>4
    <3> QED BY Zenon, <3>1, <3>2
  <2>9. ASSUME NEW x \in 1..Len(s), s[x] # 0, s[x] \in Nat
        PROVE  lo <= s[x] /\ s[x] + (Len(u) - x) < hi /\ s[x] < next
    <3>1. lo <= s[x] /\ s[x] + (Len(s) - x) < mid BY Zenon, <2>9 DEF ChainOK
    <3>2. PICK v \in Nat : v = s[x] BY Zenon, <2>9
    <3>3. lo <= v /\ v + (Len(s) - x) < mid BY Zenon, <3>1, <3>2
    <3>4. lo <= v /\ v + (Len(u) - x) < hi /\ v < next
     
        BY ONLY <2>3, <2>6, <3>3, lo \in Nat, mid \in Nat, next \in Nat, hi \in Nat, mid <= next, x \in 1..Len(s), v \in Nat
    <3> QED BY Zenon, <3>2, <3>4
  <2>10. ASSUME NEW y \in 1..Len(t), t[y] # 0, t[y] \in Nat
         PROVE  lo <= t[y] /\ t[y] + (Len(u) - (Len(s) + y)) < hi /\ next <= t[y]
    <3>1. next <= t[y] /\ t[y] + (Len(t) - y) < hi BY Zenon, <2>10 DEF ChainOK
    <3>2. PICK v \in Nat : v = t[y] BY Zenon, <2>10
    <3>3. next <= v /\ v + (Len(t) - y) < hi BY Zenon, <3>1, <3>2
    <3>4. lo <= v /\ v + (Len(u) - (Len(s) + y)) < hi
     
        BY ONLY <2>3, <2>6, <3>3, lo \in Nat, mid \in Nat, next \in Nat, hi \in Nat, mid <= next, y \in 1..Len(t), v \in Nat
    <3> QED BY Zenon, <3>2, <3>3, <3>4
  <2>11. \A x \in 1..Len(u) : u[x] # 0 => lo <= u[x] /\ u[x] + (Len(u) - x) < hi
    <3> SUFFICES ASSUME NEW x \in 1..Len(u), u[x] # 0 PROVE lo <= u[x] /\ u[x] + (Len(u) - x) < hi BY Zenon
    <3> QED BY Zenon, <2>8, <2>9, <2>10
  <2>12. \A x, y \in 1..Len(u) : x < y /\ u[x] # 0 /\ u[y] # 0 => u[x] < u[y]
    <3> SUFFICES ASSUME NEW x \in 1..Len(u), NEW y \in 1..Len(u), x < y, u[x] # 0, u[y] # 0 PROVE u[x] < u[y]
      BY Zenon
    <3>1. CASE x \in 1..Len(s) /\ u[x] = s[x] /\ s[x] \in Nat
      <4>1. CASE y \in 1..Len(s) /\ u[y] = s[y]
        <5>1. s[x] < s[y] BY Zenon, <3>1, <4>1 DEF ChainOK
        <5> QED BY Zenon, <3>1, <4>1, <5>1
      <4>2. CASE \E z \in 1..Len(t) : y = Len(s) + z /\ u[y] = t[z] /\ t[z] \in Nat
        <5>1. PICK z \in 1..Len(t) : u[y] = t[z] /\ t[z] \in Nat BY Zenon, <4>2
        <5>2. s[x] < next /\ next <= t[z] BY Zenon, <2>9, <2>10, <3>1, <5>1
        <5>3. u[x] \in Nat /\ u[y] \in Nat /\ u[x] < next /\ next <= u[y] BY Zenon, <3>1, <5>1, <5>2
        <5> QED BY ONLY <5>3, next \in Nat
      <4> QED BY Zenon, <2>8, <4>1, <4>2
    <3>2. CASE \E z \in 1..Len(t) : x = Len(s) + z /\ u[x] = t[z]
      <4>1. PICK w \in 1..Len(t) : x = Len(s) + w /\ u[x] = t[w] BY Zenon, <3>2
      <4>2. y \notin 1..Len(s) BY ONLY <2>3, <4>1, x < y, x \in 1..Len(u), y \in 1..Len(u), w \in 1..Len(t)
      <4>3. PICK z \in 1..Len(t) : y = Len(s) + z /\ u[y] = t[z] BY Zenon, <2>8, <4>2
      <4>4. w < z BY ONLY <2>3, <4>1, <4>3, x < y, w \in 1..Len(t), z \in 1..Len(t)
      <4>5. t[w] < t[z] BY Zenon, <4>1, <4>3, <4>4 DEF ChainOK
      <4> QED BY Zenon, <4>1, <4>3, <4>5
    <3> QED BY Zenon, <2>8, <3>1, <3>2
  <2>13. ChainOK(lo, hi, u) BY Zenon, <2>3, <2>7, <2>11, <2>12 DEF ChainOK
  <2> QED BY Zenon, <2>2, <2>3, <2>13
<1>Main. ASSUME NEW a, IvOK(a), NEW b, IvOK(b), a.maxp1 <= b.min
         PROVE  Appended(append_rsample_interval(a, b), a, b)
  <2> USE <1>Main
  <2>0. PICK i : i = append_rsample_interval(a, b) BY Zenon
  <2>1. i.min = a.min /\ i.maxp1 = b.maxp1 /\ i.sc = a.sc \o b.sc
    BY Zenon, <2>0 DEF append_rsample_interval, Interval
  <2>2. a.min \in Nat \ {0} /\ a.maxp1 \in Nat /\ ChainOK(a.min, a.maxp1, a.sc) BY Zenon DEF IvOK
  <2>3. b.min \in Nat /\ b.maxp1 \in Nat /\ b.maxp1 <= MaxSeq + 1 /\ ChainOK(b.min, b.maxp1, b.sc)
    BY Zenon DEF IvOK
  <2>4. a.min \in Nat BY Zenon, <2>2
  <2>5. ChainOK(a.min, b.maxp1, a.sc \o b.sc) /\ Len(a.sc \o b.sc) = Len(a.sc) + Len(b.sc)
    <3>1. PICK s : s = a.sc BY Zenon
    <3>2. PICK t : t = b.sc BY Zenon
    <3>3. ChainOK(a.min, a.maxp1, s) /\ ChainOK(b.min, b.maxp1, t) BY Zenon, <2>2, <2>3, <3>1, <3>2
    <3>4. PICK lo \in Nat : lo = a.min BY Zenon, <2>4
    <3>5. PICK mid \in Nat : mid = a.maxp1 BY Zenon, <2>2
    <3>6. PICK next \in Nat : next = b.min BY Zenon, <2>3
    <3>7. PICK hi \in Nat : hi = b.maxp1 BY Zenon, <2>3
    <3>8. ChainOK(lo, mid, s) /\ ChainOK(next, hi, t) /\ mid <= next BY Zenon, <3>3, <3>4, <3>5, <3>6, <3>7
    <3>9. ChainOK(lo, hi, s \o t) /\ Len(s \o t) = Len(s) + Len(t)
      BY ONLY <3>8, <1>CatOK, lo \in Nat, mid \in Nat, next \in Nat, hi \in Nat
    <3> QED BY Zenon, <3>1, <3>2, <3>4, <3>7, <3>9
  <2>6. IvOK(i) BY Zenon, <2>1, <2>2, <2>3, <2>5 DEF IvOK
  <2>7. a.sc \in Seq(0..MaxSeq) /\ b.sc \in Seq(0..MaxSeq) BY Zenon, <2>2, <2>3 DEF ChainOK
  <2>8. Rng(a.sc \o b.sc) = Rng(a.sc) \cup Rng(b.sc)
    <3>1. PICK s : s = a.sc BY Zenon
    <3>2. PICK t : t = b.sc BY Zenon
    <3>3. s \in Seq(0..MaxSeq) /\ t \in Seq(0..MaxSeq) BY Zenon, <2>7, <3>1, <3>2
    <3>4. Rng(s \o t) = Rng(s) \cup Rng(t) BY ONLY <3>3, RngCat
    <3> QED BY Zenon, <3>1, <3>2, <3>4
  <2>9. Appended(i, a, b) BY Zenon, <2>1, <2>5, <2>6, <2>8 DEF Appended
  <2> QED BY Zenon, <2>0, <2>9
<1> QED BY Zenon, <1>Main

\* The first elements of a chain.
LEMMA Prefix ==
  ASSUME NEW V, NEW s \in Seq(V), NEW m \in 0..Len(s)
  PROVE  SubSeq(s, 1, m) \in Seq(V) /\ Len(SubSeq(s, 1, m)) = m /\ \A x \in 1..m : SubSeq(s, 1, m)[x] = s[x]
OBVIOUS

---------------------------------------------------------------------------
(* What is done to the tree. *)

\* Intervals are replaced by one that is apart from the others.
LEMMA Replaced ==
  ASSUME NEW S, IvsOK(S), NEW R, R \subseteq S, NEW w, IvOK(w),
         \A j \in S \ R : w.maxp1 < j.min \/ j.maxp1 < w.min
  PROVE  IvsOK((S \ R) \cup {w}) /\ Count((S \ R) \cup {w}) = Count(S) - Count(R) + Len(w.sc)
<1>1. IvsOK((S \ R) \cup {w})
  <2>1. IvsOK(S \ R) BY Zenon, SubIvs
  <2> QED BY Zenon, <2>1 DEF IvsOK, Apart
<1>2. w \notin S \ R
  <2> SUFFICES ASSUME w \in S \ R PROVE FALSE BY Zenon
  <2>1. w.maxp1 < w.min BY Zenon
  <2>2. w.min \in Nat /\ w.maxp1 \in Nat /\ w.min < w.maxp1 BY Zenon, IvFields
  <2> QED BY ONLY <2>1, <2>2
<1> QED BY <1>1, <1>2, CountReplace

\* The interval that no other follows is the one Highest chooses.
LEMMA HighestIs ==
  ASSUME NEW S, IvsOK(S), NEW h \in S, \A j \in S : j.min <= h.min
  PROVE  Highest(S) = h
<1>1. \A j \in S : IvOK(j) BY Zenon DEF IvsOK
<1>2. PICK k : k = Highest(S) BY Zenon
<1>3. k \in S /\ k.min >= h.min BY Zenon, <1>1, <1>2, EndsFound
<1>4. k.min \in Nat /\ h.min \in Nat BY Zenon, <1>1, <1>3, IvFields
<1>5. k.min <= h.min BY Zenon, <1>3
<1>6. k.min = h.min BY ONLY <1>3, <1>4, <1>5
<1> QED BY Zenon, <1>2, <1>3, <1>6, ApartFacts

\* The absent interval lies before all others.
LEMMA NoIvFields == NoIv.min = 0 /\ NoIv.maxp1 = 0 /\ Highest({}) = NoIv /\ Lowest({}) = NoIv
<1>1. NoIv.min = 0 /\ NoIv.maxp1 = 0 BY Zenon DEF NoIv, Interval
<1>2. Highest({}) = NoIv /\ Lowest({}) = NoIv BY Zenon DEF Highest, Lowest
<1> QED BY Zenon, <1>1, <1>2

\* It is told apart from the intervals of the tree.
LEMMA IvIsNoNoIv ==
  ASSUME NEW i, IvOK(i)
  PROVE  i # NoIv
<1>1. i.min \in Nat /\ i.min > 0 BY Zenon, IvFields
<1>2. i.min # 0 BY ONLY <1>1
<1> QED BY Zenon, <1>2, NoIvFields

---------------------------------------------------------------------------
(* The last sample makes room. *)

Fields == {"mode", "max_samples", "late_ack_mode", "sampleivtree", "max_sampleiv", "next_seq", "n_samples"}

\* The samples of some intervals.
Content(S) == {v \in UNION {Rng(i.sc) : i \in S} : v # 0}

\* An interval of samples only.
Tight(i) == Len(i.sc) = i.maxp1 - i.min /\ \A x \in 1..Len(i.sc) : i.sc[x] = i.min + (x - 1)

\* All but the tree is left alone.
SameButTree(q, r) ==
  /\ DOMAIN q = Fields /\ q.mode = r.mode /\ q.max_samples = r.max_samples /\ q.late_ack_mode = r.late_ack_mode
  /\ q.next_seq = r.next_seq

\* A stored sample is in the chain of some interval.
LEMMA ContentIs ==
  ASSUME NEW S, NEW v
  PROVE  v \in Content(S) <=> v # 0 /\ \E i \in S : v \in Rng(i.sc)
BY Zenon DEF Content

\* It lies within that interval.
LEMMA InRange ==
  ASSUME NEW i, IvOK(i), NEW v \in Rng(i.sc), v # 0
  PROVE  v \in Nat /\ i.min <= v /\ v < i.maxp1
<1>1. DOMAIN i.sc = 1..Len(i.sc) /\ i.sc \in Seq(0..MaxSeq) /\ i.min \in Nat /\ i.maxp1 \in Nat /\ Len(i.sc) \in Nat
  BY Zenon, IvFields
<1>2. PICK x \in 1..Len(i.sc) : v = i.sc[x] BY Zenon, <1>1 DEF Rng
<1>3. v \in 0..MaxSeq BY Zenon, <1>1, <1>2, SeqElt
<1>4. i.min <= v /\ v + (Len(i.sc) - x) < i.maxp1 BY Zenon, <1>2 DEF IvOK, ChainOK
<1>5. v \in Nat BY ONLY <1>3
<1> QED BY ONLY <1>1, <1>4, <1>5, x \in 1..Len(i.sc)

\* The cached max_sampleiv leads to the last interval.
LEMMA MaxIvIs ==
  ASSUME NEW r, IvsOK(r.sampleivtree), r.max_sampleiv = Highest(r.sampleivtree).min
  PROVE  MaxIv(r) = Highest(r.sampleivtree)
<1>1. PICK T : T = r.sampleivtree BY Zenon
<1>2. IvsOK(T) /\ \A i \in T : IvOK(i) BY Zenon, <1>1 DEF IvsOK
<1>3. PICK m : m = Highest(T).min BY Zenon
<1>4. PICK Q : Q = {i \in T : i.min = m} BY Zenon
<1>5. MaxIv(r) = Highest(Q) BY Zenon, <1>1, <1>3, <1>4 DEF MaxIv
<1>6. CASE T = {}
  <2>1. Q = {} BY Zenon, <1>4, <1>6
  <2> QED BY Zenon, <1>1, <1>5, <1>6, <2>1
<1>7. CASE T # {}
  <2>1. PICK h : h = Highest(T) BY Zenon
  <2>2. h \in T BY Zenon, <1>2, <1>7, <2>1, EndsFound
  <2>3. Q = {h} BY Zenon, <1>2, <1>3, <1>4, <2>1, <2>2, ApartFacts
  <2>4. IvsOK(Q) /\ h \in Q /\ \A j \in Q : j = h BY Zenon, <1>2, <1>4, <2>2, <2>3, SubIvs
  <2>5. h.min \in Nat BY Zenon, <1>2, <2>2, IvFields
  <2>6. h.min <= h.min BY ONLY <2>5
  <2>7. \A j \in Q : j.min <= h.min BY Zenon, <2>4, <2>6
  <2>8. Highest(Q) = h BY Zenon, <2>4, <2>7, HighestIs
  <2> QED BY Zenon, <1>1, <1>5, <2>1, <2>8
<1> QED BY Zenon, <1>6, <1>7

---------------------------------------------------------------------------
(* The inductive invariant. *)

Modes == {"NORMAL", "MONOTONICALLY_INCREASING", "ALWAYS_DELIVER"}

BufferOK(r) ==
  /\ DOMAIN r = Fields /\ r.mode \in Modes /\ r.max_samples \in Nat /\ r.next_seq \in 1..(MaxSeq + 1)
  /\ \E b \in Buffers : b.max_samples = r.max_samples
  /\ IvsOK(r.sampleivtree) /\ \A i \in r.sampleivtree : r.next_seq < i.min
  /\ r.max_sampleiv = Highest(r.sampleivtree).min
  /\ r.n_samples = Count(r.sampleivtree) /\ r.n_samples <= r.max_samples
  /\ r.mode # "NORMAL" => r.sampleivtree = {}

With(S, R, w) == (S \ R) \cup {w}

\* w can take the place of the intervals R.
Fits(r, R, w) ==
  /\ r.mode = "NORMAL" /\ R \subseteq r.sampleivtree /\ IvOK(w) /\ r.next_seq < w.min
  /\ \A j \in r.sampleivtree \ R : w.maxp1 < j.min \/ j.maxp1 < w.min

\* What the invariant says of the numbers in the buffer.
LEMMA Buffer ==
  ASSUME NEW r, BufferOK(r)
  PROVE  /\ r.max_samples \in Nat /\ r.n_samples \in Nat /\ r.next_seq \in Nat /\ r.next_seq > 0
         /\ r.next_seq <= MaxSeq + 1
         /\ \A i \in r.sampleivtree : IvOK(i) /\ i.min \in Nat /\ i.maxp1 \in Nat /\ i.min < i.maxp1
<1>1. r.max_samples \in Nat /\ r.next_seq \in 1..(MaxSeq + 1) BY Zenon DEF BufferOK
<1>2. r.n_samples \in Nat BY Zenon, CountFinite DEF BufferOK
<1>3. \A i \in r.sampleivtree : IvOK(i) BY Zenon DEF BufferOK, IvsOK
<1>4. \A i \in r.sampleivtree : IvOK(i) /\ i.min \in Nat /\ i.maxp1 \in Nat /\ i.min < i.maxp1
  BY Zenon, <1>3, IvFields
<1>5. r.next_seq \in Nat /\ r.next_seq > 0 /\ r.next_seq <= MaxSeq + 1 BY ONLY <1>1, MaxSeqNat
<1> QED BY Zenon, <1>1, <1>2, <1>4, <1>5

\* The tree, and its count, when intervals are replaced by one that fits.
LEMMA FitsIn ==
  ASSUME NEW r, BufferOK(r), NEW R, NEW w, Fits(r, R, w), NEW U, U = With(r.sampleivtree, R, w)
  PROVE  /\ IvsOK(U) /\ Count(U) = r.n_samples - Count(R) + Len(w.sc) /\ \A i \in U : r.next_seq < i.min
         /\ Count(R) \in Nat /\ Len(w.sc) \in Nat
<1>1. PICK T : T = r.sampleivtree BY Zenon
<1>2. IvsOK(T) /\ R \subseteq T /\ IvOK(w) /\ (\A j \in T \ R : w.maxp1 < j.min \/ j.maxp1 < w.min) /\ U = (T \ R) \cup {w}
  BY Zenon, <1>1 DEF BufferOK, Fits, With
<1>3. IvsOK(U) /\ Count(U) = Count(T) - Count(R) + Len(w.sc)
  <2>1. IvsOK((T \ R) \cup {w}) /\ Count((T \ R) \cup {w}) = Count(T) - Count(R) + Len(w.sc) BY <1>2, Replaced
  <2> QED BY Zenon, <1>2, <2>1
<1>4. Count(T) = r.n_samples BY Zenon, <1>1 DEF BufferOK
<1>5. \A i \in U : r.next_seq < i.min BY Zenon, <1>1, <1>2 DEF BufferOK, Fits
<1>6. Count(R) \in Nat /\ Len(w.sc) \in Nat BY Zenon, <1>2, CountSplit, IvFields
<1> QED BY Zenon, <1>3, <1>4, <1>5, <1>6

\* An element more, when there is room for it.
LEMMA MoreOK ==
  ASSUME NEW r, BufferOK(r), NEW R, NEW w, Fits(r, R, w), Len(w.sc) = Count(R) + 1, r.n_samples < r.max_samples,
         NEW q, SameButTree(q, r), q.sampleivtree = With(r.sampleivtree, R, w),
         q.max_sampleiv = Highest(q.sampleivtree).min, q.n_samples = r.n_samples + 1
  PROVE  BufferOK(q)
<1>1. PICK U : U = With(r.sampleivtree, R, w) BY Zenon
<1>2. /\ IvsOK(U) /\ Count(U) = r.n_samples - Count(R) + Len(w.sc) /\ \A i \in U : r.next_seq < i.min
      /\ Count(R) \in Nat
  BY ONLY <1>1, BufferOK(r), Fits(r, R, w), FitsIn
<1>3. r.max_samples \in Nat /\ r.n_samples \in Nat BY Zenon, Buffer
<1>4. Count(U) = r.n_samples + 1 /\ r.n_samples + 1 <= r.max_samples
  BY ONLY <1>2, <1>3, Len(w.sc) = Count(R) + 1, r.n_samples < r.max_samples
<1>5. r.mode = "NORMAL" BY Zenon DEF Fits
<1>6. /\ q.n_samples = Count(q.sampleivtree) /\ q.n_samples <= q.max_samples /\ IvsOK(q.sampleivtree)
      /\ \A i \in q.sampleivtree : q.next_seq < i.min
  BY Zenon, <1>1, <1>2, <1>4 DEF SameButTree
<1> QED BY Zenon, <1>5, <1>6 DEF BufferOK, SameButTree

\* What delete_last_sample leaves of the intervals U.
LeftOf(U, V) ==
  /\ \A s \in Content(U) \ Content(V) : \A t \in Content(V) : t < s
  /\ (\A i \in U : Tight(i)) => \A i \in V : Tight(i)

\* An element more, and the last one less, when there is not.
LEMMA EvictOK ==
  \A r, R, w, p, q :
    /\ BufferOK(r) /\ Fits(r, R, w) /\ Len(w.sc) = Count(R) + 1 /\ ~(r.n_samples < r.max_samples)
    /\ SameButTree(p, r) /\ p.sampleivtree = With(r.sampleivtree, R, w)
    /\ p.max_sampleiv = Highest(p.sampleivtree).min /\ p.n_samples = r.n_samples
    /\ q = delete_last_sample(p)
    => BufferOK(q) /\ SameButTree(q, r) /\ LeftOf(With(r.sampleivtree, R, w), q.sampleivtree)
\* An interval that loses its last element.
<1>ShrunkOK.
     ASSUME NEW a, IvOK(a), Len(a.sc) # 1, NEW i, i = Interval(a.min, a.maxp1 - 1, SubSeq(a.sc, 1, Len(a.sc) - 1))
     PROVE  /\ IvOK(i) /\ i.min = a.min /\ i.maxp1 = a.maxp1 - 1 /\ Len(i.sc) = Len(a.sc) - 1
            /\ \A x \in 1..Len(i.sc) : x \in 1..Len(a.sc) /\ x < Len(a.sc) /\ i.sc[x] = a.sc[x]
            /\ Rng(a.sc) = Rng(i.sc) \cup {a.sc[Len(a.sc)]}
  <2> USE <1>ShrunkOK
  <2>1. PICK c : c = a.sc BY Zenon
  <2>2. PICK d : d = SubSeq(c, 1, Len(c) - 1) BY Zenon
  <2>3. i.min = a.min /\ i.maxp1 = a.maxp1 - 1 /\ i.sc = d BY Zenon, <2>1, <2>2 DEF Interval
  <2>4. a.min \in Nat \ {0} /\ a.maxp1 \in Nat /\ a.maxp1 <= MaxSeq + 1 /\ ChainOK(a.min, a.maxp1, c)
    BY Zenon, <2>1 DEF IvOK
  <2>5. c \in Seq(0..MaxSeq) /\ Len(c) > 0 /\ a.min + Len(c) <= a.maxp1 BY Zenon, <2>4 DEF ChainOK
  <2>6. PICK n : n = Len(c) BY Zenon
  <2>7. n \in Nat /\ n > 1
    <3>1. n \in Nat BY ONLY <2>5, <2>6
    <3>2. n # 1 BY Zenon, <2>1, <2>6
    <3>3. n > 0 BY Zenon, <2>5, <2>6
    <3> QED BY ONLY <3>1, <3>2, <3>3
  <2>8. d \in Seq(0..MaxSeq) /\ Len(d) = n - 1 /\ \A x \in 1..(n - 1) : d[x] = c[x]
    <3>1. n - 1 \in 0..Len(c) BY ONLY <2>6, <2>7
    <3> QED BY Zenon, <2>2, <2>5, <2>6, <3>1, Prefix
  <2>9. \A x \in 1..n : c[x] \in Nat
    <3>1. \A x \in 1..n : c[x] \in 0..MaxSeq BY Zenon, <2>5, <2>6, SeqElt
    <3> QED BY ONLY <3>1
  <2>10. \A x \in 1..(n - 1) : x \in 1..n /\ x < n BY ONLY <2>7
  <2>11. ChainOK(a.min, a.maxp1 - 1, d)
    <3>1. ASSUME NEW x \in 1..(n - 1), d[x] # 0 PROVE a.min <= d[x] /\ d[x] + (n - 1 - x) < a.maxp1 - 1
      <4>1. PICK v : v = c[x] BY Zenon
      <4>2. v = d[x] /\ v \in Nat /\ x \in 1..n BY Zenon, <2>8, <2>9, <2>10, <4>1
      <4>3. a.min <= v /\ v + (n - x) < a.maxp1 BY Zenon, <2>4, <2>6, <3>1, <4>1, <4>2 DEF ChainOK
      <4>4. v + (n - 1 - x) < a.maxp1 - 1 BY ONLY <2>4, <2>7, <4>2, <4>3
      <4> QED BY Zenon, <4>2, <4>3, <4>4
    <3>2. ASSUME NEW x \in 1..(n - 1), NEW y \in 1..(n - 1), x < y, d[x] # 0, d[y] # 0 PROVE d[x] < d[y]
      <4>1. d[x] = c[x] /\ d[y] = c[y] /\ x \in 1..n /\ y \in 1..n BY Zenon, <2>8, <2>10
      <4>2. c[x] < c[y] BY Zenon, <2>4, <2>6, <3>2, <4>1 DEF ChainOK
      <4> QED BY Zenon, <4>1, <4>2
    <3>3. n - 1 > 0 /\ a.min + (n - 1) <= a.maxp1 - 1 BY ONLY <2>4, <2>5, <2>6, <2>7
    <3> QED BY Zenon, <2>8, <3>1, <3>2, <3>3 DEF ChainOK
  <2>12. a.maxp1 - 1 \in Nat /\ a.maxp1 - 1 <= MaxSeq + 1 BY ONLY <2>4, <2>5, <2>6, <2>7, MaxSeqNat
  <2>13. IvOK(i)
    <3>1. ChainOK(i.min, i.maxp1, i.sc) BY Zenon, <2>3, <2>11
    <3>2. i.min \in Nat \ {0} /\ i.maxp1 \in Nat /\ i.maxp1 <= MaxSeq + 1 BY Zenon, <2>3, <2>4, <2>12
    <3> QED BY Zenon, <3>1, <3>2 DEF IvOK
  <2>14. Rng(c) = Rng(d) \cup {c[n]}
    <3>1. DOMAIN c = 1..n /\ DOMAIN d = 1..(n - 1) BY ONLY <2>5, <2>6, <2>8
    <3>2. \A x \in 1..n : x \in 1..(n - 1) \/ x = n BY ONLY <2>7
    <3>3. n \in 1..n BY ONLY <2>7
    <3> QED BY Zenon, <2>8, <2>10, <3>1, <3>2, <3>3 DEF Rng
  <2>15. \A x \in 1..Len(i.sc) : x \in 1..Len(a.sc) /\ x < Len(a.sc) /\ i.sc[x] = a.sc[x]
    BY Zenon, <2>1, <2>3, <2>6, <2>8, <2>10
  <2> QED BY Zenon, <2>1, <2>3, <2>6, <2>8, <2>13, <2>14, <2>15
\* The last element of the last interval is a gap or the highest sample.
<1>LastIsHighest.
     ASSUME NEW S, IvsOK(S), NEW h \in S, \A j \in S : j.min <= h.min, NEW e, e = h.sc[Len(h.sc)], e # 0
     PROVE  \A t \in Content(S) : t <= e /\ t \in Nat
  <2> USE <1>LastIsHighest
  <2> SUFFICES ASSUME NEW t \in Content(S) PROVE t <= e /\ t \in Nat BY Zenon
  <2>1. PICK i \in S : t \in Rng(i.sc) /\ t # 0 BY Zenon, ContentIs
  <2>2. IvOK(i) /\ IvOK(h) BY Zenon DEF IvsOK
  <2>3. t \in Nat /\ i.min <= t /\ t < i.maxp1 BY Zenon, <2>1, <2>2, InRange
  <2>4. Len(h.sc) \in 1..Len(h.sc) /\ DOMAIN h.sc = 1..Len(h.sc)
    <3>1. Len(h.sc) \in Nat /\ Len(h.sc) > 0 BY Zenon, <2>2, IvFields
    <3>2. Len(h.sc) \in 1..Len(h.sc) BY ONLY <3>1
    <3> QED BY Zenon, <2>2, <3>2, IvFields
  <2>5. e \in Rng(h.sc) BY Zenon, <2>4 DEF Rng
  <2>6. e \in Nat /\ h.min <= e BY Zenon, <2>2, <2>5, InRange
  <2>7. i.min \in Nat /\ i.maxp1 \in Nat /\ h.min \in Nat BY Zenon, <2>2, IvFields
  <2>8. CASE i = h
    <3>1. PICK x \in 1..Len(h.sc) : t = h.sc[x] BY Zenon, <2>1, <2>4, <2>8 DEF Rng
    <3>2. x < Len(h.sc) => t < e BY Zenon, <2>1, <2>2, <2>4, <3>1 DEF IvOK, ChainOK
    <3>3. x = Len(h.sc) => t = e BY Zenon, <3>1
    <3>4. x < Len(h.sc) \/ x = Len(h.sc) BY ONLY x \in 1..Len(h.sc), <2>4
    <3>5. t < e \/ t = e BY Zenon, <3>2, <3>3, <3>4
    <3> QED BY ONLY <2>3, <2>6, <3>5
  <2>9. CASE i # h
    <3>1. i.min # h.min BY Zenon, <2>9, ApartFacts
    <3>2. i.min < h.min
      <4>1. i.min <= h.min BY Zenon
      <4> QED BY ONLY <2>7, <3>1, <4>1
    <3>3. i.maxp1 < h.min BY Zenon, <3>2, ApartFacts
    <3> QED BY ONLY <2>3, <2>6, <2>7, <3>3
  <2> QED BY Zenon, <2>8, <2>9
\* A sample is in the chain of one interval only.
<1>OnlyOne. ASSUME NEW S, IvsOK(S), NEW i \in S, NEW j \in S, NEW v, v # 0, v \in Rng(i.sc), v \in Rng(j.sc)
            PROVE  i = j
  <2> USE <1>OnlyOne
  <2>1. IvOK(i) /\ IvOK(j) /\ (i # j => i.maxp1 < j.min \/ j.maxp1 < i.min) BY Zenon DEF IvsOK, Apart
  <2>2. v \in Nat /\ i.min <= v /\ v < i.maxp1 BY Zenon, <2>1, InRange
  <2>3. j.min <= v /\ v < j.maxp1 BY Zenon, <2>1, InRange
  <2>4. i.min \in Nat /\ i.maxp1 \in Nat /\ j.min \in Nat /\ j.maxp1 \in Nat BY Zenon, <2>1, IvFields
  <2> QED BY ONLY <2>1, <2>2, <2>3, <2>4
\* delete_last_sample: the intervals stay as they must be, there is one element
\* less, and what goes is no sample or the highest one.
<1>DeleteLast.
     ASSUME NEW r, DOMAIN r = Fields, NEW T, T = r.sampleivtree, IvsOK(T), T # {},
            r.max_sampleiv = Highest(T).min, NEW q, q = delete_last_sample(r)
     PROVE  /\ SameButTree(q, r) /\ q.n_samples = r.n_samples
            /\ IvsOK(q.sampleivtree) /\ \A i \in q.sampleivtree : \E j \in T : j.min = i.min
            /\ q.max_sampleiv = Highest(q.sampleivtree).min
            /\ Count(q.sampleivtree) = Count(T) - 1
            /\ \A s \in Content(T) \ Content(q.sampleivtree) : \A t \in Content(q.sampleivtree) : t < s
            /\ Content(q.sampleivtree) \subseteq Content(T)
            /\ (\A i \in T : Tight(i)) => \A i \in q.sampleivtree : Tight(i)
  <2> USE <1>DeleteLast
  <2>1. PICK h : h = Highest(T) BY Zenon
  <2>2. \A i \in T : IvOK(i) BY Zenon DEF IvsOK
  <2>3. h \in T /\ \A j \in T : h.min >= j.min BY Zenon, <2>1, <2>2, EndsFound
  <2>4. \A j \in T : j.min \in Nat BY Zenon, <2>2, IvFields
  <2>5. \A j \in T : j.min <= h.min BY ONLY Zenon, <2>3, <2>4
  <2>6. MaxIv(r) = h BY Zenon, <2>1, MaxIvIs
  <2>7. PICK rest : rest = T \ {h} BY Zenon
  <2>8. IvOK(h) /\ IvsOK(rest) BY Zenon, <2>2, <2>3, <2>7, SubIvs
  <2>9. PICK e : e = h.sc[Len(h.sc)] BY Zenon
  <2>10. e # 0 => \A t \in Content(T) : t <= e /\ t \in Nat BY Zenon, <2>3, <2>5, <2>9, <1>LastIsHighest
  <2>11. Len(h.sc) \in Nat /\ Len(h.sc) > 0 /\ DOMAIN h.sc = 1..Len(h.sc) BY Zenon, <2>8, IvFields
  <2>13. Count(T) = Count({h}) + Count(rest) /\ Count(rest) \in Nat
    <3>1. {h} \subseteq T BY Zenon, <2>3
    <3> QED BY Zenon, <2>7, <3>1, CountSplit
  <2>14. Count({h}) = Len(h.sc) BY Zenon, <2>8, CountOne
  <2>15. ASSUME NEW U, Content(T) = U \cup ({e} \ {0}), e \notin U
         PROVE  (\A s \in Content(T) \ U : \A t \in U : t < s) /\ U \subseteq Content(T)
    <3> SUFFICES ASSUME NEW s \in Content(T) \ U, NEW t \in U PROVE t < s BY Zenon, <2>15
    <3>1. s = e /\ e # 0 /\ t \in Content(T) /\ s \in Content(T) /\ t # e BY Zenon, <2>15
    <3>2. t <= e /\ t \in Nat /\ e \in Nat BY Zenon, <2>10, <3>1
    <3>3. t < e BY ONLY <3>1, <3>2
    <3> QED BY Zenon, <3>1, <3>3
  <2>16. CASE Len(h.sc) = 1
    <3>1. q = [r EXCEPT !.sampleivtree = rest, !.max_sampleiv = Highest(rest).min]
      BY Zenon, <2>6, <2>7, <2>16 DEF delete_last_sample
    <3>2. /\ SameButTree(q, r) /\ q.n_samples = r.n_samples /\ q.sampleivtree = rest
          /\ q.max_sampleiv = Highest(rest).min BY Zenon, <3>1 DEF SameButTree, Fields
    <3>3. Count(rest) = Count(T) - 1 BY ONLY <2>13, <2>14, <2>16
    <3>4. Rng(h.sc) = {e}
      <4>1. DOMAIN h.sc = {1} BY ONLY <2>11, <2>16
      <4> QED BY Zenon, <2>9, <2>16, <4>1 DEF Rng
    <3>5. Content(T) = Content(rest) \cup ({e} \ {0})
      <4>1. \A v : (\E i \in T : v \in Rng(i.sc)) <=> (\E i \in rest : v \in Rng(i.sc)) \/ v = e
        BY Zenon, <2>3, <2>7, <3>4
      <4>2. \A v : v \in Content(T) <=> v \in Content(rest) \/ v \in {e} \ {0} BY Zenon, <4>1, ContentIs
      <4> QED BY Zenon, <4>2
    <3>6. e # 0 => e \notin Content(rest)
      <4> SUFFICES ASSUME e # 0, e \in Content(rest) PROVE FALSE BY Zenon
      <4>1. PICK i \in rest : e \in Rng(i.sc) BY Zenon, ContentIs
      <4>2. i \in T /\ i # h /\ IvOK(i) /\ e \in Rng(h.sc) BY Zenon, <2>2, <2>7, <3>4, <4>1
      <4> QED BY Zenon, <2>3, <4>1, <4>2, <1>OnlyOne
    <3>7. e \notin Content(rest) BY Zenon, <3>6, ContentIs
    <3>8. /\ \A s \in Content(T) \ Content(rest) : \A t \in Content(rest) : t < s
          /\ Content(rest) \subseteq Content(T)
      BY Zenon, <2>15, <3>5, <3>7
    <3>9. (\A i \in T : Tight(i)) => \A i \in rest : Tight(i) BY Zenon, <2>7
    <3>10. \A i \in rest : \E j \in T : j.min = i.min BY Zenon, <2>7
    <3> QED BY Zenon, <2>8, <3>2, <3>3, <3>8, <3>9, <3>10
  <2>17. CASE Len(h.sc) # 1
    <3>1. PICK w : w = Interval(h.min, h.maxp1 - 1, SubSeq(h.sc, 1, Len(h.sc) - 1)) BY Zenon
    <3>2. PICK U : U = rest \cup {w} BY Zenon
    <3>3. q = [r EXCEPT !.sampleivtree = U]
      BY Zenon, <2>6, <2>7, <2>17, <3>1, <3>2 DEF delete_last_sample
    <3>4. /\ SameButTree(q, r) /\ q.n_samples = r.n_samples /\ q.sampleivtree = U
          /\ q.max_sampleiv = r.max_sampleiv BY Zenon, <3>3 DEF SameButTree, Fields
    <3>5. IvOK(w) /\ w.min = h.min /\ w.maxp1 = h.maxp1 - 1 /\ Len(w.sc) = Len(h.sc) - 1
      BY Zenon, <2>8, <2>17, <3>1, <1>ShrunkOK
    <3>6. \A x \in 1..Len(w.sc) : x \in 1..Len(h.sc) /\ x < Len(h.sc) /\ w.sc[x] = h.sc[x]
      BY ONLY <2>8, <2>17, <3>1, <1>ShrunkOK
    <3>7. Rng(h.sc) = Rng(w.sc) \cup {e} BY Zenon, <2>8, <2>9, <2>17, <3>1, <1>ShrunkOK
    <3>8. \A j \in T \ {h} : w.maxp1 < j.min \/ j.maxp1 < w.min
      <4> SUFFICES ASSUME NEW j \in T \ {h} PROVE w.maxp1 < j.min \/ j.maxp1 < w.min BY Zenon
      <4>1. h.maxp1 < j.min \/ j.maxp1 < h.min BY Zenon, <2>3 DEF IvsOK, Apart
      <4>2. j.min \in Nat /\ h.maxp1 \in Nat BY Zenon, <2>2, <2>8, IvFields
      <4>3. h.maxp1 < j.min => h.maxp1 - 1 < j.min BY ONLY <4>2
      <4> QED BY Zenon, <3>5, <4>1, <4>3
    <3>9. IvsOK(U) /\ Count(U) = Count(T) - Count({h}) + Len(w.sc)
      <4>1. PICK R : R = {h} BY Zenon
      <4>2. IvsOK(T) /\ R \subseteq T /\ IvOK(w) /\ \A j \in T \ R : w.maxp1 < j.min \/ j.maxp1 < w.min
        BY Zenon, <2>3, <3>5, <3>8, <4>1
      <4>3. IvsOK((T \ R) \cup {w}) /\ Count((T \ R) \cup {w}) = Count(T) - Count(R) + Len(w.sc)
        BY ONLY <4>2, Replaced
      <4> QED BY Zenon, <2>7, <3>2, <4>1, <4>3
    <3>10. Count(U) = Count(T) - 1
      <4>1. Count(U) = Count(T) - Len(h.sc) + (Len(h.sc) - 1) BY Zenon, <2>14, <3>5, <3>9
      <4>2. Count(T) \in Nat BY Zenon, CountFinite
      <4> QED BY ONLY <2>11, <4>1, <4>2
    <3>11. Highest(U) = w
      <4>1. \A j \in U : j.min <= w.min BY Zenon, <2>3, <2>5, <2>7, <3>2, <3>5
      <4>2. w \in U BY Zenon, <3>2
      <4> QED BY Zenon, <3>9, <4>1, <4>2, HighestIs
    <3>12. q.max_sampleiv = Highest(q.sampleivtree).min BY Zenon, <2>1, <3>4, <3>5, <3>11
    <3>13. Content(T) = Content(U) \cup ({e} \ {0})
      <4>1. \A v : (\E i \in T : v \in Rng(i.sc)) <=> (\E i \in U : v \in Rng(i.sc)) \/ v = e
        BY Zenon, <2>3, <2>7, <3>2, <3>7
      <4>2. \A v : v \in Content(T) <=> v \in Content(U) \/ v \in {e} \ {0} BY Zenon, <4>1, ContentIs
      <4> QED BY Zenon, <4>2
    <3>14. e # 0 => e \notin Content(U)
      <4> SUFFICES ASSUME e # 0, e \in Content(U) PROVE FALSE BY Zenon
      <4>1. PICK i \in U : e \in Rng(i.sc) BY Zenon, ContentIs
      <4>2. e \in Rng(h.sc) BY Zenon, <3>7
      <4>3. CASE i \in rest
        <5>1. i \in T /\ i # h BY Zenon, <2>7, <4>3
        <5> QED BY Zenon, <2>3, <4>1, <4>2, <5>1, <1>OnlyOne
      <4>4. CASE i = w
        <5>1. DOMAIN w.sc = 1..Len(w.sc) BY Zenon, <3>5, IvFields
        <5>2. PICK x \in 1..Len(w.sc) : e = w.sc[x] BY Zenon, <4>1, <4>4, <5>1 DEF Rng
        <5>3. x \in 1..Len(h.sc) /\ x < Len(h.sc) /\ h.sc[x] = e BY Zenon, <3>6, <5>2
        <5>4. Len(h.sc) \in 1..Len(h.sc) BY ONLY <2>11
        <5>5. e < e BY Zenon, <2>8, <2>9, <5>3, <5>4 DEF IvOK, ChainOK
        <5>6. e \in Nat BY Zenon, <2>8, <4>2, InRange
        <5> QED BY ONLY <5>5, <5>6
      <4> QED BY Zenon, <3>2, <4>3, <4>4
    <3>15. e \notin Content(U) BY Zenon, <3>14, ContentIs
    <3>16. /\ \A s \in Content(T) \ Content(U) : \A t \in Content(U) : t < s
           /\ Content(U) \subseteq Content(T)
      BY Zenon, <2>15, <3>13, <3>15
    <3>17. Tight(h) => Tight(w)
      <4> SUFFICES ASSUME Tight(h) PROVE Tight(w) BY Zenon
      <4>1. Len(h.sc) = h.maxp1 - h.min /\ \A x \in 1..Len(h.sc) : h.sc[x] = h.min + (x - 1)
        BY Zenon DEF Tight
      <4>2. \A x \in 1..Len(w.sc) : w.sc[x] = w.min + (x - 1) BY Zenon, <3>5, <3>6, <4>1
      <4>3. h.min \in Nat /\ h.maxp1 \in Nat BY Zenon, <2>8, IvFields
      <4>4. Len(h.sc) - 1 = (h.maxp1 - 1) - h.min BY ONLY <2>11, <4>1, <4>3
      <4>5. Len(w.sc) = w.maxp1 - w.min BY Zenon, <3>5, <4>4
      <4> QED BY Zenon, <4>2, <4>5 DEF Tight
    <3>18. (\A i \in T : Tight(i)) => \A i \in U : Tight(i) BY Zenon, <2>3, <2>7, <3>2, <3>17
    <3>19. \A i \in U : \E j \in T : j.min = i.min BY Zenon, <2>3, <2>7, <3>2, <3>5
    <3> QED BY Zenon, <3>4, <3>9, <3>10, <3>12, <3>16, <3>18, <3>19
  <2> QED BY Zenon, <2>16, <2>17
<1>Main.
     ASSUME NEW r, BufferOK(r), NEW R, NEW w, Fits(r, R, w), Len(w.sc) = Count(R) + 1, ~(r.n_samples < r.max_samples),
            NEW p, SameButTree(p, r), p.sampleivtree = With(r.sampleivtree, R, w),
            p.max_sampleiv = Highest(p.sampleivtree).min, p.n_samples = r.n_samples,
            NEW q, q = delete_last_sample(p)
     PROVE  BufferOK(q) /\ SameButTree(q, r) /\ LeftOf(With(r.sampleivtree, R, w), q.sampleivtree)
  <2> USE <1>Main
  <2>1. PICK U : U = With(r.sampleivtree, R, w) BY Zenon
  <2>2. /\ IvsOK(U) /\ Count(U) = r.n_samples - Count(R) + Len(w.sc) /\ \A i \in U : r.next_seq < i.min
        /\ Count(R) \in Nat
    BY ONLY <2>1, BufferOK(r), Fits(r, R, w), FitsIn
  <2>3. r.n_samples \in Nat BY Zenon, Buffer
  <2>4. Count(U) - 1 = r.n_samples BY ONLY <2>2, <2>3, Len(w.sc) = Count(R) + 1
  <2>5. PICK V : V = q.sampleivtree BY Zenon
  <2>6. DOMAIN p = Fields /\ U = p.sampleivtree /\ U # {} /\ p.max_sampleiv = Highest(U).min
    BY Zenon, <2>1 DEF SameButTree, With
  <2>7. /\ SameButTree(q, p) /\ q.n_samples = p.n_samples /\ IvsOK(V) /\ \A i \in V : \E j \in U : j.min = i.min
    BY ONLY <2>2, <2>5, <2>6, q = delete_last_sample(p), <1>DeleteLast
  <2>8. q.max_sampleiv = Highest(V).min /\ Count(V) = Count(U) - 1
    BY ONLY <2>2, <2>5, <2>6, q = delete_last_sample(p), <1>DeleteLast
  <2>9. LeftOf(U, V)
    <3>1. \A s \in Content(U) \ Content(V) : \A t \in Content(V) : t < s
      BY ONLY Zenon, <2>2, <2>5, <2>6, q = delete_last_sample(p), <1>DeleteLast
    <3>2. (\A i \in U : Tight(i)) => \A i \in V : Tight(i)
      BY Zenon, <2>2, <2>5, <2>6, <1>DeleteLast
    <3> QED BY Zenon, <3>1, <3>2 DEF LeftOf
  <2>10. \A i \in V : r.next_seq < i.min BY Zenon, <2>2, <2>7
  <2>11. SameButTree(q, r) BY Zenon, <2>7 DEF SameButTree
  <2>12. r.mode = "NORMAL" BY Zenon DEF Fits
  <2>13. q.n_samples = Count(V) /\ q.n_samples = r.n_samples BY Zenon, <2>4, <2>7, <2>8
  <2>14. BufferOK(q) BY Zenon, <2>5, <2>7, <2>8, <2>10, <2>11, <2>12, <2>13 DEF BufferOK, SameButTree
  <2> QED BY Zenon, <2>1, <2>5, <2>9, <2>11, <2>14
<1> QED BY <1>Main

---------------------------------------------------------------------------
(* Intervals that grow. *)

\* What an interval stands for is in its chain, or among D.
Backed(i, D) == \A s \in i.min..(i.maxp1 - 1) : s \in D \/ s \in Rng(i.sc)

\* w is made of the intervals R and one more element, a sample if tight.
Adds(R, w, D, tight) ==
  /\ Len(w.sc) = Count(R) + 1 /\ Content(R) \subseteq Rng(w.sc)
  /\ (\A i \in R : Backed(i, D)) => Backed(w, D)
  /\ tight => ((\A i \in R : Tight(i)) => Tight(w))

\* A chain of consecutive samples backs its interval.
LEMMA TightBacked ==
  ASSUME NEW i, IvOK(i), Tight(i), NEW D
  PROVE  Backed(i, D)
<1> SUFFICES ASSUME NEW s \in i.min..(i.maxp1 - 1) PROVE s \in Rng(i.sc) BY Zenon DEF Backed
<1>1. i.min \in Nat /\ i.maxp1 \in Nat /\ DOMAIN i.sc = 1..Len(i.sc) BY Zenon, IvFields
<1>2. Len(i.sc) = i.maxp1 - i.min /\ \A x \in 1..Len(i.sc) : i.sc[x] = i.min + (x - 1) BY Zenon DEF Tight
<1>3. PICK x : x = s - i.min + 1 BY Zenon
<1>4. x \in 1..(i.maxp1 - i.min) /\ i.min + (x - 1) = s BY ONLY <1>1, <1>3, s \in i.min..(i.maxp1 - 1)
<1>5. x \in DOMAIN i.sc /\ i.sc[x] = s BY Zenon, <1>1, <1>2, <1>4
<1> QED BY Zenon, <1>5 DEF Rng

\* So do two chains that are appended, if both do.
LEMMA AppendBacked ==
  \A a, b, i, D :
    IvOK(a) /\ IvOK(b) /\ a.maxp1 = b.min /\ i = append_rsample_interval(a, b)
    => /\ Backed(a, D) /\ Backed(b, D) => Backed(i, D)
       /\ Tight(a) /\ Tight(b) => Tight(i)
<1>Shift. ASSUME NEW lo \in Nat, NEW mid \in Nat, NEW n, n = mid - lo, NEW x \in Nat
          PROVE  mid + ((x - n) - 1) = lo + (x - 1)
  BY <1>Shift
<1>Main.
     ASSUME NEW a, IvOK(a), NEW b, IvOK(b), a.maxp1 = b.min, NEW i, i = append_rsample_interval(a, b), NEW D
     PROVE  /\ Backed(a, D) /\ Backed(b, D) => Backed(i, D)
            /\ Tight(a) /\ Tight(b) => Tight(i)
  <2> USE <1>Main
  <2>1. a.min \in Nat /\ a.maxp1 \in Nat /\ b.min \in Nat /\ b.maxp1 \in Nat BY Zenon, IvFields
  <2>2. a.maxp1 <= b.min BY ONLY <2>1, a.maxp1 = b.min
  <2>0. Appended(i, a, b) BY Zenon, <2>2, AppendOK
  <2>3. i.min = a.min /\ i.maxp1 = b.maxp1 /\ Len(i.sc) = Len(a.sc) + Len(b.sc) BY Zenon, <2>0 DEF Appended
  <2>4. i.sc = a.sc \o b.sc /\ Rng(i.sc) = Rng(a.sc) \cup Rng(b.sc) BY Zenon, <2>0 DEF Appended
  <2>5. ASSUME Backed(a, D), Backed(b, D), NEW s \in i.min..(i.maxp1 - 1) PROVE s \in D \/ s \in Rng(i.sc)
    <3>1. s \in a.min..(a.maxp1 - 1) \/ s \in b.min..(b.maxp1 - 1)
      BY ONLY <2>1, <2>3, s \in i.min..(i.maxp1 - 1), a.maxp1 = b.min
    <3> QED BY Zenon, <2>4, <2>5, <3>1 DEF Backed
  <2>6. ASSUME Tight(a), Tight(b) PROVE Tight(i)
    <3>1. PICK s : s = a.sc BY Zenon
    <3>2. PICK t : t = b.sc BY Zenon
    <3>3. PICK u : u = i.sc BY Zenon
    <3>4. Len(s) = a.maxp1 - a.min /\ \A x \in 1..Len(s) : s[x] = a.min + (x - 1)
      BY Zenon, <2>6, <3>1 DEF Tight
    <3>5. Len(t) = b.maxp1 - b.min /\ \A x \in 1..Len(t) : t[x] = b.min + (x - 1)
      BY Zenon, <2>6, <3>2 DEF Tight
    <3>6. s \in Seq(0..MaxSeq) /\ t \in Seq(0..MaxSeq) BY Zenon, <3>1, <3>2, IvFields
    <3>7. Len(s) \in Nat /\ Len(t) \in Nat BY Zenon, <3>6, Cat
    <3>0. u = s \o t BY Zenon, <2>4, <3>1, <3>2, <3>3
    <3>8. \A x \in 1..Len(s) : u[x] = s[x] BY ONLY Zenon, <3>0, <3>6, Cat
    <3>9. \A x \in (Len(s) + 1)..(Len(s) + Len(t)) : u[x] = t[x - Len(s)] BY ONLY Zenon, <3>0, <3>6, Cat
    <3>10. Len(u) = Len(s) + Len(t) BY Zenon, <2>3, <3>1, <3>2, <3>3
    <3>11. ASSUME NEW x \in 1..Len(u) PROVE u[x] = a.min + (x - 1)
      <4>1. CASE x \in 1..Len(s) BY Zenon, <3>4, <3>8, <4>1
      <4>2. CASE x \notin 1..Len(s)
        <5>1. PICK y : y = x - Len(s) BY Zenon
        <5>2. x \in (Len(s) + 1)..(Len(s) + Len(t)) /\ y \in 1..Len(t)
          BY ONLY <3>7, <3>10, <4>2, <5>1, x \in 1..Len(u)
        <5>3. u[x] = b.min + (y - 1) BY Zenon, <3>5, <3>9, <5>1, <5>2
        <5>4. b.min + (y - 1) = a.min + (x - 1)
          <6>1. Len(s) = a.maxp1 - a.min BY Zenon, <3>4
          <6>2. Len(s) = b.min - a.min BY Zenon, <6>1
          <6>3. x \in Nat BY ONLY x \in 1..Len(u), <3>7, <3>10
          <6>4. b.min + ((x - Len(s)) - 1) = a.min + (x - 1) BY ONLY <2>1, <6>2, <6>3, <1>Shift
          <6> QED BY Zenon, <5>1, <6>4
        <5> QED BY Zenon, <5>3, <5>4
      <4> QED BY Zenon, <4>1, <4>2
    <3>12. Len(u) = b.maxp1 - a.min
      <4>1. Len(s) = a.maxp1 - a.min /\ Len(t) = b.maxp1 - b.min BY Zenon, <3>4, <3>5
      <4> QED BY ONLY <2>1, <3>7, <3>10, <4>1, a.maxp1 = b.min
    <3> QED BY Zenon, <2>3, <3>3, <3>11, <3>12 DEF Tight
  <2>7. Backed(a, D) /\ Backed(b, D) => Backed(i, D) BY Zenon, <2>5 DEF Backed
  <2> QED BY Zenon, <2>6, <2>7
<1> QED BY Zenon, <1>Main

\* One sample.
LEMMA AddsSingle ==
  ASSUME NEW s \in 1..MaxSeq, NEW w, w = Interval(s, s + 1, <<s>>), NEW D
  PROVE  Adds({}, w, D, TRUE)
<1>1. IvOK(w) /\ w.min = s /\ w.maxp1 = s + 1 /\ Len(w.sc) = 1 /\ w.sc = <<s>> BY Zenon, SingleOK
<1>2. Tight(w)
  <2>1. s \in Nat BY MaxSeqNat
  <2>2. s + 1 - s = 1 /\ \A x \in 1..1 : x = 1 /\ s + (x - 1) = s BY ONLY <2>1
  <2>3. w.sc[1] = s BY <1>1
  <2>4. Len(w.sc) = w.maxp1 - w.min BY ONLY <1>1, <2>1
  <2>5. \A x \in 1..Len(w.sc) : w.sc[x] = w.min + (x - 1) BY Zenon, <1>1, <2>2, <2>3
  <2> QED BY Zenon, <2>4, <2>5 DEF Tight
<1>3. Backed(w, D) BY Zenon, <1>1, <1>2, TightBacked
<1>4. Len(w.sc) = Count({}) + 1 
  <2>1. Len(w.sc) = 1 /\ Count({}) = 0 BY Zenon, <1>1, CountNone
  <2> QED BY ONLY <2>1
<1>5. Content({}) \subseteq Rng(w.sc) BY Zenon, ContentIs
<1> QED BY Zenon, <1>2, <1>3, <1>4, <1>5 DEF Adds

\* A sample after an interval.
LEMMA AddsAfter ==
  ASSUME NEW a, IvOK(a), NEW s \in 1..MaxSeq, a.maxp1 = s, NEW D,
         NEW w, w = append_rsample_interval(a, Interval(s, s + 1, <<s>>))
  PROVE  IvOK(w) /\ w.min = a.min /\ w.maxp1 = s + 1 /\ Adds({a}, w, D, TRUE)
<1>1. PICK b : b = Interval(s, s + 1, <<s>>) BY Zenon
<1>2. IvOK(b) /\ b.min = s /\ b.maxp1 = s + 1 /\ Len(b.sc) = 1 BY Zenon, <1>1, SingleOK
<1>3. Adds({}, b, D, TRUE) BY Zenon, <1>1, AddsSingle
<1>4. Backed(b, D) /\ Tight(b) BY Zenon, <1>3 DEF Adds
<1>5. a.maxp1 <= b.min BY <1>2
<1>6. w = append_rsample_interval(a, b) BY Zenon, <1>1
<1>0. Appended(w, a, b) BY Zenon, <1>2, <1>5, <1>6, AppendOK
<1>7. IvOK(w) /\ w.min = a.min /\ w.maxp1 = b.maxp1 /\ Len(w.sc) = Len(a.sc) + Len(b.sc)
  BY Zenon, <1>0 DEF Appended
<1>8. Rng(w.sc) = Rng(a.sc) \cup Rng(b.sc) BY Zenon, <1>0 DEF Appended
<1>9. Count({a}) = Len(a.sc) BY Zenon, CountOne
<1>10. Content({a}) \subseteq Rng(w.sc)
  <2> SUFFICES ASSUME NEW v \in Content({a}) PROVE v \in Rng(w.sc) BY Zenon
  <2>1. v \in Rng(a.sc) BY Zenon DEF Content
  <2> QED BY Zenon, <1>8, <2>1
<1>11. /\ Backed(a, D) /\ Backed(b, D) => Backed(w, D)
       /\ Tight(a) /\ Tight(b) => Tight(w)
  <2>1. a.maxp1 = b.min BY Zenon, <1>2
  <2> QED BY Zenon, <1>2, <1>6, <2>1, AppendBacked
<1>12. Len(w.sc) = Count({a}) + 1 BY Zenon, <1>2, <1>7, <1>9
<1>13. /\ (\A i \in {a} : Backed(i, D)) => Backed(w, D)
       /\ (\A i \in {a} : Tight(i)) => Tight(w)
  BY Zenon, <1>4, <1>11
<1>14. Adds({a}, w, D, TRUE) BY Zenon, <1>10, <1>12, <1>13 DEF Adds
<1> QED BY Zenon, <1>2, <1>7, <1>14

\* An interval after what has grown.
And(R, b) == R \cup {b}

Meets(R, a, b, D) ==
  IvOK(a) /\ Adds(R, a, D, TRUE) /\ b \notin R /\ IvsOK(And(R, b)) /\ a.maxp1 = b.min
Joins(w, R, a, b, D) ==
  IvOK(w) /\ w.min = a.min /\ w.maxp1 = b.maxp1 /\ Adds(And(R, b), w, D, TRUE)

---------------------------------------------------------------------------
(* A sample is stored. *)

\* What the operations that store an element do to the intervals.
Stores(r, q, D, tight) ==
  \E R, w : /\ Fits(r, R, w) /\ Adds(R, w, D, tight)
            /\ \/ r.n_samples < r.max_samples /\ q.sampleivtree = With(r.sampleivtree, R, w)
               \/ ~(r.n_samples < r.max_samples) /\ LeftOf(With(r.sampleivtree, R, w), q.sampleivtree)

\* The last interval, which max_sampleiv caches, lies after every other.
LEMMA LastOf ==
  ASSUME NEW r, BufferOK(r)
  PROVE  /\ MaxIv(r) = Highest(r.sampleivtree)
         /\ r.sampleivtree = {} => MaxIv(r) = NoIv
         /\ r.sampleivtree # {} => /\ MaxIv(r) # NoIv /\ MaxIv(r) \in r.sampleivtree
                                   /\ \A j \in r.sampleivtree : j.min <= MaxIv(r).min
<1>1. MaxIv(r) = Highest(r.sampleivtree) BY Zenon, MaxIvIs DEF BufferOK
<1>2. r.sampleivtree = {} => MaxIv(r) = NoIv BY Zenon, <1>1, NoIvFields
<1>3. ASSUME r.sampleivtree # {}
      PROVE  /\ MaxIv(r) # NoIv /\ MaxIv(r) \in r.sampleivtree
             /\ \A j \in r.sampleivtree : j.min <= MaxIv(r).min
  <2>1. PICK h : h = MaxIv(r) BY Zenon
  <2>2. \A j \in r.sampleivtree : IvOK(j) /\ j.min \in Nat BY Zenon, Buffer
  <2>3. h \in r.sampleivtree /\ \A j \in r.sampleivtree : h.min >= j.min
    BY Zenon, <1>1, <1>3, <2>1, <2>2, EndsFound
  <2>4. \A j \in r.sampleivtree : j.min <= h.min BY ONLY Zenon, <2>2, <2>3
  <2> QED BY Zenon, <2>1, <2>2, <2>3, <2>4, IvIsNoNoIv
<1> QED BY Zenon, <1>1, <1>2, <1>3

\* What is known of a sample that nn_reorder_rsample does not refuse.
LEMMA Accepted ==
  ASSUME NEW r, BufferOK(r), NEW s \in 1..MaxSeq, NEW full \in BOOLEAN, ~Deliverable(r, s), ~Refused(r, s, full)
  PROVE  /\ r.mode = "NORMAL" /\ s > r.next_seq
         /\ s >= MaxIv(r).maxp1 => r.n_samples < r.max_samples
         /\ ~(s >= MaxIv(r).maxp1) => ~(s < LookupPredEq(r, s).maxp1) /\ r.sampleivtree # {}
<1>1. r.next_seq \in Nat /\ r.max_samples \in Nat /\ r.n_samples \in Nat /\ s \in Nat /\ s > 0 BY Buffer
<1>2. s # r.next_seq /\ ~(s > r.next_seq /\ r.mode = "MONOTONICALLY_INCREASING") /\ r.mode # "ALWAYS_DELIVER"
  BY Zenon DEF Deliverable
<1>3. /\ ~(s < r.next_seq)
      /\ ~(MaxIv(r) = NoIv /\ r.max_samples = 0)
      /\ ~(MaxIv(r) # NoIv /\ s >= MaxIv(r).maxp1 /\ (full \/ r.n_samples >= r.max_samples))
      /\ ~(MaxIv(r) # NoIv /\ s < MaxIv(r).maxp1
           /\ ((r.late_ack_mode /\ full) \/ s < LookupPredEq(r, s).maxp1))
  BY Zenon DEF Refused
<1>4. s > r.next_seq BY ONLY <1>1, <1>2, <1>3
<1>5. r.mode = "NORMAL" BY Zenon, <1>2, <1>4 DEF BufferOK, Modes
<1>6. CASE r.sampleivtree = {}
  <2>1. MaxIv(r) = NoIv BY Zenon, <1>6, LastOf
  <2>2. r.n_samples = 0 BY Zenon, <1>6, CountNone DEF BufferOK
  <2>3. r.n_samples < r.max_samples
    <3>1. r.max_samples # 0 BY Zenon, <1>3, <2>1
    <3> QED BY ONLY <1>1, <2>2, <3>1
  <2>4. s >= MaxIv(r).maxp1
    <3>1. MaxIv(r).maxp1 = 0 BY Zenon, <2>1, NoIvFields
    <3> QED BY ONLY <1>1, <3>1
  <2> QED BY Zenon, <1>4, <1>5, <2>3, <2>4
<1>7. CASE r.sampleivtree # {}
  <2>1. MaxIv(r) # NoIv /\ MaxIv(r) \in r.sampleivtree BY Zenon, <1>7, LastOf
  <2>2. MaxIv(r).maxp1 \in Nat BY Zenon, <2>1, Buffer
  <2>3. s >= MaxIv(r).maxp1 => r.n_samples < r.max_samples
    <3>1. s >= MaxIv(r).maxp1 => ~(r.n_samples >= r.max_samples) BY Zenon, <1>3, <2>1
    <3> QED BY ONLY <1>1, <3>1
  <2>4. ~(s >= MaxIv(r).maxp1) => s < MaxIv(r).maxp1 BY ONLY <1>1, <2>2
  <2> QED BY Zenon, <1>3, <1>4, <1>5, <1>7, <2>1, <2>3, <2>4
<1> QED BY Zenon, <1>6, <1>7

\* A sample at the end.
LEMMA AppendSampleOK ==
  ASSUME BufferOK(reorder), NEW s \in 1..MaxSeq, reorder.mode = "NORMAL", s > reorder.next_seq,
         s >= MaxIv(reorder).maxp1, reorder.n_samples < reorder.max_samples, AppendSample(s), NEW D
  PROVE  BufferOK(reorder') /\ SameButTree(reorder', reorder) /\ Stores(reorder, reorder', D, TRUE)
<1>1. PICK r : r = reorder BY Zenon
<1>2. PICK q : q = reorder' BY Zenon
<1>3. PICK T : T = r.sampleivtree BY Zenon
<1>4. PICK h : h = MaxIv(r) BY Zenon
<1>5. PICK new : new = Interval(s, s + 1, <<s>>) BY Zenon
<1>6. BufferOK(r) /\ r.mode = "NORMAL" /\ s > r.next_seq /\ s >= h.maxp1 /\ r.n_samples < r.max_samples
  BY Zenon, <1>1, <1>4
<1>7. DOMAIN r = Fields /\ IvsOK(T) /\ r.max_sampleiv = Highest(T).min BY Zenon, <1>3, <1>6 DEF BufferOK
<1>8. /\ h = Highest(T) /\ (T = {} => h = NoIv)
      /\ T # {} => h # NoIv /\ h \in T /\ \A j \in T : j.min <= h.min
  BY Zenon, <1>3, <1>4, <1>6, LastOf
<1>9. IvOK(new) /\ new.min = s /\ new.maxp1 = s + 1 BY Zenon, <1>5, SingleOK
<1>10. r.next_seq \in Nat /\ s \in Nat /\ s > 0 BY Buffer, <1>6
<1>11. \A j \in T : IvOK(j) /\ j.min \in Nat /\ j.maxp1 \in Nat /\ j.min < j.maxp1
  BY Zenon, <1>3, <1>6, Buffer
<1>12. \A j \in T : j # h => j.maxp1 < h.min
  <2> SUFFICES ASSUME NEW j \in T, j # h PROVE j.maxp1 < h.min BY Zenon
  <2>1. h \in T /\ j.min <= h.min BY Zenon, <1>8
  <2>2. j.min # h.min BY Zenon, <1>7, <2>1, ApartFacts
  <2>3. j.min \in Nat /\ h.min \in Nat BY Zenon, <1>11, <2>1
  <2>4. j.min < h.min BY ONLY <2>1, <2>2, <2>3
  <2> QED BY Zenon, <1>7, <2>1, <2>4, ApartFacts
<1>13. CASE h # NoIv /\ s = h.maxp1
  <2>1. PICK w : w = append_rsample_interval(h, new) BY Zenon
  <2>2. h \in T BY Zenon, <1>8, <1>13
  <2>3. IvOK(w) /\ w.min = h.min /\ w.maxp1 = s + 1 /\ Adds({h}, w, D, TRUE)
    BY Zenon, <1>5, <1>11, <1>13, <2>1, <2>2, AddsAfter
  <2>4. q = [r EXCEPT !.sampleivtree = (@ \ {h}) \cup {w}, !.n_samples = @ + 1]
    BY Zenon, <1>1, <1>2, <1>4, <1>5, <1>13, <2>1 DEF AppendSample
  <2>5. SameButTree(q, r) /\ q.sampleivtree = (T \ {h}) \cup {w} /\ q.n_samples = r.n_samples + 1
        /\ q.max_sampleiv = r.max_sampleiv
    BY Zenon, <1>3, <1>7, <2>4 DEF SameButTree, Fields
  <2>6. q.sampleivtree = With(T, {h}, w) BY Zenon, <2>5 DEF With
  <2>7. Fits(r, {h}, w)
    <3>1. \A j \in T \ {h} : j.maxp1 < w.min BY Zenon, <1>12, <2>3
    <3>2. r.next_seq < w.min BY Zenon, <1>3, <1>6, <2>2, <2>3 DEF BufferOK
    <3> QED BY Zenon, <1>3, <1>6, <2>2, <2>3, <3>1, <3>2 DEF Fits
  <2>8. IvsOK(q.sampleivtree) BY ONLY Zenon, <1>3, <1>6, <2>6, <2>7, FitsIn
  <2>9. Highest(q.sampleivtree) = w
    <3>1. w \in q.sampleivtree /\ \A j \in q.sampleivtree : j.min <= w.min BY Zenon, <1>8, <2>2, <2>3, <2>5
    <3> QED BY Zenon, <2>8, <3>1, HighestIs
  <2>10. q.max_sampleiv = Highest(q.sampleivtree).min BY Zenon, <1>7, <1>8, <2>3, <2>5, <2>9
  <2>11. Len(w.sc) = Count({h}) + 1 BY Zenon, <2>3 DEF Adds
  <2>12. BufferOK(q) BY Zenon, <1>3, <1>6, <2>5, <2>6, <2>7, <2>10, <2>11, MoreOK
  <2>13. Stores(r, q, D, TRUE) BY Zenon, <1>3, <1>6, <2>3, <2>6, <2>7 DEF Stores
  <2> QED BY Zenon, <1>1, <1>2, <2>5, <2>12, <2>13
<1>14. CASE ~(h # NoIv /\ s = h.maxp1)
  <2>1. q = [r EXCEPT !.sampleivtree = @ \cup {new}, !.max_sampleiv = s, !.n_samples = @ + 1]
    BY Zenon, <1>1, <1>2, <1>4, <1>5, <1>14 DEF AppendSample
  <2>2. SameButTree(q, r) /\ q.sampleivtree = T \cup {new} /\ q.n_samples = r.n_samples + 1 /\ q.max_sampleiv = s
    BY Zenon, <1>3, <1>7, <2>1 DEF SameButTree, Fields
  <2>3. q.sampleivtree = With(T, {}, new) BY Zenon, <2>2 DEF With
  <2>4. Adds({}, new, D, TRUE) BY Zenon, <1>5, AddsSingle
  <2>5. \A j \in T : j.maxp1 < s
    <3> SUFFICES ASSUME NEW j \in T PROVE j.maxp1 < s BY Zenon
    <3>1. h \in T /\ h.maxp1 # s BY Zenon, <1>8, <1>14
    <3>2. h.maxp1 \in Nat /\ h.min \in Nat /\ h.min < h.maxp1 /\ j.maxp1 \in Nat BY Zenon, <1>11, <3>1
    <3>3. j = h \/ j.maxp1 < h.min BY Zenon, <1>12
    <3> QED BY ONLY <1>6, <1>10, <3>1, <3>2, <3>3
  <2>6. Fits(r, {}, new)
    <3>1. \A j \in T \ {} : j.maxp1 < new.min BY Zenon, <1>9, <2>5
    <3>2. r.next_seq < new.min
      <4>1. r.next_seq < s BY ONLY Zenon, <1>6, <1>10
      <4> QED BY Zenon, <1>9, <4>1
    <3> QED BY Zenon, <1>3, <1>6, <1>9, <3>1, <3>2 DEF Fits
  <2>7. IvsOK(q.sampleivtree) BY ONLY Zenon, <1>3, <1>6, <2>3, <2>6, FitsIn
  <2>8. Highest(q.sampleivtree) = new
    <3>1. \A j \in T : j.min <= s BY ONLY <1>10, <1>11, <2>5
    <3>2. new.min <= new.min BY ONLY <1>9, <1>10
    <3>3. new \in q.sampleivtree /\ \A j \in q.sampleivtree : j.min <= new.min
      BY Zenon, <1>9, <2>2, <3>1, <3>2
    <3> QED BY Zenon, <2>7, <3>3, HighestIs
  <2>9. q.max_sampleiv = Highest(q.sampleivtree).min BY Zenon, <1>9, <2>2, <2>8
  <2>10. Len(new.sc) = Count({}) + 1 BY Zenon, <2>4 DEF Adds
  <2>11. BufferOK(q) BY Zenon, <1>3, <1>6, <2>2, <2>3, <2>6, <2>9, <2>10, MoreOK
  <2>12. Stores(r, q, D, TRUE) BY Zenon, <1>3, <1>6, <2>3, <2>4, <2>6 DEF Stores
  <2> QED BY Zenon, <1>1, <1>2, <2>2, <2>11, <2>12
<1> QED BY Zenon, <1>13, <1>14

LookupMin(r, m) == Highest({i \in r.sampleivtree : i.min = m})

\* left and right, if any, are the intervals next to s, which is in none.
Neighbours(r, s, left, right) ==
  /\ \A j \in r.sampleivtree : s < j.min \/ j.maxp1 <= s
  /\ left # NoIv => left \in r.sampleivtree /\ left.maxp1 = s
  /\ \A j \in r.sampleivtree : j.maxp1 = s => j = left
  /\ right # NoIv => right \in r.sampleivtree /\ right.min = s + 1
  /\ \A j \in r.sampleivtree : j.min = s + 1 => j = right

Grown(left, s) ==
  IF left = NoIv THEN Interval(s, s + 1, <<s>>) ELSE append_rsample_interval(left, Interval(s, s + 1, <<s>>))
Joined(left, s, right) ==
  IF right = NoIv THEN Grown(left, s) ELSE append_rsample_interval(Grown(left, s), right)

\* w takes the place of the neighbours of s, R.
Inserted(r, s, left, right, R, w, D) ==
  /\ Fits(r, R, w) /\ Adds(R, w, D, TRUE) /\ w.min <= s /\ s < w.maxp1
  /\ With(r.sampleivtree, R, w) = (r.sampleivtree \ {left, right}) \cup {w}

IsLast(r, h) == h \in r.sampleivtree /\ \A j \in r.sampleivtree : j.min <= h.min

\* A sample in the middle.
LEMMA InsertSampleOK ==
  \A s, D :
    /\ BufferOK(reorder) /\ s \in 1..MaxSeq /\ reorder.mode = "NORMAL" /\ s > reorder.next_seq
    /\ reorder.sampleivtree # {} /\ ~(s >= MaxIv(reorder).maxp1)
    /\ ~(s < LookupPredEq(reorder, s).maxp1) /\ InsertSample(s)
    => BufferOK(reorder') /\ SameButTree(reorder', reorder) /\ Stores(reorder, reorder', D, TRUE)
<1>AddsBefore. ASSUME NEW R, NEW a, NEW b, NEW D, Meets(R, a, b, D)
               PROVE  Joins(append_rsample_interval(a, b), R, a, b, D)
  <2> USE <1>AddsBefore
  <2>a. IvOK(a) /\ Adds(R, a, D, TRUE) /\ b \notin R /\ IvsOK(R \cup {b}) /\ a.maxp1 = b.min
    BY Zenon DEF Meets, And
  <2>b. PICK w : w = append_rsample_interval(a, b) BY Zenon
  <2>1. IvOK(b) BY Zenon, <2>a DEF IvsOK
  <2>2. a.maxp1 <= b.min
    <3>1. b.min \in Nat BY Zenon, <2>1, IvFields
    <3> QED BY <2>a, <3>1
  <2>0. Appended(w, a, b) BY Zenon, <2>a, <2>b, <2>1, <2>2, AppendOK
  <2>3. IvOK(w) /\ w.min = a.min /\ w.maxp1 = b.maxp1 /\ Len(w.sc) = Len(a.sc) + Len(b.sc)
    BY Zenon, <2>0 DEF Appended
  <2>4. Rng(w.sc) = Rng(a.sc) \cup Rng(b.sc) BY Zenon, <2>0 DEF Appended
  <2>5. /\ Backed(a, D) /\ Backed(b, D) => Backed(w, D)
        /\ Tight(a) /\ Tight(b) => Tight(w)
    BY Zenon, <2>a, <2>b, <2>1, AppendBacked
  <2>6. Len(w.sc) = Count(R \cup {b}) + 1
    <3>1. PICK Q : Q = R \cup {b} BY Zenon
    <3>2. IvsOK(Q) /\ {b} \subseteq Q /\ Q \ {b} = R BY Zenon, <2>a, <3>1
    <3>3. Count(Q) = Count({b}) + Count(Q \ {b}) /\ Count(Q \ {b}) \in Nat BY ONLY Zenon, <3>2, CountSplit
    <3>4. Count(Q) = Len(b.sc) + Count(R) /\ Count(R) \in Nat BY Zenon, <2>1, <3>2, <3>3, CountOne
    <3>5. Len(a.sc) = Count(R) + 1 BY Zenon, <2>a DEF Adds
    <3>6. Len(b.sc) \in Nat BY Zenon, <2>1, IvFields
    <3>7. Len(w.sc) = Len(a.sc) + Len(b.sc) BY Zenon, <2>3
    <3>8. Len(w.sc) = Count(Q) + 1 BY ONLY <3>4, <3>5, <3>6, <3>7
    <3> QED BY Zenon, <3>1, <3>8
  <2>7. Content(R \cup {b}) \subseteq Rng(w.sc)
    <3> SUFFICES ASSUME NEW v \in Content(R \cup {b}) PROVE v \in Rng(w.sc) BY Zenon
    <3>1. v # 0 /\ \E i \in R \cup {b} : v \in Rng(i.sc) BY Zenon DEF Content
    <3>2. v \in Rng(b.sc) \/ v \in Content(R) BY Zenon, <3>1 DEF Content
    <3> QED BY Zenon, <2>a, <2>4, <3>2 DEF Adds
  <2>8. /\ (\A i \in R \cup {b} : Backed(i, D)) => Backed(w, D)
        /\ (\A i \in R \cup {b} : Tight(i)) => Tight(w)
    BY Zenon, <2>a, <2>5 DEF Adds
  <2>9. Adds(R \cup {b}, w, D, TRUE) BY Zenon, <2>6, <2>7, <2>8 DEF Adds
  <2> QED BY Zenon, <2>b, <2>3, <2>9 DEF And, Joins
\* The intervals next to a place where there is none.
<1>LeftOfSample.
     ASSUME NEW r, BufferOK(r), NEW s \in 1..MaxSeq, NEW pe, pe = LookupPredEq(r, s), ~(s < pe.maxp1)
     PROVE  /\ \A j \in r.sampleivtree : s < j.min \/ j.maxp1 <= s
            /\ \A j \in r.sampleivtree : j.maxp1 = s => j = pe
            /\ pe # NoIv => pe \in r.sampleivtree
  <2> USE <1>LeftOfSample
  <2>1. PICK T : T = r.sampleivtree BY Zenon
  <2>2. PICK P : P = {i \in T : i.min <= s} BY Zenon
  <2>3. pe = Highest(P) BY Zenon, <2>1, <2>2 DEF LookupPredEq
  <2>4. IvsOK(T) BY Zenon, <2>1 DEF BufferOK
  <2>5. \A j \in T : IvOK(j) /\ j.min \in Nat /\ j.maxp1 \in Nat /\ j.min < j.maxp1 BY Zenon, <2>1, Buffer
  <2>6. s \in Nat /\ s > 0 BY SMT
  <2>7. CASE P = {}
    <3>1. pe = NoIv BY Zenon, <2>3, <2>7, NoIvFields
    <3>2. \A j \in T : ~(j.min <= s) BY Zenon, <2>2, <2>7
    <3>3. \A j \in T : s < j.min /\ j.maxp1 # s BY ONLY <2>5, <2>6, <3>2
    <3> QED BY Zenon, <2>1, <3>1, <3>3
  <2>8. CASE P # {}
    <3>1. \A j \in P : IvOK(j) BY Zenon, <2>2, <2>5
    <3>2. pe \in P /\ \A j \in P : pe.min >= j.min BY Zenon, <2>3, <2>8, <3>1, EndsFound
    <3>3. pe \in T /\ pe.min <= s BY Zenon, <2>2, <3>2
    <3>4. ASSUME NEW j \in T, j.min <= s PROVE j = pe \/ j.maxp1 < s
      <4>1. pe.min >= j.min BY Zenon, <2>2, <3>2, <3>4
      <4>2. j.min = pe.min => j = pe BY Zenon, <2>4, <3>3, ApartFacts
      <4>3. j.min < pe.min => j.maxp1 < pe.min BY Zenon, <2>4, <3>3, ApartFacts
      <4>4. j.min \in Nat /\ j.maxp1 \in Nat /\ pe.min \in Nat BY Zenon, <2>5, <3>3
      <4>5. j.min = pe.min \/ j.maxp1 < s BY ONLY <2>6, <3>3, <4>1, <4>3, <4>4
      <4> QED BY Zenon, <4>2, <4>5
    <3>5. \A j \in T : s < j.min \/ j.min <= s BY ONLY <2>5, <2>6
    <3>6. pe.maxp1 <= s
      <4>1. pe.maxp1 \in Nat BY Zenon, <2>5, <3>3
      <4> QED BY ONLY <2>6, <4>1, ~(s < pe.maxp1)
    <3>7. \A j \in T : j.maxp1 < s => j.maxp1 <= s /\ j.maxp1 # s BY ONLY <2>5, <2>6
    <3>8. \A j \in T : s < j.min => j.maxp1 # s BY ONLY <2>5, <2>6
    <3>9. \A j \in T : s < j.min \/ j.maxp1 <= s BY Zenon, <3>4, <3>5, <3>6, <3>7
    <3>10. \A j \in T : j.maxp1 = s => j = pe BY Zenon, <3>4, <3>5, <3>7, <3>8
    <3> QED BY Zenon, <2>1, <3>3, <3>9, <3>10
  <2> QED BY Zenon, <2>7, <2>8
<1>RightOfSample. ASSUME NEW r, BufferOK(r), NEW m, NEW im, im = LookupMin(r, m)
                  PROVE  /\ \A j \in r.sampleivtree : j.min = m => j = im
                         /\ im # NoIv => im \in r.sampleivtree /\ im.min = m
  <2> USE <1>RightOfSample
  <2>1. PICK T : T = r.sampleivtree BY Zenon
  <2>2. PICK P : P = {i \in T : i.min = m} BY Zenon
  <2>3. im = Highest(P) BY Zenon, <2>1, <2>2 DEF LookupMin
  <2>4. IvsOK(T) BY Zenon, <2>1 DEF BufferOK
  <2>5. CASE P = {}
    <3>1. im = NoIv BY Zenon, <2>3, <2>5, NoIvFields
    <3> QED BY Zenon, <2>1, <2>2, <2>5, <3>1
  <2>6. CASE P # {}
    <3>1. \A j \in P : IvOK(j) BY Zenon, <2>2, <2>4 DEF IvsOK
    <3>2. im \in P BY Zenon, <2>3, <2>6, <3>1, EndsFound
    <3> QED BY Zenon, <2>1, <2>2, <2>4, <3>2, ApartFacts
  <2> QED BY Zenon, <2>5, <2>6
\* The interval that a sample makes of its neighbours.
<1>JoinedOK. ASSUME NEW r, BufferOK(r), r.mode = "NORMAL", NEW s \in 1..MaxSeq, s > r.next_seq, NEW D,
                    NEW left, NEW right, Neighbours(r, s, left, right)
             PROVE  \E R : Inserted(r, s, left, right, R, Joined(left, s, right), D)
  <2> USE <1>JoinedOK
  <2>a. PICK new : new = Interval(s, s + 1, <<s>>) BY Zenon
  <2>b. PICK grown : grown = Grown(left, s) BY Zenon
  <2>c. grown = IF left = NoIv THEN new ELSE append_rsample_interval(left, new) BY Zenon, <2>a, <2>b DEF Grown
  <2>d. PICK joined : joined = Joined(left, s, right) BY Zenon
  <2>e. joined = IF right = NoIv THEN grown ELSE append_rsample_interval(grown, right)
    BY Zenon, <2>b, <2>d DEF Joined
  <2>f. /\ \A j \in r.sampleivtree : s < j.min \/ j.maxp1 <= s
        /\ left # NoIv => left \in r.sampleivtree /\ left.maxp1 = s
        /\ \A j \in r.sampleivtree : j.maxp1 = s => j = left
        /\ right # NoIv => right \in r.sampleivtree /\ right.min = s + 1
        /\ \A j \in r.sampleivtree : j.min = s + 1 => j = right
    BY Zenon DEF Neighbours
  <2>1. PICK T : T = r.sampleivtree BY Zenon
  <2>2. IvsOK(T) /\ \A j \in T : r.next_seq < j.min BY Zenon, <2>1 DEF BufferOK
  <2>3. \A j \in T : IvOK(j) /\ j.min \in Nat /\ j.maxp1 \in Nat /\ j.min < j.maxp1 BY Zenon, <2>1, Buffer
  <2>4. s \in Nat /\ r.next_seq \in Nat BY Buffer
  <2>5. IvOK(new) /\ new.min = s /\ new.maxp1 = s + 1 BY Zenon, <2>a, SingleOK
  <2>6. PICK Q : Q = IF left = NoIv THEN {} ELSE {left} BY Zenon
  <2>7. /\ IvOK(grown) /\ grown.maxp1 = s + 1 /\ Adds(Q, grown, D, TRUE)
        /\ grown.min = IF left = NoIv THEN s ELSE left.min
    <3>1. CASE left = NoIv
      <4>1. grown = new /\ Q = {} BY Zenon, <2>c, <2>6, <3>1
      <4>2. Adds({}, new, D, TRUE) BY Zenon, <2>a, AddsSingle
      <4> QED BY Zenon, <2>5, <3>1, <4>1, <4>2
    <3>2. CASE left # NoIv
      <4>1. Q = {left} /\ grown = append_rsample_interval(left, new) BY Zenon, <2>c, <2>6, <3>2
      <4>2. IvOK(left) /\ left.maxp1 = s BY Zenon, <2>f, <2>1, <2>3, <3>2
      <4>3. IvOK(grown) /\ grown.min = left.min /\ grown.maxp1 = s + 1 /\ Adds({left}, grown, D, TRUE)
        BY Zenon, <2>a, <4>1, <4>2, AddsAfter
      <4> QED BY Zenon, <3>2, <4>1, <4>3
    <3> QED BY Zenon, <3>1, <3>2
  <2>8. PICK R : R = IF right = NoIv THEN Q ELSE Q \cup {right} BY Zenon
  <2>9. Q \subseteq T /\ R \subseteq T BY Zenon, <2>f, <2>1, <2>6, <2>8
  <2>10. T \ R = T \ {left, right}
    <3>1. NoIv \notin T BY Zenon, <2>3, IvIsNoNoIv
    <3> QED BY Zenon, <2>6, <2>8, <3>1
  <2>11. grown.min \in Nat /\ grown.min <= s /\ r.next_seq < grown.min
    <3>1. CASE left = NoIv
      <4>1. grown.min = s BY Zenon, <2>7, <3>1
      <4> QED BY ONLY <2>4, <4>1, s > r.next_seq
    <3>2. CASE left # NoIv
      <4>1. grown.min = left.min /\ left \in T /\ left.maxp1 = s BY Zenon, <2>f, <2>1, <2>7, <3>2
      <4>2. left.min \in Nat /\ left.min < left.maxp1 /\ r.next_seq < left.min BY Zenon, <2>2, <2>3, <4>1
      <4>3. left.min <= s BY ONLY <2>4, <4>1, <4>2
      <4> QED BY Zenon, <4>1, <4>2, <4>3
    <3> QED BY Zenon, <3>1, <3>2
  <2>12. /\ IvOK(joined) /\ joined.min = grown.min /\ Adds(R, joined, D, TRUE)
         /\ joined.maxp1 = IF right = NoIv THEN s + 1 ELSE right.maxp1
    <3>1. CASE right = NoIv
      <4>1. joined = grown /\ R = Q BY Zenon, <2>e, <2>8, <3>1
      <4> QED BY Zenon, <2>7, <3>1, <4>1
    <3>2. CASE right # NoIv
      <4>1. R = Q \cup {right} /\ joined = append_rsample_interval(grown, right) BY Zenon, <2>e, <2>8, <3>2
      <4>2. right \in T /\ right.min = s + 1 BY Zenon, <2>f, <2>1, <3>2
      <4>3. right \notin Q
        <5> SUFFICES ASSUME right \in Q PROVE FALSE BY Zenon
        <5>1. right = left /\ left # NoIv BY Zenon, <2>6
        <5>2. right.maxp1 = s BY Zenon, <2>f, <5>1
        <5>3. right.min \in Nat /\ right.maxp1 \in Nat /\ right.min < right.maxp1 BY Zenon, <2>3, <4>2
        <5> QED BY ONLY <2>4, <4>2, <5>2, <5>3
      <4>4. IvsOK(And(Q, right))
        <5>1. And(Q, right) \subseteq T BY Zenon, <2>9, <4>2 DEF And
        <5> QED BY Zenon, <2>2, <5>1, SubIvs
      <4>5. grown.maxp1 = right.min BY Zenon, <2>7, <4>2
      <4>6. IvOK(joined) /\ joined.min = grown.min /\ joined.maxp1 = right.maxp1 /\ Adds(And(Q, right), joined, D, TRUE)
        <5>1. Meets(Q, grown, right, D) BY Zenon, <2>7, <4>3, <4>4, <4>5 DEF Meets
        <5>2. Joins(append_rsample_interval(grown, right), Q, grown, right, D) BY Zenon, <5>1, <1>AddsBefore
        <5>3. Joins(joined, Q, grown, right, D) BY Zenon, <4>1, <5>2
        <5> QED BY Zenon, <5>3 DEF Joins
      <4> QED BY Zenon, <3>2, <4>1, <4>6 DEF And
    <3> QED BY Zenon, <3>1, <3>2
  <2>13. \A j \in T \ R : joined.maxp1 < j.min \/ j.maxp1 < joined.min
    <3> SUFFICES ASSUME NEW j \in T \ R PROVE joined.maxp1 < j.min \/ j.maxp1 < joined.min BY Zenon
    <3>1. j \in T /\ j # left /\ j # right BY Zenon, <2>10
    <3>2. (s < j.min \/ j.maxp1 <= s) /\ j.maxp1 # s /\ j.min # s + 1 BY Zenon, <2>f, <2>1, <3>1
    <3>3. j.min \in Nat /\ j.maxp1 \in Nat /\ j.min < j.maxp1 BY Zenon, <2>3, <3>1
    <3>4. s + 1 < j.min \/ j.maxp1 < s BY ONLY <2>4, <3>2, <3>3
    <3>5. CASE s + 1 < j.min
      <4>1. CASE right = NoIv BY Zenon, <2>12, <3>5, <4>1
      <4>2. CASE right # NoIv
        <5>1. right \in T /\ right.min = s + 1 /\ joined.maxp1 = right.maxp1 BY Zenon, <2>f, <2>1, <2>12, <4>2
        <5>2. right.min < j.min BY Zenon, <3>5, <5>1
        <5> QED BY Zenon, <2>2, <3>1, <5>1, <5>2, ApartFacts
      <4> QED BY Zenon, <4>1, <4>2
    <3>6. CASE j.maxp1 < s
      <4>1. CASE left = NoIv BY Zenon, <2>7, <2>12, <3>6, <4>1
      <4>2. CASE left # NoIv
        <5>1. left \in T /\ left.maxp1 = s /\ joined.min = left.min BY Zenon, <2>f, <2>1, <2>7, <2>12, <4>2
        <5>2. left.maxp1 < j.min \/ j.maxp1 < left.min BY Zenon, <2>2, <3>1, <5>1 DEF IvsOK, Apart
        <5>3. j.maxp1 < left.min BY ONLY <2>4, <3>3, <3>6, <5>1, <5>2
        <5> QED BY Zenon, <5>1, <5>3
      <4> QED BY Zenon, <4>1, <4>2
    <3> QED BY Zenon, <3>4, <3>5, <3>6
  <2>14. Fits(r, R, joined) BY Zenon, <2>1, <2>9, <2>11, <2>12, <2>13 DEF Fits
  <2>15. With(r.sampleivtree, R, joined) = (r.sampleivtree \ {left, right}) \cup {joined}
    BY Zenon, <2>1, <2>10 DEF With
  <2>16. s < joined.maxp1
    <3>1. CASE right = NoIv
      <4>1. joined.maxp1 = s + 1 BY Zenon, <2>12, <3>1
      <4> QED BY ONLY <2>4, <4>1
    <3>2. CASE right # NoIv
      <4>1. joined.maxp1 = right.maxp1 /\ right \in T /\ right.min = s + 1 BY Zenon, <2>f, <2>1, <2>12, <3>2
      <4>2. right.maxp1 \in Nat /\ right.min < right.maxp1 BY Zenon, <2>3, <4>1
      <4> QED BY ONLY <2>4, <4>1, <4>2
    <3> QED BY Zenon, <3>1, <3>2
  <2>17. Inserted(r, s, left, right, R, joined, D) BY Zenon, <2>11, <2>12, <2>14, <2>15, <2>16 DEF Inserted
  <2> QED BY Zenon, <2>d, <2>17
\* CountOrEvict, with the tree and max_sampleiv up to date.
<1>CountOrEvictOK.
     ASSUME NEW r, BufferOK(r), NEW R, NEW w, Fits(r, R, w), NEW D, NEW tight \in BOOLEAN, Adds(R, w, D, tight),
            NEW p, SameButTree(p, r), p.sampleivtree = With(r.sampleivtree, R, w),
            p.max_sampleiv = Highest(p.sampleivtree).min, p.n_samples = r.n_samples,
            NEW q, q = CountOrEvict(p)
     PROVE  BufferOK(q) /\ SameButTree(q, r) /\ Stores(r, q, D, tight)
  <2> USE <1>CountOrEvictOK
  <2>1. Len(w.sc) = Count(R) + 1 BY Zenon DEF Adds
  <2>2. p.max_samples = r.max_samples /\ DOMAIN p = Fields BY Zenon DEF SameButTree
  <2>3. CASE r.n_samples < r.max_samples
    <3>1. q = [p EXCEPT !.n_samples = @ + 1] BY Zenon, <2>2, <2>3 DEF CountOrEvict
    <3>2. /\ SameButTree(q, p) /\ q.sampleivtree = p.sampleivtree /\ q.max_sampleiv = p.max_sampleiv
          /\ q.n_samples = p.n_samples + 1
      BY Zenon, <2>2, <3>1 DEF SameButTree, Fields
    <3>3. SameButTree(q, r) BY Zenon, <3>2 DEF SameButTree
    <3>4. /\ q.sampleivtree = With(r.sampleivtree, R, w) /\ q.max_sampleiv = Highest(q.sampleivtree).min
          /\ q.n_samples = r.n_samples + 1
      BY Zenon, <3>2
    <3>5. BufferOK(q) BY Zenon, <2>1, <2>3, <3>3, <3>4, MoreOK
    <3>6. Stores(r, q, D, tight) BY Zenon, <2>3, <3>4 DEF Stores
    <3> QED BY Zenon, <3>3, <3>5, <3>6
  <2>4. CASE ~(r.n_samples < r.max_samples)
    <3>1. q = delete_last_sample(p) BY Zenon, <2>2, <2>4 DEF CountOrEvict
    <3>2. BufferOK(q) /\ SameButTree(q, r) /\ LeftOf(With(r.sampleivtree, R, w), q.sampleivtree)
      BY Zenon, <2>1, <2>4, <3>1, EvictOK
    <3>3. Stores(r, q, D, tight) BY Zenon, <2>4, <3>2 DEF Stores
    <3> QED BY Zenon, <3>2, <3>3
  <2> QED BY Zenon, <2>3, <2>4
\* The last interval after a sample was inserted.
<1>LastAfterInsert.
     ASSUME NEW r, BufferOK(r), NEW s \in 1..MaxSeq, NEW left, NEW right, Neighbours(r, s, left, right),
            NEW R, NEW w, NEW D, Inserted(r, s, left, right, R, w, D),
            NEW h, IsLast(r, h), ~(s >= h.maxp1)
     PROVE  Highest(With(r.sampleivtree, R, w)).min = IF right # NoIv /\ h.min = right.min THEN w.min ELSE h.min
  <2> USE <1>LastAfterInsert
  <2>a. /\ \A j \in r.sampleivtree : s < j.min \/ j.maxp1 <= s
        /\ left # NoIv => left.maxp1 = s
        /\ right # NoIv => right.min = s + 1
        /\ \A j \in r.sampleivtree : j.min = s + 1 => j = right
    BY Zenon DEF Neighbours
  <2>b. Fits(r, R, w) /\ w.min <= s /\ s < w.maxp1 BY Zenon DEF Inserted
  <2>h. h \in r.sampleivtree /\ \A j \in r.sampleivtree : j.min <= h.min BY Zenon DEF IsLast
  <2>u. PICK U : U = With(r.sampleivtree, R, w) BY Zenon
  <2>c. U = (r.sampleivtree \ {left, right}) \cup {w} BY Zenon, <2>u DEF Inserted
  <2>d. s \in Nat BY SMT
  <2>1. PICK T : T = r.sampleivtree BY Zenon
  <2>2. \A j \in T : IvOK(j) /\ j.min \in Nat /\ j.maxp1 \in Nat /\ j.min < j.maxp1 BY Zenon, <2>1, Buffer
  <2>3. IvsOK(U) BY Zenon, <2>b, <2>u, FitsIn
  <2>4. h \in T /\ s < h.min
    <3>1. h \in T /\ (s < h.min \/ h.maxp1 <= s) BY Zenon, <2>a, <2>h, <2>1
    <3>2. h.min \in Nat /\ h.maxp1 \in Nat BY Zenon, <2>2, <3>1
    <3>3. ~(s >= h.maxp1) BY Zenon
    <3> QED BY ONLY Zenon, <2>d, <3>1, <3>2, <3>3
  <2>5. IvOK(w) BY Zenon, <2>b DEF Fits
  <2>6. w.min \in Nat /\ w.maxp1 \in Nat BY Zenon, <2>5, IvFields
  <2>7. w \in U /\ w.min <= w.min
    <3>1. w.min <= w.min BY ONLY <2>6
    <3> QED BY Zenon, <2>c, <3>1
  <2>8. CASE right # NoIv /\ h.min = right.min
    <3>1. h.min = s + 1 BY Zenon, <2>a, <2>8
    <3>2. ASSUME NEW j \in T, j \notin {left, right} PROVE j.min <= w.min
      <4>1. j.min \in Nat /\ j.maxp1 \in Nat /\ j.min < j.maxp1 BY Zenon, <2>2, <3>2
      <4>2. j.min # s + 1 /\ j.min <= s + 1 /\ (s < j.min \/ j.maxp1 <= s)
        BY Zenon, <2>a, <2>h, <2>1, <3>1, <3>2
      <4>3. j \notin R
        <5>1. CASE j = w
          <6>1. w.maxp1 <= s
            BY ONLY <2>d, <4>1, <4>2, <5>1
          <6> QED BY ONLY <2>b, <2>d, <2>6, <6>1
        <5>2. CASE j # w
          <6>1. j \in U BY Zenon, <2>c, <2>1, <3>2
          <6>2. j \in With(r.sampleivtree, R, w) BY Zenon, <2>u, <6>1
          <6> QED BY ONLY Zenon, <5>2, <6>2 DEF With
        <5> QED BY Zenon, <5>1, <5>2
      <4>4. w.maxp1 < j.min \/ j.maxp1 < w.min BY Zenon, <2>b, <2>1, <4>3 DEF Fits
      <4> QED BY ONLY <2>b, <2>d, <2>6, <4>1, <4>2, <4>4
    <3>3. \A j \in U : j.min <= w.min BY Zenon, <2>c, <2>1, <2>7, <3>2
    <3>4. Highest(U) = w BY Zenon, <2>3, <2>7, <3>3, HighestIs
    <3> QED BY Zenon, <2>u, <2>8, <3>4
  <2>9. CASE ~(right # NoIv /\ h.min = right.min)
    <3>1. h # right BY Zenon, <2>2, <2>4, <2>9, IvIsNoNoIv
    <3>2. h # left
      <4> SUFFICES ASSUME h = left PROVE FALSE BY Zenon
      <4>1. h.maxp1 = s BY Zenon, <2>a, <2>2, <2>4, IvIsNoNoIv
      <4>2. h.min \in Nat /\ h.maxp1 \in Nat /\ h.min < h.maxp1 BY Zenon, <2>2, <2>4
      <4> QED BY ONLY <2>d, <2>4, <4>1, <4>2
    <3>3. h \in U BY Zenon, <2>c, <2>1, <2>4, <3>1, <3>2
    <3>4. w.min <= h.min
      <4>1. h.min \in Nat BY Zenon, <2>2, <2>4
      <4> QED BY ONLY <2>b, <2>d, <2>4, <2>6, <4>1
    <3>5. \A j \in U : j.min <= h.min BY Zenon, <2>c, <2>h, <3>4
    <3>6. Highest(U) = h BY Zenon, <2>3, <3>3, <3>5, HighestIs
    <3> QED BY Zenon, <2>u, <2>9, <3>6
  <2> QED BY Zenon, <2>8, <2>9
<1>Main.
     ASSUME BufferOK(reorder), NEW s \in 1..MaxSeq, reorder.mode = "NORMAL", s > reorder.next_seq,
            reorder.sampleivtree # {}, ~(s >= MaxIv(reorder).maxp1), ~(s < LookupPredEq(reorder, s).maxp1),
            InsertSample(s), NEW D
     PROVE  BufferOK(reorder') /\ SameButTree(reorder', reorder) /\ Stores(reorder, reorder', D, TRUE)
  <2> USE <1>Main
  <2>1. PICK r : r = reorder BY Zenon
  <2>2. PICK q : q = reorder' BY Zenon
  <2>3. PICK h : h = MaxIv(r) BY Zenon
  <2>4. PICK pe : pe = LookupPredEq(r, s) BY Zenon
  <2>5. PICK right : right = LookupMin(r, s + 1) BY Zenon
  <2>6. PICK left : left = IF pe # NoIv /\ pe.maxp1 = s THEN pe ELSE NoIv BY Zenon
  <2>7. PICK joined : joined = Joined(left, s, right) BY Zenon
  <2>8. PICK p : p = [r EXCEPT !.sampleivtree = (@ \ {left, right}) \cup {joined},
                               !.max_sampleiv = IF right # NoIv /\ @ = right.min THEN joined.min ELSE @] BY Zenon
  <2>9. q = CountOrEvict(p)
    BY Zenon, <2>1, <2>2, <2>4, <2>5, <2>6, <2>7, <2>8 DEF InsertSample, Joined, Grown, LookupMin
  <2>10. BufferOK(r) /\ r.mode = "NORMAL" /\ s > r.next_seq BY Zenon, <2>1
  <2>11. ~(s >= h.maxp1) /\ ~(s < pe.maxp1) /\ r.sampleivtree # {} BY Zenon, <2>1, <2>3, <2>4
  <2>12. DOMAIN r = Fields /\ r.max_sampleiv = Highest(r.sampleivtree).min BY Zenon, <2>10 DEF BufferOK
  <2>13. /\ h = Highest(r.sampleivtree)
         /\ IsLast(r, h)
    BY Zenon, <2>3, <2>10, <2>11, LastOf DEF IsLast
  <2>14. Neighbours(r, s, left, right)
    <3>1. /\ \A j \in r.sampleivtree : s < j.min \/ j.maxp1 <= s
          /\ \A j \in r.sampleivtree : j.maxp1 = s => j = pe
          /\ pe # NoIv => pe \in r.sampleivtree
      BY ONLY Zenon, s \in 1..MaxSeq, <2>4, <2>10, <2>11, <1>LeftOfSample
    <3>2. /\ \A j \in r.sampleivtree : j.min = s + 1 => j = right
          /\ right # NoIv => right \in r.sampleivtree /\ right.min = s + 1
      <4>1. PICK m : m = s + 1 BY Zenon
      <4>2. right = LookupMin(r, m) BY Zenon, <2>5, <4>1
      <4>3. /\ \A j \in r.sampleivtree : j.min = m => j = right
            /\ right # NoIv => right \in r.sampleivtree /\ right.min = m
        BY Zenon, <2>10, <4>2, <1>RightOfSample
      <4> QED BY Zenon, <4>1, <4>3
    <3>3. \A j \in r.sampleivtree : j # NoIv BY Zenon, <2>10, Buffer, IvIsNoNoIv
    <3>4. \A j \in r.sampleivtree : j.maxp1 = s => j = left BY Zenon, <2>6, <3>1, <3>3
    <3>5. left # NoIv => left \in r.sampleivtree /\ left.maxp1 = s BY Zenon, <2>6, <3>1
    <3> QED BY Zenon, <3>1, <3>2, <3>4, <3>5 DEF Neighbours
  <2>15. PICK R : Inserted(r, s, left, right, R, joined, D)
    <3>1. \E R : Inserted(r, s, left, right, R, Joined(left, s, right), D) BY Zenon, <2>10, <2>14, <1>JoinedOK
    <3> QED BY Zenon, <2>7, <3>1
  <2>16. PICK U : U = With(r.sampleivtree, R, joined) BY Zenon
  <2>17. /\ SameButTree(p, r) /\ p.sampleivtree = (r.sampleivtree \ {left, right}) \cup {joined}
         /\ p.n_samples = r.n_samples
         /\ p.max_sampleiv = IF right # NoIv /\ r.max_sampleiv = right.min THEN joined.min ELSE r.max_sampleiv
    BY Zenon, <2>8, <2>12 DEF SameButTree, Fields
  <2>18. p.sampleivtree = U BY Zenon, <2>15, <2>16, <2>17 DEF Inserted
  <2>19. Highest(U).min = IF right # NoIv /\ h.min = right.min THEN joined.min ELSE h.min
    <3>1. Highest(With(r.sampleivtree, R, joined)).min = IF right # NoIv /\ h.min = right.min THEN joined.min ELSE h.min
      BY ONLY s \in 1..MaxSeq, <2>10, <2>11, <2>13, <2>14, <2>15, <1>LastAfterInsert
    <3> QED BY Zenon, <2>16, <3>1
  <2>20. p.max_sampleiv = Highest(p.sampleivtree).min BY Zenon, <2>12, <2>13, <2>17, <2>18, <2>19
  <2>21. Fits(r, R, joined) /\ Adds(R, joined, D, TRUE) BY Zenon, <2>15 DEF Inserted
  <2>22. SameButTree(p, r) /\ p.n_samples = r.n_samples /\ p.sampleivtree = With(r.sampleivtree, R, joined)
    BY Zenon, <2>16, <2>17, <2>18
  <2>23. BufferOK(q) /\ SameButTree(q, r) /\ Stores(r, q, D, TRUE)
    BY Zenon, <2>9, <2>10, <2>20, <2>21, <2>22, <1>CountOrEvictOK
  <2> QED BY Zenon, <2>1, <2>2, <2>23
<1> QED BY Zenon, <1>Main
==============================================================================
