--------------------------- MODULE AckTreeProofs ---------------------------
(***************************************************************************)
(* What the summaries in the writer's tree of readers say, for any number  *)
(* of readers and any shape of the tree, and what the writer may conclude  *)
(* from the one at the root.                                               *)
(***************************************************************************)
EXTENDS AckTree, FiniteSetTheorems, TLAPS

---------------------------------------------------------------------------
(* Numbers and finite sets. *)

\* A set of natural numbers that is not empty has a least one.
LEMMA LeastNumber ==
  ASSUME NEW S \in SUBSET Nat, S # {}
  PROVE  \E x \in S : \A y \in S : x <= y
<1>1. PICK x \in S : \A y \in S : ~(<<y, x>> \in OpToRel(<, Nat))
  BY Zenon, NatLessThanWellFounded, WFMin
<1>2. \A y \in S : x <= y
  <2> SUFFICES ASSUME NEW y \in S PROVE x <= y BY Zenon
  <2>1. y \in Nat /\ x \in Nat BY Zenon
  <2>2. ~(y < x) BY Zenon, <1>1, <2>1 DEF OpToRel
  <2> QED BY ONLY <2>1, <2>2
<1> QED BY Zenon, <1>2

\* What holds of a set of readers once it holds of all its proper subsets
\* holds of every set of readers.
LEMMA SubsetInduction ==
  ASSUME NEW D, IsFiniteSet(D), NEW G,
         \A S \in SUBSET D : (\A T \in SUBSET S : T # S => T \in G) => S \in G
  PROVE  \A S \in SUBSET D : S \in G
<1> SUFFICES ASSUME NEW X \in SUBSET D, X \notin G PROVE FALSE BY Zenon
<1>1. PICK B : B = {S \in SUBSET D : S \notin G} BY Zenon
<1>2. PICK N : N = {Cardinality(S) : S \in B} BY Zenon
<1>3. N \in SUBSET Nat
  <2>1. \A S \in SUBSET D : Cardinality(S) \in Nat BY Zenon, FS_Subset, FS_CardinalityType
  <2>2. \A S \in B : Cardinality(S) \in Nat BY Zenon, <1>1, <2>1
  <2> QED BY <1>2, <2>2
<1>4. N # {}
  <2>1. X \in B BY Zenon, <1>1
  <2>2. Cardinality(X) \in N BY <1>2, <2>1
  <2> QED BY Zenon, <2>2
<1>5. PICK n \in N : \A k \in N : n <= k BY Zenon, <1>3, <1>4, LeastNumber
<1>6. PICK S \in B : n = Cardinality(S) BY <1>2
<1>7. ASSUME NEW T \in SUBSET S, T # S PROVE T \in G
  <2>1. IsFiniteSet(S) BY Zenon, <1>1, <1>6, FS_Subset
  <2>2. /\ Cardinality(T) <= Cardinality(S) /\ Cardinality(T) # Cardinality(S)
        /\ Cardinality(T) \in Nat /\ Cardinality(S) \in Nat
    BY Zenon, <2>1, <1>7, FS_Subset, FS_CardinalityType
  <2>3. ~(Cardinality(S) <= Cardinality(T)) BY ONLY <2>2
  <2>4. T \in SUBSET D BY Zenon, <1>1, <1>6
  <2>5. T \in B => Cardinality(T) \in N BY <1>2
  <2> QED BY Zenon, <2>3, <2>4, <2>5, <1>1, <1>5, <1>6
<1> QED BY Zenon, <1>1, <1>6, <1>7

\* The greatest and the least of three numbers.
LEMMA MaxOfThree ==
  ASSUME NEW a \in Nat, NEW b \in Nat, NEW c \in Nat
  PROVE  /\ Max({a, b, c}) \in {a, b, c}
         /\ Max({a, b, c}) >= a /\ Max({a, b, c}) >= b /\ Max({a, b, c}) >= c
<1>1. \E x \in {a, b, c} : \A y \in {a, b, c} : x >= y
  <2>1. CASE a >= b /\ a >= c BY <2>1
  <2>2. CASE b >= a /\ b >= c BY <2>2
  <2>3. CASE c >= a /\ c >= b BY <2>3
  <2> QED BY <2>1, <2>2, <2>3
<1> QED BY Zenon, <1>1 DEF Max

\* The least of three numbers.
LEMMA MinOfThree ==
  ASSUME NEW a \in Nat, NEW b \in Nat, NEW c \in Nat
  PROVE  /\ Min({a, b, c}) \in {a, b, c}
         /\ Min({a, b, c}) <= a /\ Min({a, b, c}) <= b /\ Min({a, b, c}) <= c
<1>1. \E x \in {a, b, c} : \A y \in {a, b, c} : x =< y
  <2>1. CASE a <= b /\ a <= c BY <2>1
  <2>2. CASE b <= a /\ b <= c BY <2>2
  <2>3. CASE c <= a /\ c <= b BY <2>3
  <2> QED BY <2>1, <2>2, <2>3
<1> QED BY Zenon, <1>1 DEF Min

\* The greatest and the least of two numbers.
LEMMA OfTwo ==
  ASSUME NEW a \in Nat, NEW b \in Nat
  PROVE  /\ Max({a, b}) \in {a, b} /\ Max({a, b}) >= a /\ Max({a, b}) >= b
         /\ Min({a, b}) \in {a, b} /\ Min({a, b}) <= a /\ Min({a, b}) <= b
<1>1. \E x \in {a, b} : \A y \in {a, b} : x >= y
  <2>1. CASE a >= b BY <2>1
  <2>2. CASE b >= a BY <2>2
  <2> QED BY <2>1, <2>2
<1>2. \E x \in {a, b} : \A y \in {a, b} : x =< y
  <2>1. CASE a <= b BY <2>1
  <2>2. CASE b <= a BY <2>2
  <2> QED BY <2>1, <2>2
<1> QED BY Zenon, <1>1, <1>2 DEF Max, Min

\* A number of a set that bounds it is its greatest, or its least.
LEMMA Extremes ==
  ASSUME NEW S \in SUBSET Nat, NEW x \in S
  PROVE  /\ (\A y \in S : x >= y) => Max(S) = x
         /\ (\A y \in S : x <= y) => Min(S) = x
<1>1. ASSUME \A y \in S : x >= y PROVE Max(S) = x
  <2>1. Max(S) \in S /\ \A y \in S : Max(S) >= y BY Zenon, <1>1 DEF Max
  <2>2. x \in Nat /\ Max(S) \in Nat /\ x >= Max(S) /\ Max(S) >= x BY Zenon, <1>1, <2>1
  <2> QED BY ONLY <2>2
<1>2. ASSUME \A y \in S : x <= y PROVE Min(S) = x
  <2>1. Min(S) \in S /\ \A y \in S : Min(S) =< y BY Zenon, <1>2 DEF Min
  <2>2. x \in Nat /\ Min(S) \in Nat /\ x <= Min(S) /\ Min(S) <= x BY Zenon, <1>2, <2>1
  <2> QED BY ONLY <2>2
<1> QED BY Zenon, <1>1, <1>2

\* The number of elements of three sets that do not meet.
LEMMA CardinalityOfThree ==
  ASSUME NEW A, NEW B, NEW C, IsFiniteSet(A), IsFiniteSet(B), IsFiniteSet(C),
         A \cap B = {}, A \cap C = {}, B \cap C = {}
  PROVE  Cardinality(A \cup B \cup C) = Cardinality(A) + Cardinality(B) + Cardinality(C)
<1>1. /\ IsFiniteSet(A \cup B)
      /\ Cardinality(A \cup B) = Cardinality(A) + Cardinality(B) - Cardinality(A \cap B)
  BY Zenon, FS_Union
<1>2. Cardinality((A \cup B) \cup C)
        = Cardinality(A \cup B) + Cardinality(C) - Cardinality((A \cup B) \cap C)
  BY Zenon, <1>1, FS_Union
<1>3. (A \cup B) \cap C = {} BY Zenon
<1>4. Cardinality(A \cap B) = 0 /\ Cardinality((A \cup B) \cap C) = 0 BY Zenon, <1>3, FS_EmptySet
<1>5. Cardinality(A) \in Nat /\ Cardinality(B) \in Nat /\ Cardinality(C) \in Nat
  BY Zenon, FS_CardinalityType
<1> QED BY ONLY <1>1, <1>2, <1>4, <1>5

---------------------------------------------------------------------------
(* The tree and the recursion over it. *)

\* The part of the type invariant that the summaries rest on.
Match == [seq : 0..MAX_SEQ_NUMBER, is_reliable : BOOLEAN, has_replied_to_hb : BOOLEAN, deleting : BOOLEAN]

TreeOK ==
  /\ IsFiniteSet(DOMAIN match) /\ DOMAIN match \subseteq Nat \ {0}
  /\ tree \in [DOMAIN match -> Nat]
  /\ match \in [DOMAIN match -> Match]

\* The root of a subtree is one of its nodes.
LEMMA RootIn ==
  ASSUME TreeOK, NEW S \in SUBSET DOMAIN match, S # {}
  PROVE  Root(tree, S) \in S
<1>1. PICK N : N = {tree[m] : m \in S} BY Zenon
<1>2. \A m \in S : tree[m] \in Nat BY Zenon DEF TreeOK
<1>3. N \in SUBSET Nat /\ N # {} BY Zenon, <1>1, <1>2
<1>4. PICK d \in N : \A k \in N : d <= k BY Zenon, <1>3, LeastNumber
<1>5. PICK m \in S : d = tree[m] BY Zenon, <1>1
<1>6. \A k \in S : tree[m] <= tree[k] BY Zenon, <1>1, <1>4, <1>5
<1> QED BY Zenon, <1>6 DEF Root

\* A subtree splits at its root.
LEMMA RootSplits ==
  ASSUME TreeOK, NEW S \in SUBSET DOMAIN match, S # {},
         NEW n, n = Root(tree, S), NEW l, l = Left(S, n), NEW r, r = Right(S, n)
  PROVE  /\ n \in S /\ n \notin l /\ n \notin r /\ l \cap r = {} /\ S = l \cup {n} \cup r
         /\ l \subseteq S /\ r \subseteq S /\ l # S /\ r # S
<1>1. n \in S BY Zenon, RootIn
<1>2. S \subseteq Nat BY Zenon DEF TreeOK
<1>3. /\ n \notin l /\ n \notin r /\ l \cap r = {} /\ S = l \cup {n} \cup r
      /\ l \subseteq S /\ r \subseteq S
  BY <1>1, <1>2 DEF Left, Right
<1> QED BY Zenon, <1>1, <1>3

\* The root of a subtree of one node.
LEMMA RootOfOne ==
  ASSUME TreeOK, NEW x \in DOMAIN match
  PROVE  Root(tree, {x}) = x
<1>1. {x} \in SUBSET DOMAIN match /\ {x} # {} BY Zenon
<1>2. Root(tree, {x}) \in {x} BY Zenon, <1>1, RootIn
<1> QED BY Zenon, <1>2

\* What Summary computes at S, from the summaries f of smaller sets.
SummaryOf(f, S) ==
  IF S = {} THEN NoSummary
  ELSE LET n == Root(tree, S)
           l == Left(S, n)
           r == Right(S, n)
       IN  CHOOSE s \in {augment_wr_prd_match(n, c[1], Root(tree, l), c[2], Root(tree, r)) :
                           c \in {<<f[l], f[r]>>}} : TRUE

\* The node's own part of it.
AtRoot(f, S) ==
  augment_wr_prd_match(Root(tree, S), f[Left(S, Root(tree, S))], Root(tree, Left(S, Root(tree, S))),
                       f[Right(S, Root(tree, S))], Root(tree, Right(S, Root(tree, S))))

\* The summary of a node is computed from those of its two children alone.
LEMMA SummaryOfNode ==
  ASSUME NEW f, NEW S
  PROVE  SummaryOf(f, S) = IF S = {} THEN NoSummary ELSE AtRoot(f, S)
<1>1. CASE S = {} BY Zenon, <1>1 DEF SummaryOf
<1>2. CASE S # {}
  <2>1. PICK n, l, r : n = Root(tree, S) /\ l = Left(S, n) /\ r = Right(S, n) BY Zenon
  <2>2. PICK a : a = augment_wr_prd_match(n, f[l], Root(tree, l), f[r], Root(tree, r)) BY Zenon
  <2>3. PICK A : A = {augment_wr_prd_match(n, c[1], Root(tree, l), c[2], Root(tree, r)) :
                           c \in {<<f[l], f[r]>>}} BY Zenon
  <2>4. A = {a}
    <3>1. <<f[l], f[r]>>[1] = f[l] /\ <<f[l], f[r]>>[2] = f[r] BY SMT
    <3> QED BY Zenon, <2>2, <2>3, <3>1
  <2>5. (CHOOSE s \in A : TRUE) = a BY Zenon, <2>4
  <2>6. SummaryOf(f, S) = CHOOSE s \in A : TRUE BY Zenon, <1>2, <2>1, <2>3 DEF SummaryOf
  <2> QED BY Zenon, <1>2, <2>1, <2>2, <2>5, <2>6 DEF AtRoot
<1> QED BY Zenon, <1>1, <1>2

\* Summaries that agree on the proper subsets of S agree on S.
LEMMA SummaryLocal ==
  ASSUME TreeOK, NEW S \in SUBSET DOMAIN match, NEW f, NEW g,
         \A T \in SUBSET S : T # S => f[T] = g[T]
  PROVE  SummaryOf(f, S) = SummaryOf(g, S)
<1>1. CASE S = {} BY Zenon, <1>1, SummaryOfNode
<1>2. CASE S # {}
  <2>1. PICK n, l, r : n = Root(tree, S) /\ l = Left(S, n) /\ r = Right(S, n) BY Zenon
  <2>2. l \in SUBSET S /\ r \in SUBSET S /\ l # S /\ r # S BY <1>2, <2>1, RootSplits
  <2>3. f[l] = g[l] /\ f[r] = g[r] BY Zenon, <2>2
  <2>4. /\ f[Left(S, Root(tree, S))] = g[Left(S, Root(tree, S))]
        /\ f[Right(S, Root(tree, S))] = g[Right(S, Root(tree, S))]
    BY ONLY Zenon, <2>1, <2>3
  <2>5. AtRoot(f, S) = AtRoot(g, S) BY ONLY Zenon, <2>4 DEF AtRoot
  <2> QED BY Zenon, <1>2, <2>5, SummaryOfNode
<1> QED BY Zenon, <1>1, <1>2

\* The recursion that recomputes the summaries from the leaves up is well
\* founded: the readers of a child are fewer than those of its parent.
LEMMA SummaryUnfold ==
  ASSUME TreeOK, NEW S \in SUBSET DOMAIN match
  PROVE  Summary[S] = SummaryOf(Summary, S)
<1> DEFINE D == DOMAIN match
           Upto(n) == {T \in SUBSET D : Cardinality(T) <= n}
           N == {n \in Nat : \E f : f = [T \in Upto(n) |-> SummaryOf(f, T)]}
<1>1. IsFiniteSet(D) BY Zenon DEF TreeOK
<1>2. \A T \in SUBSET D : IsFiniteSet(T) /\ Cardinality(T) \in Nat
  BY Zenon, <1>1, FS_Subset, FS_CardinalityType
<1>3. ASSUME NEW T \in SUBSET D, NEW U \in SUBSET T, U # T
      PROVE  U \in SUBSET D /\ Cardinality(U) + 1 <= Cardinality(T)
  <2>1. U \in SUBSET D BY Zenon
  <2>2. Cardinality(U) <= Cardinality(T) /\ Cardinality(U) # Cardinality(T) BY Zenon, <1>2, <1>3, FS_Subset
  <2>3. Cardinality(U) \in Nat /\ Cardinality(T) \in Nat BY Zenon, <1>2, <2>1
  <2> QED BY <2>1, <2>2, <2>3
<1>4. 0 \in N
  <2>1. PICK f : f = [T \in Upto(0) |-> NoSummary] BY Zenon
  <2>2. ASSUME NEW T \in Upto(0) PROVE SummaryOf(f, T) = NoSummary
    <3>1. Cardinality(T) <= 0 /\ Cardinality(T) \in Nat /\ IsFiniteSet(T) BY Zenon, <1>2
    <3>2. Cardinality(T) = 0 BY ONLY <3>1
    <3>3. T = {} BY Zenon, <3>1, <3>2, FS_EmptySet
    <3> QED BY Zenon, <3>3, SummaryOfNode
  <2>3. f = [T \in Upto(0) |-> SummaryOf(f, T)] BY Zenon, <2>1, <2>2
  <2> QED BY Zenon, <2>3
<1>5. ASSUME NEW n \in N PROVE n + 1 \in N
  <2>1. n \in Nat BY Zenon
  <2>2. PICK f : f = [T \in Upto(n) |-> SummaryOf(f, T)] BY Zenon
  <2>3. PICK g : g = [T \in Upto(n + 1) |-> SummaryOf(f, T)] BY Zenon
  <2>4. ASSUME NEW T \in Upto(n + 1) PROVE SummaryOf(f, T) = SummaryOf(g, T)
    <3>1. T \in SUBSET D /\ Cardinality(T) \in Nat /\ Cardinality(T) <= n + 1 BY Zenon, <1>2
    <3>2. ASSUME NEW U \in SUBSET T, U # T PROVE f[U] = g[U]
      <4>1. U \in SUBSET D /\ Cardinality(U) \in Nat /\ Cardinality(U) + 1 <= Cardinality(T)
        BY Zenon, <1>2, <1>3, <3>1, <3>2
      <4>2. Cardinality(U) <= n /\ Cardinality(U) <= n + 1 BY ONLY <2>1, <3>1, <4>1
      <4>3. U \in Upto(n) /\ U \in Upto(n + 1) BY Zenon, <4>1, <4>2
      <4>4. f[U] = SummaryOf(f, U) BY Zenon, <2>2, <4>3
      <4>5. g[U] = SummaryOf(f, U) BY Zenon, <2>3, <4>3
      <4> QED BY Zenon, <4>4, <4>5
    <3> QED BY Zenon, <3>1, <3>2, SummaryLocal
  <2>5. g = [T \in Upto(n + 1) |-> SummaryOf(g, T)] BY Zenon, <2>3, <2>4
  <2>6. n + 1 \in Nat BY <2>1
  <2> QED BY Zenon, <2>5, <2>6
<1>6. ASSUME NEW n \in Nat PROVE n \in N
  <2>1. SUFFICES ASSUME n \notin N PROVE FALSE BY Zenon
  <2>2. PICK M : M = {k \in Nat : k \notin N} BY Zenon
  <2>3. M \in SUBSET Nat /\ M # {} BY Zenon, <2>1, <2>2
  <2>4. PICK k \in M : \A j \in M : k <= j BY Zenon, <2>3, LeastNumber
  <2>5. k \in Nat /\ k # 0 /\ k \notin N BY Zenon, <1>4, <2>2, <2>4
  <2>6. k - 1 \in Nat /\ (k - 1) + 1 = k /\ ~(k <= k - 1) BY ONLY <2>5
  <2>7. k - 1 \in N BY Zenon, <2>2, <2>4, <2>6
  <2>8. (k - 1) + 1 \in N BY Zenon, <1>5, <2>7
  <2> QED BY Zenon, <2>5, <2>6, <2>8
<1>7. Cardinality(D) \in N BY Zenon, <1>2, <1>6
<1>8. PICK f : f = [T \in Upto(Cardinality(D)) |-> SummaryOf(f, T)] BY Zenon, <1>7
<1>9. Upto(Cardinality(D)) = SUBSET D BY Zenon, <1>1, FS_Subset
<1>10. f = [T \in SUBSET DOMAIN match |-> SummaryOf(f, T)] BY Zenon, <1>8, <1>9
<1>11. Summary = CHOOSE h : h = [T \in SUBSET DOMAIN match |-> SummaryOf(h, T)]
  BY Zenon DEF Summary, SummaryOf
<1>12. Summary = [T \in SUBSET DOMAIN match |-> SummaryOf(Summary, T)] BY Zenon, <1>10, <1>11
<1> QED BY Zenon, <1>12

---------------------------------------------------------------------------
(* The summary of a subtree is that of a walk over its readers. *)

\* The readers of S that have acknowledged exactly up to k and answered.
Settled(S, k) == {r \in S : match[r].seq = k /\ match[r].has_replied_to_hb}

Walk(S, s) ==
  /\ s.min_seq \in 0..MAX_SEQ_NUMBER /\ \A r \in S : s.min_seq <= match[r].seq
  /\ s.min_seq = MAX_SEQ_NUMBER \/ \E r \in S : match[r].seq = s.min_seq
  /\ s.max_seq \in 0..(MAX_SEQ_NUMBER - 1)
  /\ \A r \in S : match[r].seq < MAX_SEQ_NUMBER => match[r].seq <= s.max_seq
  /\ s.max_seq = 0 \/ \E r \in S : match[r].seq = s.max_seq
  /\ s.replied = (\A r \in S : match[r].has_replied_to_hb)
  /\ s.num \in Nat /\ s.num = IF s.max_seq = 0 THEN 0 ELSE Cardinality(Settled(S, s.max_seq))

\* The largest number is a number.
LEMMA MaxSeqNat == MAX_SEQ_NUMBER \in Nat /\ MAX_SEQ_NUMBER > 1
BY AckTreeAssumption

\* The fields of a match.
LEMMA MatchFields ==
  ASSUME TreeOK, NEW r \in DOMAIN match
  PROVE  /\ match[r].seq \in Nat /\ match[r].seq <= MAX_SEQ_NUMBER
         /\ match[r].is_reliable \in BOOLEAN /\ match[r].has_replied_to_hb \in BOOLEAN
         /\ match[r].deleting \in BOOLEAN
<1>1. match[r] \in Match BY Zenon DEF TreeOK
<1> QED BY <1>1, MaxSeqNat DEF Match

\* The number of a node that has one short of the largest, for the maximum.
Active(n) == IF match[n].seq < MAX_SEQ_NUMBER THEN match[n].seq ELSE 0

\* What augment_wr_prd_match computes, field by field.
Augmented(n, L, l, R, r, a) ==
  /\ a.min_seq = Min({match[n].seq, L.min_seq, R.min_seq})
  /\ a.max_seq = Max({Active(n), L.max_seq, R.max_seq})
  /\ a.replied = (match[n].has_replied_to_hb /\ L.replied /\ R.replied)
  /\ a.num = IF a.max_seq = 0 THEN 0
             ELSE (IF match[n].seq = a.max_seq /\ match[n].has_replied_to_hb THEN 1 ELSE 0)
                    + (IF L.max_seq = a.max_seq THEN L.num ELSE 0)
                    + (IF R.max_seq = a.max_seq THEN R.num ELSE 0)
  /\ a.arbitrary = arbitrary_unacked_reader(n, a.max_seq, L, l, R, r)

\* The fields of the summary that augment_wr_prd_match computes.
LEMMA AugmentFields ==
  ASSUME NEW n, NEW L, NEW l, NEW R, NEW r
  PROVE  Augmented(n, L, l, R, r, augment_wr_prd_match(n, L, l, R, r))
BY Zenon DEF augment_wr_prd_match, Active, Augmented

\* The summary of a subtree comes from its root and its two subtrees.
LEMMA SummaryNode ==
  ASSUME TreeOK, NEW S \in SUBSET DOMAIN match, S # {},
         NEW n, n = Root(tree, S), NEW l, l = Left(S, n), NEW r, r = Right(S, n)
  PROVE  Augmented(n, Summary[l], Root(tree, l), Summary[r], Root(tree, r), Summary[S])
<1>1. Summary[S] = AtRoot(Summary, S) BY Zenon, SummaryUnfold, SummaryOfNode
<1>2. Summary[S] = augment_wr_prd_match(n, Summary[l], Root(tree, l), Summary[r], Root(tree, r))
  BY Zenon, <1>1 DEF AtRoot
<1> QED BY <1>2, AugmentFields

\* A subtree without readers.
LEMMA SummaryEmpty ==
  ASSUME TreeOK
  PROVE  /\ Summary[{}] = NoSummary
         /\ Walk({}, Summary[{}]) /\ Summary[{}].arbitrary = UNKNOWN
<1>1. {} \in SUBSET DOMAIN match BY Zenon
<1>2. Summary[{}] = NoSummary BY Zenon, <1>1, SummaryUnfold, SummaryOfNode
<1>3. NoSummary.arbitrary = UNKNOWN BY Zenon DEF NoSummary
<1>4. Walk({}, NoSummary) BY MaxSeqNat DEF Walk, NoSummary
<1> QED BY Zenon, <1>2, <1>3, <1>4

\* The readers that have settled on a number, by the parts of a subtree.
LEMMA SettledParts ==
  ASSUME TreeOK, NEW S \in SUBSET DOMAIN match, NEW n \in S, NEW l, NEW r,
         n \notin l, n \notin r, l \cap r = {}, S = l \cup {n} \cup r,
         NEW L, NEW R, Walk(l, L), Walk(r, R), NEW k \in Nat, k > 0, k < MAX_SEQ_NUMBER,
         L.max_seq <= k, R.max_seq <= k
  PROVE  Cardinality(Settled(S, k)) =
           (IF match[n].seq = k /\ match[n].has_replied_to_hb THEN 1 ELSE 0)
             + (IF L.max_seq = k THEN L.num ELSE 0) + (IF R.max_seq = k THEN R.num ELSE 0)
<1>1. IsFiniteSet(l) /\ IsFiniteSet(r) /\ l \in SUBSET DOMAIN match /\ r \in SUBSET DOMAIN match
  BY Zenon, FS_Subset DEF TreeOK
<1>2. IsFiniteSet(Settled(l, k)) /\ IsFiniteSet(Settled(r, k)) BY Zenon, <1>1, FS_Subset DEF Settled
<1>0. k # 0 BY ONLY k \in Nat, k > 0
<1>3. ASSUME NEW T \in SUBSET DOMAIN match, NEW s, Walk(T, s), s.max_seq <= k
      PROVE  Cardinality(Settled(T, k)) = IF s.max_seq = k THEN s.num ELSE 0
  <2>1. CASE s.max_seq = k BY Zenon, <1>0, <1>3, <2>1 DEF Walk
  <2>2. CASE s.max_seq # k
    <3>1. ASSUME NEW x \in T, match[x].seq = k PROVE FALSE
      <4>1. k <= s.max_seq /\ s.max_seq \in Nat BY <1>3, <3>1 DEF Walk
      <4> QED BY ONLY <1>3, <2>2, <4>1, k \in Nat
    <3>2. Settled(T, k) = {} BY Zenon, <3>1 DEF Settled
    <3> QED BY Zenon, <2>2, <3>2, FS_EmptySet
  <2> QED BY Zenon, <2>1, <2>2
<1>4. PICK A : A = Settled({n}, k) BY Zenon
<1>5. IsFiniteSet(A) /\ Cardinality(A) = IF match[n].seq = k /\ match[n].has_replied_to_hb THEN 1 ELSE 0
  <2>1. CASE match[n].seq = k /\ match[n].has_replied_to_hb
    <3>1. A = {n} BY Zenon, <1>4, <2>1 DEF Settled
    <3> QED BY Zenon, <2>1, <3>1, FS_Singleton
  <2>2. CASE ~(match[n].seq = k /\ match[n].has_replied_to_hb)
    <3>1. A = {} BY Zenon, <1>4, <2>2 DEF Settled
    <3> QED BY Zenon, <2>2, <3>1, FS_EmptySet
  <2> QED BY Zenon, <2>1, <2>2
<1>6. /\ Settled(S, k) = A \cup Settled(l, k) \cup Settled(r, k)
      /\ A \cap Settled(l, k) = {} /\ A \cap Settled(r, k) = {} /\ Settled(l, k) \cap Settled(r, k) = {}
  BY Zenon, <1>4 DEF Settled
<1>7. Cardinality(Settled(S, k)) = Cardinality(A) + Cardinality(Settled(l, k)) + Cardinality(Settled(r, k))
  BY <1>2, <1>5, <1>6, CardinalityOfThree
<1>8. /\ Cardinality(Settled(l, k)) = IF L.max_seq = k THEN L.num ELSE 0
      /\ Cardinality(Settled(r, k)) = IF R.max_seq = k THEN R.num ELSE 0
  BY Zenon, <1>1, <1>3
<1> QED BY ONLY Zenon, <1>5, <1>7, <1>8

\* The walk over a subtree is that over its root and its two subtrees.
LEMMA WalkStep ==
  ASSUME TreeOK, NEW S \in SUBSET DOMAIN match, NEW n \in S, NEW l, NEW r,
         n \notin l, n \notin r, l \cap r = {}, S = l \cup {n} \cup r,
         NEW L, NEW R, Walk(l, L), Walk(r, R), NEW p, NEW q, NEW a, Augmented(n, L, p, R, q, a)
  PROVE  Walk(S, a)
<1>1. /\ match[n].seq \in Nat /\ match[n].seq <= MAX_SEQ_NUMBER /\ match[n].has_replied_to_hb \in BOOLEAN
      /\ \A x \in S : match[x].seq \in Nat
  BY Zenon, MatchFields
<1>2. /\ L.min_seq \in Nat /\ L.min_seq <= MAX_SEQ_NUMBER /\ R.min_seq \in Nat /\ R.min_seq <= MAX_SEQ_NUMBER
      /\ L.max_seq \in Nat /\ L.max_seq < MAX_SEQ_NUMBER /\ R.max_seq \in Nat /\ R.max_seq < MAX_SEQ_NUMBER
  BY MaxSeqNat DEF Walk
<1>3. /\ a.min_seq \in {match[n].seq, L.min_seq, R.min_seq}
      /\ a.min_seq <= match[n].seq /\ a.min_seq <= L.min_seq /\ a.min_seq <= R.min_seq
  <2> DEFINE m == Min({match[n].seq, L.min_seq, R.min_seq})
  <2>1. m \in {match[n].seq, L.min_seq, R.min_seq} /\ m <= match[n].seq /\ m <= L.min_seq /\ m <= R.min_seq
    BY Zenon, <1>1, <1>2, MinOfThree
  <2>2. a.min_seq = m BY Zenon DEF Augmented
  <2> HIDE DEF m
  <2> QED BY Zenon, <2>1, <2>2
<1>4. Active(n) \in Nat /\ Active(n) < MAX_SEQ_NUMBER BY <1>1, MaxSeqNat DEF Active
<1>5. /\ a.max_seq \in {Active(n), L.max_seq, R.max_seq}
      /\ a.max_seq >= Active(n) /\ a.max_seq >= L.max_seq /\ a.max_seq >= R.max_seq
  <2> DEFINE m == Max({Active(n), L.max_seq, R.max_seq})
  <2>1. m \in {Active(n), L.max_seq, R.max_seq} /\ m >= Active(n) /\ m >= L.max_seq /\ m >= R.max_seq
    BY Zenon, <1>2, <1>4, MaxOfThree
  <2>2. a.max_seq = m BY Zenon DEF Augmented
  <2> HIDE DEF m
  <2> QED BY Zenon, <2>1, <2>2
<1>6. /\ a.min_seq \in 0..MAX_SEQ_NUMBER /\ a.min_seq \in Nat
      /\ a.max_seq \in 0..(MAX_SEQ_NUMBER - 1) /\ a.max_seq \in Nat /\ a.max_seq < MAX_SEQ_NUMBER
  BY <1>1, <1>2, <1>3, <1>4, <1>5, MaxSeqNat
<1>7. ASSUME NEW x \in S PROVE a.min_seq <= match[x].seq
  <2>1. CASE x = n BY Zenon, <1>3, <2>1
  <2>2. CASE x \in l
    <3>1. L.min_seq <= match[x].seq BY Zenon, <2>2 DEF Walk
    <3> QED BY <1>1, <1>2, <1>3, <1>6, <3>1
  <2>3. CASE x \in r
    <3>1. R.min_seq <= match[x].seq BY Zenon, <2>3 DEF Walk
    <3> QED BY <1>1, <1>2, <1>3, <1>6, <3>1
  <2> QED BY Zenon, <2>1, <2>2, <2>3
<1>8. a.min_seq = MAX_SEQ_NUMBER \/ \E x \in S : match[x].seq = a.min_seq
  <2>1. CASE a.min_seq = match[n].seq BY Zenon, <2>1
  <2>2. CASE a.min_seq = L.min_seq BY Zenon, <2>2 DEF Walk
  <2>3. CASE a.min_seq = R.min_seq BY Zenon, <2>3 DEF Walk
  <2> QED BY Zenon, <1>3, <2>1, <2>2, <2>3
<1>9. ASSUME NEW x \in S, match[x].seq < MAX_SEQ_NUMBER PROVE match[x].seq <= a.max_seq
  <2>1. CASE x = n BY Zenon, <1>5, <1>9, <2>1, <1>6, <1>1 DEF Active
  <2>2. CASE x \in l
    <3>1. match[x].seq <= L.max_seq BY Zenon, <1>9, <2>2 DEF Walk
    <3> QED BY <1>1, <1>2, <1>5, <1>6, <3>1
  <2>3. CASE x \in r
    <3>1. match[x].seq <= R.max_seq BY Zenon, <1>9, <2>3 DEF Walk
    <3> QED BY <1>1, <1>2, <1>5, <1>6, <3>1
  <2> QED BY Zenon, <2>1, <2>2, <2>3
<1>10. a.max_seq = 0 \/ \E x \in S : match[x].seq = a.max_seq
  <2>1. CASE a.max_seq = Active(n) BY Zenon, <2>1 DEF Active
  <2>2. CASE a.max_seq = L.max_seq BY Zenon, <2>2 DEF Walk
  <2>3. CASE a.max_seq = R.max_seq BY Zenon, <2>3 DEF Walk
  <2> QED BY Zenon, <1>5, <2>1, <2>2, <2>3
<1>11. a.replied = (\A x \in S : match[x].has_replied_to_hb)
  <2>1. a.replied = (match[n].has_replied_to_hb /\ L.replied /\ R.replied) BY Zenon DEF Augmented
  <2>2. /\ L.replied = (\A x \in l : match[x].has_replied_to_hb)
        /\ R.replied = (\A x \in r : match[x].has_replied_to_hb)
    BY Zenon DEF Walk
  <2>3. (\A x \in S : match[x].has_replied_to_hb) <=>
          /\ match[n].has_replied_to_hb
          /\ \A x \in l : match[x].has_replied_to_hb
          /\ \A x \in r : match[x].has_replied_to_hb
    BY Zenon
  <2> QED BY Zenon, <2>1, <2>2, <2>3
<1>12. a.num \in Nat /\ a.num = IF a.max_seq = 0 THEN 0 ELSE Cardinality(Settled(S, a.max_seq))
  <2>1. a.num = IF a.max_seq = 0 THEN 0
                ELSE (IF match[n].seq = a.max_seq /\ match[n].has_replied_to_hb THEN 1 ELSE 0)
                       + (IF L.max_seq = a.max_seq THEN L.num ELSE 0)
                       + (IF R.max_seq = a.max_seq THEN R.num ELSE 0)
    BY Zenon DEF Augmented
  <2>2. CASE a.max_seq = 0 BY <2>1, <2>2
  <2>3. CASE a.max_seq # 0
    <3>1. a.max_seq > 0 /\ L.max_seq <= a.max_seq /\ R.max_seq <= a.max_seq BY <1>2, <1>5, <1>6, <2>3
    <3>2. Cardinality(Settled(S, a.max_seq)) = a.num
      BY ONLY TreeOK, S \in SUBSET DOMAIN match, n \in S, n \notin l, n \notin r, l \cap r = {}, S = l \cup {n} \cup r,
              Walk(l, L), Walk(r, R), <1>6, <2>1, <2>3, <3>1, SettledParts
    <3>3. IsFiniteSet(Settled(S, a.max_seq)) BY Zenon, FS_Subset DEF TreeOK, Settled
    <3> QED BY Zenon, <2>3, <3>2, <3>3, FS_CardinalityType
  <2> QED BY Zenon, <2>2, <2>3
<1> QED BY Zenon, <1>6, <1>7, <1>8, <1>9, <1>10, <1>11, <1>12 DEF Walk

\* Whatever the shape of the tree, each summary is that of a walk.
LEMMA WalkAll ==
  ASSUME TreeOK, NEW S \in SUBSET DOMAIN match
  PROVE  Walk(S, Summary[S])
<1> DEFINE G == {T \in SUBSET DOMAIN match : Walk(T, Summary[T])}
<1>1. IsFiniteSet(DOMAIN match) BY Zenon DEF TreeOK
<1>2. ASSUME NEW T \in SUBSET DOMAIN match, \A U \in SUBSET T : U # T => U \in G
      PROVE  T \in G
  <2>1. CASE T = {}
    <3>1. Walk({}, Summary[{}]) BY Zenon, SummaryEmpty
    <3> QED BY Zenon, <2>1, <3>1
  <2>2. CASE T # {}
    <3>1. PICK n, l, r : n = Root(tree, T) /\ l = Left(T, n) /\ r = Right(T, n) BY Zenon
    <3>2. /\ n \in T /\ n \notin l /\ n \notin r /\ l \cap r = {} /\ T = l \cup {n} \cup r
          /\ l \in SUBSET T /\ r \in SUBSET T /\ l # T /\ r # T
      BY <2>2, <3>1, RootSplits
    <3>3. Walk(l, Summary[l]) /\ Walk(r, Summary[r]) BY Zenon, <1>2, <3>2
    <3>4. PICK p, q : p = Root(tree, l) /\ q = Root(tree, r) BY Zenon
    <3>5. Augmented(n, Summary[l], p, Summary[r], q, Summary[T]) BY Zenon, <2>2, <3>1, <3>4, SummaryNode
    <3>6. Walk(T, Summary[T]) BY Zenon, <3>2, <3>3, <3>5, WalkStep
    <3> QED BY Zenon, <3>6
  <2> QED BY Zenon, <2>1, <2>2
<1> HIDE DEF G
<1>3. \A T \in SUBSET DOMAIN match : (\A U \in SUBSET T : U # T => U \in G) => T \in G BY Zenon, <1>2
<1>4. \A T \in SUBSET DOMAIN match : T \in G BY ONLY Zenon, <1>1, <1>3, SubsetInduction
<1> QED BY Zenon, <1>4 DEF G

---------------------------------------------------------------------------
(* The candidate for a directed heartbeat. *)

\* What the writer knows of each matched reader.  One that is best effort is
\* not waited for.  Unless a reader is being deleted, it has acknowledged
\* something if it has answered a heartbeat, and is only demoted by a writer
\* that has written.
ReadersOK ==
  \A r \in DOMAIN match :
    /\ match[r].is_reliable = qos[r]
    /\ ~match[r].is_reliable => match[r].seq = MAX_SEQ_NUMBER
    /\ match[r].is_reliable /\ ~match[r].deleting /\ match[r].seq = 0 => ~match[r].has_replied_to_hb
    /\ match[r].is_reliable /\ ~match[r].deleting /\ match[r].seq = MAX_SEQ_NUMBER => seq > 0

\* No match was revived before the writer had written.
NoneRevived == \A r \in DOMAIN match : ~Revived(r)

\* A reliable reader that has answered has then acknowledged something.
LEMMA AnsweredAcked ==
  ASSUME ReadersOK, NoneRevived, NEW r \in DOMAIN match,
         match[r].is_reliable, match[r].has_replied_to_hb
  PROVE  match[r].seq # 0
<1>1. ~Revived(r) BY Zenon DEF NoneRevived
<1> QED BY Zenon, <1>1 DEF ReadersOK, Revived

\* Every reliable reader of S has acknowledged up to the maximum and answered.
AllSettled(S, k) ==
  \A x \in S : match[x].is_reliable => match[x].seq = k /\ match[x].has_replied_to_hb

\* A candidate is a reader of the subtree, and there is one unless all of the
\* subtree's reliable readers are level and have answered.
Candidate(S, s) ==
  /\ s.arbitrary \in S \cup {UNKNOWN}
  /\ s.arbitrary = UNKNOWN => AllSettled(S, s.max_seq)

\* A child whose own maximum is not 0 is there, and its root is a reader.
LEMMA ChildRoot ==
  ASSUME TreeOK, NEW S \in SUBSET DOMAIN match, NEW s, Walk(S, s), s.max_seq # 0
  PROVE  S # {} /\ Root(tree, S) \in S
<1>1. S # {} BY Zenon DEF Walk
<1> QED BY Zenon, <1>1, RootIn

\* The order in which a candidate is looked for.
CandidateFrom(n, L, p, R, q, a) ==
  \/ /\ a.arbitrary = n
     /\ \/ match[n].seq < a.max_seq
        \/ match[n].is_reliable /\ (match[n].seq = MAX_SEQ_NUMBER \/ ~match[n].has_replied_to_hb)
  \/ /\ ~(match[n].seq < a.max_seq)
     /\ match[n].is_reliable => match[n].seq # MAX_SEQ_NUMBER /\ match[n].has_replied_to_hb
     /\ \/ a.arbitrary = L.arbitrary /\ L.arbitrary # UNKNOWN
        \/ a.arbitrary = R.arbitrary /\ R.arbitrary # UNKNOWN
        \/ a.arbitrary = p /\ L.max_seq # 0 /\ L.max_seq < a.max_seq
        \/ a.arbitrary = q /\ R.max_seq # 0 /\ R.max_seq < a.max_seq
        \/ /\ a.arbitrary = UNKNOWN /\ L.arbitrary = UNKNOWN /\ R.arbitrary = UNKNOWN
           /\ ~(L.max_seq # 0 /\ L.max_seq < a.max_seq)
           /\ ~(R.max_seq # 0 /\ R.max_seq < a.max_seq)

\* The reader that the heartbeat goes to is found at the root or below it.
LEMMA CandidateCases ==
  ASSUME NEW n, NEW L, NEW p, NEW R, NEW q, NEW a, Augmented(n, L, p, R, q, a)
  PROVE  CandidateFrom(n, L, p, R, q, a)
<1>1. a.arbitrary = arbitrary_unacked_reader(n, a.max_seq, L, p, R, q) BY Zenon DEF Augmented
<1> QED BY Zenon, <1>1 DEF arbitrary_unacked_reader, CandidateFrom

\* The candidate of a node.
LEMMA CandidateStep ==
  ASSUME TreeOK, ReadersOK, NoneRevived, NEW S \in SUBSET DOMAIN match, NEW n \in S, NEW l, NEW r,
         S = l \cup {n} \cup r, NEW L, NEW R, NEW a, Walk(S, a), Walk(l, L), Walk(r, R),
         Candidate(l, L), Candidate(r, R), Augmented(n, L, Root(tree, l), R, Root(tree, r), a)
  PROVE  Candidate(S, a)
<1>1. l \in SUBSET DOMAIN match /\ r \in SUBSET DOMAIN match /\ l \subseteq S /\ r \subseteq S BY Zenon
<1>0. CandidateFrom(n, L, Root(tree, l), R, Root(tree, r), a) BY Zenon, CandidateCases
<1>2. a.arbitrary \in S \cup {UNKNOWN}
  <2>1. L.arbitrary \in S \cup {UNKNOWN} /\ R.arbitrary \in S \cup {UNKNOWN} BY Zenon, <1>1 DEF Candidate
  <2>2. L.max_seq # 0 => Root(tree, l) \in S BY Zenon, <1>1, ChildRoot
  <2>3. R.max_seq # 0 => Root(tree, r) \in S BY Zenon, <1>1, ChildRoot
  <2> QED BY ONLY Zenon, <1>0, <2>1, <2>2, <2>3, n \in S DEF CandidateFrom
<1>3. ASSUME a.arbitrary = UNKNOWN PROVE AllSettled(S, a.max_seq)
  <2>1. S \subseteq Nat \ {0} /\ n \in Nat /\ n # UNKNOWN BY Zenon DEF TreeOK, UNKNOWN
  <2>2. /\ L.max_seq # 0 => Root(tree, l) # UNKNOWN
        /\ R.max_seq # 0 => Root(tree, r) # UNKNOWN
    BY Zenon, <1>1, <2>1, ChildRoot DEF UNKNOWN
  <2>3. /\ ~(match[n].seq < a.max_seq)
        /\ match[n].is_reliable => match[n].seq # MAX_SEQ_NUMBER /\ match[n].has_replied_to_hb
        /\ L.arbitrary = UNKNOWN /\ R.arbitrary = UNKNOWN
        /\ ~(L.max_seq # 0 /\ L.max_seq < a.max_seq)
        /\ ~(R.max_seq # 0 /\ R.max_seq < a.max_seq)
    BY ONLY Zenon, <1>0, <1>3, <2>1, <2>2 DEF CandidateFrom
  <2>4. ASSUME NEW x \in S, match[x].is_reliable
        PROVE  match[x].seq = a.max_seq /\ match[x].has_replied_to_hb
    <3>1. match[x].seq \in Nat /\ match[x].seq <= MAX_SEQ_NUMBER /\ a.max_seq \in Nat
      BY Zenon, MatchFields, MaxSeqNat DEF Walk
    <3>2. match[x].seq < MAX_SEQ_NUMBER => match[x].seq <= a.max_seq BY Zenon DEF Walk
    <3>3. CASE x = n BY <2>3, <2>4, <3>1, <3>2, <3>3, MaxSeqNat
    <3>4. ASSUME NEW T \in SUBSET DOMAIN match, NEW s, Walk(T, s), Candidate(T, s), s.arbitrary = UNKNOWN,
                 ~(s.max_seq # 0 /\ s.max_seq < a.max_seq), x \in T
          PROVE  match[x].seq = a.max_seq /\ match[x].has_replied_to_hb
      <4>1. match[x].seq = s.max_seq /\ match[x].has_replied_to_hb
        BY Zenon, <2>4, <3>4 DEF Candidate, AllSettled
      <4>2. s.max_seq # 0 BY Zenon, <2>4, <4>1, AnsweredAcked
      <4>3. s.max_seq \in Nat /\ s.max_seq < MAX_SEQ_NUMBER BY <3>4, MaxSeqNat DEF Walk
      <4>4. ~(s.max_seq < a.max_seq) BY Zenon, <3>4, <4>2
      <4>5. match[x].seq = a.max_seq BY ONLY <3>1, <3>2, <4>1, <4>3, <4>4, MaxSeqNat
      <4> QED BY Zenon, <4>1, <4>5
    <3> QED BY Zenon, <1>1, <2>3, <3>3, <3>4
  <2> QED BY Zenon, <2>4 DEF AllSettled
<1> QED BY Zenon, <1>2, <1>3 DEF Candidate

\* There is a candidate in every subtree with a reader that lags or is silent.
LEMMA CandidateAll ==
  ASSUME TreeOK, ReadersOK, NoneRevived, NEW S \in SUBSET DOMAIN match
  PROVE  Candidate(S, Summary[S])
<1> DEFINE G == {T \in SUBSET DOMAIN match : Candidate(T, Summary[T])}
<1>1. IsFiniteSet(DOMAIN match) BY Zenon DEF TreeOK
<1>2. ASSUME NEW T \in SUBSET DOMAIN match, \A U \in SUBSET T : U # T => U \in G
      PROVE  T \in G
  <2>1. CASE T = {}
    <3>1. Candidate({}, Summary[{}]) BY Zenon, SummaryEmpty DEF Candidate, AllSettled
    <3> QED BY Zenon, <2>1, <3>1
  <2>2. CASE T # {}
    <3>1. PICK n, l, r : n = Root(tree, T) /\ l = Left(T, n) /\ r = Right(T, n) BY Zenon
    <3>2. /\ n \in T /\ T = l \cup {n} \cup r
          /\ l \in SUBSET T /\ r \in SUBSET T /\ l # T /\ r # T
      BY <2>2, <3>1, RootSplits
    <3>3. Candidate(l, Summary[l]) /\ Candidate(r, Summary[r]) BY Zenon, <1>2, <3>2
    <3>4. l \in SUBSET DOMAIN match /\ r \in SUBSET DOMAIN match BY Zenon, <3>2
    <3>5. Walk(l, Summary[l]) /\ Walk(r, Summary[r]) /\ Walk(T, Summary[T]) BY Zenon, <3>4, WalkAll
    <3>6. Augmented(n, Summary[l], Root(tree, l), Summary[r], Root(tree, r), Summary[T])
      BY Zenon, <2>2, <3>1, SummaryNode
    <3>7. Candidate(T, Summary[T]) BY Zenon, <3>2, <3>3, <3>5, <3>6, CandidateStep
    <3> QED BY Zenon, <3>7
  <2> QED BY Zenon, <2>1, <2>2
<1> HIDE DEF G
<1>3. \A T \in SUBSET DOMAIN match : (\A U \in SUBSET T : U # T => U \in G) => T \in G BY Zenon, <1>2
<1>4. \A T \in SUBSET DOMAIN match : T \in G BY ONLY Zenon, <1>1, <1>3, SubsetInduction
<1> QED BY Zenon, <1>4 DEF G

\* The maximum of a subtree is at most that of the whole tree.
LEMMA MaxOfSubtree ==
  ASSUME TreeOK, NEW S \in SUBSET DOMAIN match
  PROVE  /\ Summary[S].max_seq \in Nat /\ root.max_seq \in Nat /\ root.max_seq < MAX_SEQ_NUMBER
         /\ Summary[S].max_seq <= root.max_seq
<1>1. Walk(S, Summary[S]) /\ Walk(DOMAIN match, root) BY Zenon, WalkAll DEF root
<1>2. /\ Summary[S].max_seq \in Nat /\ Summary[S].max_seq < MAX_SEQ_NUMBER
      /\ root.max_seq \in Nat /\ root.max_seq < MAX_SEQ_NUMBER
  BY <1>1, MaxSeqNat DEF Walk
<1>3. CASE Summary[S].max_seq = 0 BY <1>2, <1>3
<1>4. CASE Summary[S].max_seq # 0
  <2>1. PICK x \in S : match[x].seq = Summary[S].max_seq BY Zenon, <1>1, <1>4 DEF Walk
  <2>2. match[x].seq <= root.max_seq BY Zenon, <1>1, <1>2, <2>1 DEF Walk
  <2> QED BY Zenon, <1>2, <2>1, <2>2
<1> QED BY Zenon, <1>3, <1>4

\* With all readers but x level and answering, no candidate but x is found.
LEMMA OnlyOneLags ==
  ASSUME TreeOK, NEW x \in DOMAIN match, NEW S \in SUBSET DOMAIN match,
         \A y \in DOMAIN match \ {x} : match[y].seq = root.max_seq /\ match[y].has_replied_to_hb
  PROVE  Summary[S].arbitrary \in {x, UNKNOWN}
<1> DEFINE G == {T \in SUBSET DOMAIN match : Summary[T].arbitrary \in {x, UNKNOWN}}
<1>1. IsFiniteSet(DOMAIN match) BY Zenon DEF TreeOK
<1>2. ASSUME NEW T \in SUBSET DOMAIN match, \A U \in SUBSET T : U # T => U \in G
      PROVE  T \in G
  <2>1. CASE T = {}
    <3>1. Summary[{}].arbitrary = UNKNOWN BY Zenon, SummaryEmpty
    <3> QED BY Zenon, <2>1, <3>1
  <2>2. CASE T # {}
    <3>1. PICK n, l, r : n = Root(tree, T) /\ l = Left(T, n) /\ r = Right(T, n) BY Zenon
    <3>2. n \in T /\ l \in SUBSET T /\ r \in SUBSET T /\ l # T /\ r # T BY <2>2, <3>1, RootSplits
    <3>3. Summary[l].arbitrary \in {x, UNKNOWN} /\ Summary[r].arbitrary \in {x, UNKNOWN} BY Zenon, <1>2, <3>2
    <3>4. l \in SUBSET DOMAIN match /\ r \in SUBSET DOMAIN match BY Zenon, <3>2
    <3>5. Augmented(n, Summary[l], Root(tree, l), Summary[r], Root(tree, r), Summary[T])
      BY Zenon, <2>2, <3>1, SummaryNode
    <3>6. CandidateFrom(n, Summary[l], Root(tree, l), Summary[r], Root(tree, r), Summary[T])
      BY Zenon, <3>5, CandidateCases
    <3>7. /\ Summary[T].max_seq \in Nat /\ root.max_seq \in Nat /\ root.max_seq < MAX_SEQ_NUMBER
          /\ Summary[T].max_seq <= root.max_seq
      BY Zenon, MaxOfSubtree
    <3>8. ASSUME \/ match[n].seq < Summary[T].max_seq
                 \/ match[n].is_reliable /\ (match[n].seq = MAX_SEQ_NUMBER \/ ~match[n].has_replied_to_hb)
          PROVE  n = x
      <4>1. SUFFICES ASSUME n # x PROVE FALSE BY Zenon
      <4>2. match[n].seq = root.max_seq /\ match[n].has_replied_to_hb BY Zenon, <3>2, <4>1
      <4> QED BY ONLY <3>7, <3>8, <4>2, MaxSeqNat
    <3>9. ASSUME NEW c \in SUBSET DOMAIN match, Summary[c].max_seq # 0, Summary[c].max_seq < Summary[T].max_seq
          PROVE  Root(tree, c) = x
      <4>1. Walk(c, Summary[c]) BY Zenon, WalkAll
      <4>2. Summary[c].max_seq \in Nat BY Zenon, MaxOfSubtree
      <4>3. ASSUME NEW y \in c, y # x PROVE FALSE
        <5>1. match[y].seq = root.max_seq BY Zenon, <4>3
        <5>2. match[y].seq < MAX_SEQ_NUMBER => match[y].seq <= Summary[c].max_seq BY Zenon, <4>1 DEF Walk
        <5> QED BY ONLY <3>7, <3>9, <4>2, <5>1, <5>2
      <4>4. c # {} BY Zenon, <3>9, <4>1, ChildRoot
      <4>5. c = {x} BY Zenon, <4>3, <4>4
      <4> QED BY Zenon, <4>5, RootOfOne
    <3>10. Summary[T].arbitrary \in {x, UNKNOWN}
      BY ONLY Zenon, <3>3, <3>4, <3>6, <3>8, <3>9 DEF CandidateFrom
    <3> QED BY Zenon, <3>10
  <2> QED BY Zenon, <2>1, <2>2
<1> HIDE DEF G
<1>3. \A T \in SUBSET DOMAIN match : (\A U \in SUBSET T : U # T => U \in G) => T \in G BY Zenon, <1>2
<1>4. \A T \in SUBSET DOMAIN match : T \in G BY ONLY Zenon, <1>1, <1>3, SubsetInduction
<1> QED BY Zenon, <1>4 DEF G

---------------------------------------------------------------------------
(* The invariant. *)

\* What the summaries rest on is part of the invariant.
LEMMA InvTree ==
  ASSUME TypeOK, IsFiniteSet(DOMAIN match)
  PROVE  TreeOK
<1>1. DOMAIN match \subseteq Nat \ {0} BY Zenon, AckTreeAssumption DEF TypeOK
<1>2. PICK S \in SUBSET Reader : tree \in [S -> 0..(Cardinality(S) - 1)] BY Zenon DEF TypeOK, AvlTrees
<1>3. tree \in [DOMAIN match -> Nat]
  <2>1. \A i : i \in 0..(Cardinality(S) - 1) => i \in Nat BY SMT
  <2>2. tree \in [S -> Nat] BY Zenon, <1>2, <2>1
  <2>3. S = DOMAIN match BY Zenon, <1>2 DEF TypeOK
  <2> QED BY Zenon, <2>2, <2>3
<1>4. match \in [DOMAIN match -> Match] BY Zenon DEF TypeOK, Match
<1> QED BY Zenon, <1>1, <1>3, <1>4 DEF TreeOK

\* The numbers the writer derives from the summary at the root.  A writer
\* that has written has an oldest sequence number.
LEMMA RootNumbers ==
  ASSUME TypeOK, IsFiniteSet(DOMAIN match)
  PROVE  /\ root.min_seq \in Nat /\ root.min_seq <= MAX_SEQ_NUMBER
         /\ writer_max_drop_seq \in Nat /\ oldest_seq \in Nat /\ (seq > 0 => oldest_seq > 0)
<1>1. TreeOK BY Zenon, InvTree
<1>2. Walk(DOMAIN match, root) BY Zenon, <1>1, WalkAll DEF root
<1>3. root.min_seq \in Nat /\ root.min_seq <= MAX_SEQ_NUMBER BY <1>2, MaxSeqNat DEF Walk
<1>4. seq \in Nat /\ newest \in Nat BY MaxSeqNat DEF TypeOK
<1>5. writer_max_drop_seq \in Nat BY Zenon, <1>3, <1>4 DEF writer_max_drop_seq
<1>6. oldest_seq \in Nat /\ (seq > 0 => oldest_seq > 0) BY <1>4, <1>5 DEF oldest_seq, whc_empty
<1> QED BY Zenon, <1>3, <1>5, <1>6

\* The types of one match.
MatchOK(m, n) ==
  /\ m \in [seq : 0..MAX_SEQ_NUMBER, is_reliable : BOOLEAN, has_replied_to_hb : BOOLEAN, deleting : BOOLEAN]
  /\ m.seq \in (0..n) \cup {MAX_SEQ_NUMBER}

\* What the writer knows of one reader, reliable or not.
ReaderOK(m, reliable, n) ==
  /\ m.is_reliable = reliable
  /\ ~m.is_reliable => m.seq = MAX_SEQ_NUMBER
  /\ m.is_reliable /\ ~m.deleting /\ m.seq = 0 => ~m.has_replied_to_hb
  /\ m.is_reliable /\ ~m.deleting /\ m.seq = MAX_SEQ_NUMBER => n > 0

AInv ==
  /\ seq \in 0..(MAX_SEQ_NUMBER - 1) /\ newest \in 0..seq
  /\ qos \in Populations /\ DOMAIN match \subseteq DOMAIN qos
  /\ IsFiniteSet(DOMAIN match) /\ match = [r \in DOMAIN match |-> match[r]]
  /\ tree \in AvlTrees /\ DOMAIN tree = DOMAIN match
  /\ \A r \in DOMAIN match : MatchOK(match[r], seq) /\ ReaderOK(match[r], qos[r], seq)

\* The invariant has the parts that the facts above need.
LEMMA InvParts ==
  ASSUME AInv
  PROVE  TypeOK /\ ReadersOK /\ IsFiniteSet(DOMAIN match) /\ TreeOK
<1>1. TypeOK BY Zenon DEF AInv, TypeOK, MatchOK
<1>2. ReadersOK BY Zenon DEF AInv, ReadersOK, ReaderOK
<1>3. IsFiniteSet(DOMAIN match) BY Zenon DEF AInv
<1> QED BY Zenon, <1>1, <1>2, <1>3, InvTree

\* A writer that goes on writing knows no less of its readers.
LEMMA ReaderLater ==
  ASSUME NEW m, NEW q, NEW n \in Nat, NEW k \in Nat, n <= k, MatchOK(m, n), ReaderOK(m, q, n)
  PROVE  MatchOK(m, k) /\ ReaderOK(m, q, k)
<1>1. MatchOK(m, k) BY DEF MatchOK
<1>2. n > 0 => k > 0 BY SMT
<1> QED BY Zenon, <1>1, <1>2 DEF ReaderOK

\* The invariant holds of a writer without readers.
LEMMA InvInit ==
  ASSUME Init
  PROVE  AInv
<1>1. DOMAIN match = {} /\ DOMAIN tree = {} BY DEF Init
<1>2. match = [r \in DOMAIN match |-> match[r]] BY DEF Init
<1>3. tree \in AvlTrees
  <2>1. tree \in [{} -> 0..(Cardinality({}) - 1)] BY DEF Init
  <2>2. {} \in SUBSET Reader BY Zenon
  <2>3. tree \in {t \in [{} -> 0..(Cardinality({}) - 1)] : ({} # {} => t[Root(t, {})] = 0) /\ \A n \in {} : Balanced(t, n)}
    BY Zenon, <2>1
  <2> QED BY Zenon, <2>2, <2>3 DEF AvlTrees
<1>4. IsFiniteSet(DOMAIN match) BY Zenon, <1>1, FS_EmptySet
<1>5. seq \in 0..(MAX_SEQ_NUMBER - 1) /\ newest \in 0..seq /\ qos \in Populations BY MaxSeqNat DEF Init
<1> QED BY Zenon, <1>1, <1>2, <1>3, <1>4, <1>5 DEF AInv

\* The invariant is preserved by a step that changes what the writer knows of
\* readers it has, one by one.
LEMMA InvReaders ==
  ASSUME AInv, UNCHANGED <<newest, tree, qos>>, seq' \in 0..(MAX_SEQ_NUMBER - 1), seq <= seq',
         DOMAIN match' = DOMAIN match, match' = [r \in DOMAIN match |-> match'[r]],
         \A r \in DOMAIN match : match'[r] # match[r] =>
           MatchOK(match'[r], seq') /\ ReaderOK(match'[r], qos[r], seq')
  PROVE  AInv'
<1>1. seq \in Nat /\ seq' \in Nat /\ newest \in Nat /\ newest <= seq BY MaxSeqNat DEF AInv
<1>2. ASSUME NEW r \in DOMAIN match PROVE MatchOK(match'[r], seq') /\ ReaderOK(match'[r], qos[r], seq')
  <2>1. CASE match'[r] # match[r] BY Zenon, <2>1
  <2>2. CASE match'[r] = match[r]
    <3>1. MatchOK(match[r], seq) /\ ReaderOK(match[r], qos[r], seq) BY Zenon DEF AInv
    <3>2. MatchOK(match[r], seq') /\ ReaderOK(match[r], qos[r], seq') BY Zenon, <1>1, <3>1, ReaderLater
    <3> QED BY Zenon, <2>2, <3>2
  <2> QED BY Zenon, <2>1, <2>2
<1>3. newest' \in 0..seq' BY <1>1
<1> QED BY Zenon, <1>2, <1>3 DEF AInv

\* write_sample gives the sample the next number, and keeps it in the cache
\* if a reliable reader is matched.
LEMMA InvWrite ==
  ASSUME AInv, write_sample
  PROVE  AInv'
<1>1. seq \in Nat /\ newest \in Nat /\ newest <= seq BY MaxSeqNat DEF AInv
<1>2. seq' \in 0..(MAX_SEQ_NUMBER - 1) /\ seq' \in Nat /\ seq <= seq' /\ newest' \in 0..seq'
  BY <1>1, MaxSeqNat DEF write_sample
<1>3. match' = match /\ tree' = tree /\ qos' = qos BY Zenon DEF write_sample
<1>4. ASSUME NEW r \in DOMAIN match PROVE MatchOK(match[r], seq') /\ ReaderOK(match[r], qos[r], seq')
  <2>1. MatchOK(match[r], seq) /\ ReaderOK(match[r], qos[r], seq) BY Zenon DEF AInv
  <2> QED BY Zenon, <1>1, <1>2, <2>1, ReaderLater
<1> QED BY Zenon, <1>2, <1>3, <1>4 DEF AInv

\* writer_add_connection enters a reader that is level with the writer, or
\* one that is not waited for.
LEMMA InvAdd ==
  ASSUME AInv, NEW r \in DOMAIN qos, NEW deleting \in BOOLEAN, writer_add_connection(r, deleting)
  PROVE  AInv'
<1> DEFINE m == [seq |-> IF deleting \/ ~qos[r] THEN MAX_SEQ_NUMBER ELSE seq,
                 is_reliable |-> qos[r], has_replied_to_hb |-> ~qos[r], deleting |-> deleting]
<1>1. /\ match' = [x \in DOMAIN match \cup {r} |-> IF x = r THEN m ELSE match[x]]
      /\ tree' \in {t \in AvlTrees : DOMAIN t = DOMAIN match'}
      /\ seq' = seq /\ newest' = newest /\ qos' = qos /\ r \notin DOMAIN match
  BY Zenon DEF writer_add_connection
<1>2. seq \in 0..(MAX_SEQ_NUMBER - 1) /\ seq \in Nat BY MaxSeqNat DEF AInv
<1>3. qos[r] \in BOOLEAN BY Zenon, AckTreeAssumption DEF AInv, Range
<1>4. MatchOK(m, seq) /\ ReaderOK(m, qos[r], seq) BY <1>2, <1>3, MaxSeqNat DEF MatchOK, ReaderOK
<1> HIDE DEF m
<1>5. /\ DOMAIN match' = DOMAIN match \cup {r} /\ match' = [x \in DOMAIN match' |-> match'[x]]
      /\ \A x \in DOMAIN match' : match'[x] = IF x = r THEN m ELSE match[x]
  BY Zenon, <1>1
<1>6. IsFiniteSet(DOMAIN match') BY <1>5, FS_AddElement DEF AInv
<1>7. DOMAIN match' \subseteq DOMAIN qos' BY Zenon, <1>1, <1>5 DEF AInv
<1>8. tree' \in AvlTrees /\ DOMAIN tree' = DOMAIN match' BY Zenon, <1>1
<1>9. ASSUME NEW x \in DOMAIN match' PROVE MatchOK(match'[x], seq') /\ ReaderOK(match'[x], qos'[x], seq')
  <2>1. CASE x = r BY Zenon, <1>1, <1>4, <1>5, <2>1
  <2>2. CASE x # r
    <3>1. x \in DOMAIN match /\ match'[x] = match[x] BY Zenon, <1>5, <2>2
    <3> QED BY Zenon, <1>1, <3>1 DEF AInv
  <2> QED BY Zenon, <2>1, <2>2
<1> QED BY Zenon, <1>1, <1>5, <1>6, <1>7, <1>8, <1>9 DEF AInv

\* writer_drop_connection forgets the reader.
LEMMA InvDrop ==
  ASSUME AInv, NEW r \in DOMAIN match, writer_drop_connection(r)
  PROVE  AInv'
<1>1. /\ match' = [x \in DOMAIN match \ {r} |-> match[x]]
      /\ tree' \in {t \in AvlTrees : DOMAIN t = DOMAIN match'}
      /\ seq' = seq /\ newest' = newest /\ qos' = qos
  BY Zenon DEF writer_drop_connection, Restrict
<1>2. /\ DOMAIN match' = DOMAIN match \ {r} /\ match' = [x \in DOMAIN match' |-> match'[x]]
      /\ \A x \in DOMAIN match' : match'[x] = match[x]
  BY Zenon, <1>1
<1>3. IsFiniteSet(DOMAIN match') BY <1>2, FS_RemoveElement DEF AInv
<1>4. DOMAIN match' \subseteq DOMAIN qos' BY Zenon, <1>1, <1>2 DEF AInv
<1>5. tree' \in AvlTrees /\ DOMAIN tree' = DOMAIN match' BY Zenon, <1>1
<1>6. ASSUME NEW x \in DOMAIN match' PROVE MatchOK(match'[x], seq') /\ ReaderOK(match'[x], qos'[x], seq')
  BY Zenon, <1>1, <1>2 DEF AInv
<1> QED BY Zenon, <1>1, <1>2, <1>3, <1>4, <1>5, <1>6 DEF AInv

\* The ways in which a match is changed: deleted or demoted, acknowledged.
Changed(x, m, e, b, d) ==
  /\ x \in Match /\ x.seq = e /\ x.has_replied_to_hb = b /\ x.deleting = d
  /\ x.is_reliable = m.is_reliable

\* A reader that is deleted keeps a well-formed match.
LEMMA MatchDeleted ==
  ASSUME NEW m \in Match, NEW e \in 0..MAX_SEQ_NUMBER
  PROVE  Changed([m EXCEPT !.deleting = TRUE, !.seq = e], m, e, m.has_replied_to_hb, TRUE)
BY Zenon DEF Match, Changed

\* A reader that acknowledges keeps a well-formed match.
LEMMA MatchAcked ==
  ASSUME NEW m \in Match, NEW e \in 0..MAX_SEQ_NUMBER, NEW b \in BOOLEAN
  PROVE  Changed([m EXCEPT !.seq = e, !.has_replied_to_hb = b], m, e, b, m.deleting)
BY Zenon DEF Match, Changed

\* The readers that are not waited for have the largest number.
LEMMA MaxSeqBounds == MAX_SEQ_NUMBER \in 0..MAX_SEQ_NUMBER
BY MaxSeqNat

\* A reader that is being deleted is no longer waited for.
LEMMA InvDelete ==
  ASSUME AInv, NEW r \in DOMAIN match, proxy_reader_set_delete_and_ack_all_messages(r)
  PROVE  AInv'
<1>1. /\ match' = [match EXCEPT ![r].deleting = TRUE, ![r].seq = MAX_SEQ_NUMBER]
      /\ UNCHANGED <<newest, tree, qos>> /\ seq' = seq
  BY Zenon DEF proxy_reader_set_delete_and_ack_all_messages
<1>2. seq \in 0..(MAX_SEQ_NUMBER - 1) /\ seq \in Nat BY MaxSeqNat DEF AInv
<1>3. match[r] \in Match /\ ReaderOK(match[r], qos[r], seq) BY Zenon DEF AInv, MatchOK, Match
<1>4. match = [x \in DOMAIN match |-> match[x]] BY Zenon DEF AInv
<1>5. /\ DOMAIN match' = DOMAIN match /\ match' = [x \in DOMAIN match |-> match'[x]]
      /\ \A x \in DOMAIN match \ {r} : match'[x] = match[x]
      /\ match'[r] = [match[r] EXCEPT !.deleting = TRUE, !.seq = MAX_SEQ_NUMBER]
  BY ONLY Zenon, <1>1, <1>4, r \in DOMAIN match
<1>6. /\ match'[r] \in Match /\ match'[r].seq = MAX_SEQ_NUMBER /\ match'[r].deleting = TRUE
      /\ match'[r].is_reliable = match[r].is_reliable
  <2>1. Changed(match'[r], match[r], MAX_SEQ_NUMBER, match[r].has_replied_to_hb, TRUE)
    BY Zenon, <1>3, <1>5, MatchDeleted, MaxSeqBounds
  <2> QED BY Zenon, <2>1 DEF Changed
<1>7. match'[r].seq # 0 BY ONLY <1>6, MaxSeqNat
<1>8. MatchOK(match'[r], seq') /\ ReaderOK(match'[r], qos[r], seq')
  BY ONLY Zenon, <1>3, <1>6, <1>7 DEF Match, MatchOK, ReaderOK
<1>9. seq' \in 0..(MAX_SEQ_NUMBER - 1) /\ seq <= seq' BY ONLY <1>1, <1>2
<1>10. \A x \in DOMAIN match : match'[x] # match[x] => MatchOK(match'[x], seq') /\ ReaderOK(match'[x], qos[x], seq')
  BY Zenon, <1>5, <1>8
<1> QED BY ONLY Zenon, AInv, <1>1, <1>5, <1>9, <1>10, InvReaders

\* The readers that lag behind a writer that waited too long are demoted.
LEMMA InvThrottle ==
  ASSUME AInv, throttle_helper
  PROVE  AInv'
<1>1. /\ match' = [r \in DOMAIN match |->
                     IF match[r].seq < seq
                     THEN [match[r] EXCEPT !.seq = MAX_SEQ_NUMBER, !.has_replied_to_hb = FALSE]
                     ELSE match[r]]
      /\ UNCHANGED <<newest, tree, qos>> /\ seq' = seq
  BY Zenon DEF throttle_helper
<1>2. seq \in 0..(MAX_SEQ_NUMBER - 1) /\ seq \in Nat BY MaxSeqNat DEF AInv
<1>3. DOMAIN match' = DOMAIN match /\ match' = [x \in DOMAIN match |-> match'[x]] BY ONLY Zenon, <1>1
<1>4. ASSUME NEW r \in DOMAIN match, match'[r] # match[r]
      PROVE  MatchOK(match'[r], seq') /\ ReaderOK(match'[r], qos[r], seq')
  <2>1. match[r] \in Match /\ ReaderOK(match[r], qos[r], seq) BY Zenon DEF AInv, MatchOK, Match
  <2>2. match[r].seq < seq /\ match'[r] = [match[r] EXCEPT !.seq = MAX_SEQ_NUMBER, !.has_replied_to_hb = FALSE]
    BY Zenon, <1>1, <1>4
  <2>3. /\ match'[r] \in Match /\ match'[r].seq = MAX_SEQ_NUMBER /\ match'[r].has_replied_to_hb = FALSE
        /\ match'[r].is_reliable = match[r].is_reliable
    <3>1. Changed(match'[r], match[r], MAX_SEQ_NUMBER, FALSE, match[r].deleting)
      BY Zenon, <2>1, <2>2, MatchAcked, MaxSeqBounds
    <3> QED BY Zenon, <3>1 DEF Changed
  <2>4. seq' > 0
    <3>1. match[r].seq \in Nat BY <2>1, MaxSeqNat DEF Match
    <3>2. match[r].seq < seq /\ seq' = seq BY Zenon, <1>1, <2>2
    <3> QED BY ONLY <1>2, <3>1, <3>2
  <2> QED BY ONLY Zenon, <2>1, <2>3, <2>4 DEF Match, MatchOK, ReaderOK
<1>5. seq' \in 0..(MAX_SEQ_NUMBER - 1) /\ seq <= seq'
  <2>1. seq' = seq BY Zenon, <1>1
  <2> QED BY ONLY <1>2, <2>1
<1> QED BY ONLY Zenon, AInv, <1>1, <1>3, <1>4, <1>5, InvReaders

\* What handle_AckNack makes of the match: it is raised to what is
\* acknowledged, or brought back at the oldest sample, and never past seq.
LEMMA AckedMatch ==
  ASSUME AInv, NEW r \in DOMAIN match, NEW seqbase \in 1..(seq + 1),
         match[r].is_reliable,
         NEW back \in BOOLEAN, back <=> match[r].seq = MAX_SEQ_NUMBER, NEW nonhist \in BOOLEAN,
         NEW s, s = Max({seqbase - 1, IF back THEN oldest_seq ELSE match[r].seq}),
         NEW z, z = Min({s, seq}),
         NEW g \in BOOLEAN, g <=> match[r].has_replied_to_hb \/ back \/ (seqbase > 1 /\ nonhist),
         NEW m, m = [match[r] EXCEPT !.seq = z, !.has_replied_to_hb = g]
  PROVE  MatchOK(m, seq) /\ ReaderOK(m, qos[r], seq)
<1> DEFINE k == match[r].seq
<1>1. seq \in Nat /\ seq < MAX_SEQ_NUMBER /\ seqbase \in Nat /\ seqbase - 1 \in Nat /\ seqbase - 1 <= seq
  BY MaxSeqNat DEF AInv
<1>2. oldest_seq \in Nat /\ (seq > 0 => oldest_seq > 0) BY Zenon, InvParts, RootNumbers
<1>3. match[r] \in Match /\ ReaderOK(match[r], qos[r], seq) /\ k \in (0..seq) \cup {MAX_SEQ_NUMBER}
  BY Zenon DEF AInv, MatchOK, Match
<1>4. k \in Nat /\ (~back => k <= seq) BY <1>1, <1>3, MaxSeqNat
<1>5. /\ k = 0 /\ ~match[r].deleting => ~match[r].has_replied_to_hb
      /\ back /\ ~match[r].deleting => seq > 0
  BY Zenon, <1>3 DEF ReaderOK
<1>6. s \in Nat /\ s >= seqbase - 1 /\ (back => s >= oldest_seq) /\ (~back => s >= k)
  <2>1. CASE back
    <3>1. s = Max({seqbase - 1, oldest_seq}) BY Zenon, <2>1
    <3> QED BY Zenon, <1>1, <1>2, <2>1, <3>1, OfTwo
  <2>2. CASE ~back
    <3>1. s = Max({seqbase - 1, k}) BY Zenon, <2>2
    <3> QED BY Zenon, <1>1, <1>4, <2>2, <3>1, OfTwo
  <2> QED BY Zenon, <2>1, <2>2
<1>7. z \in {s, seq} /\ z <= s /\ z <= seq BY Zenon, <1>1, <1>6, OfTwo
<1>8. z \in 0..seq /\ z \in 0..MAX_SEQ_NUMBER /\ z # MAX_SEQ_NUMBER BY ONLY <1>1, <1>6, <1>7, MaxSeqNat
<1>9. ASSUME z = 0, ~match[r].deleting PROVE ~g
  <2>1. ~back
    <3>1. SUFFICES ASSUME back PROVE FALSE BY Zenon
    <3>2. seq > 0 /\ oldest_seq > 0 /\ s >= oldest_seq BY Zenon, <1>2, <1>5, <1>6, <1>9, <3>1
    <3> QED BY ONLY <1>1, <1>2, <1>6, <1>7, <1>9, <3>2
  <2>2. ~match[r].has_replied_to_hb
    <3>1. SUFFICES ASSUME k # 0 PROVE FALSE BY Zenon, <1>5, <1>9
    <3>2. s >= k /\ k <= seq BY Zenon, <1>4, <1>6, <2>1
    <3> QED BY ONLY <1>1, <1>4, <1>6, <1>7, <1>9, <3>1, <3>2
  <2>3. ~(seqbase > 1) BY ONLY <1>1, <1>6, <1>7, <1>9
  <2> QED BY Zenon, <2>1, <2>2, <2>3
<1>10. /\ m \in Match /\ m.seq = z /\ m.has_replied_to_hb = g
       /\ m.is_reliable = match[r].is_reliable /\ m.deleting = match[r].deleting
  <2>1. Changed(m, match[r], z, g, match[r].deleting) BY Zenon, <1>3, <1>8, MatchAcked
  <2> QED BY Zenon, <2>1 DEF Changed
<1> QED BY ONLY Zenon, <1>3, <1>8, <1>9, <1>10, match[r].is_reliable DEF Match, MatchOK, ReaderOK

\* handle_AckNack, with the heartbeat that consumes the first number.
LEMMA InvAckNack ==
  ASSUME AInv, NEW r \in DOMAIN match, NEW seqbase \in 1..(seq + 1), NEW is_pure_ack \in BOOLEAN,
         NEW hb \in {FALSE, seq = 0}, handle_AckNack(r, seqbase, is_pure_ack, hb)
  PROVE  AInv'
<1>1. PICK back \in BOOLEAN : back = (match[r].seq = MAX_SEQ_NUMBER) BY Zenon
<1>2. PICK nonhist \in BOOLEAN : nonhist = (is_pure_ack /\ seqbase - 1 >= match[r].seq) BY Zenon
<1>3. PICK s : s = Max({seqbase - 1, IF back THEN oldest_seq ELSE match[r].seq}) BY Zenon
<1>4. PICK z : z = Min({s, seq}) BY Zenon
<1>5. PICK g \in BOOLEAN : g = (match[r].has_replied_to_hb \/ back \/ (seqbase > 1 /\ nonhist)) BY Zenon
<1>6. PICK m : m = [match[r] EXCEPT !.seq = z, !.has_replied_to_hb = g] BY Zenon
<1>7. /\ match[r].is_reliable /\ UNCHANGED <<newest, tree, qos>>
      /\ seq' = IF hb /\ seq = 0 THEN 1 ELSE seq
  BY Zenon DEF handle_AckNack
<1>8. match' = [match EXCEPT ![r].seq = z, ![r].has_replied_to_hb = g]
  BY Zenon, <1>1, <1>2, <1>3, <1>4, <1>5 DEF handle_AckNack
<1>9. match = [x \in DOMAIN match |-> match[x]] BY Zenon DEF AInv
<1>10. /\ DOMAIN match' = DOMAIN match /\ match' = [x \in DOMAIN match |-> match'[x]]
       /\ \A x \in DOMAIN match \ {r} : match'[x] = match[x]
       /\ match'[r] = m
  BY ONLY Zenon, <1>6, <1>8, <1>9, r \in DOMAIN match
<1>11. MatchOK(m, seq) /\ ReaderOK(m, qos[r], seq)
  <2>1. /\ back <=> match[r].seq = MAX_SEQ_NUMBER
        /\ g <=> match[r].has_replied_to_hb \/ back \/ (seqbase > 1 /\ nonhist)
    BY ONLY Zenon, <1>1, <1>5
  <2> QED BY Zenon, <2>1, <1>3, <1>4, <1>6, <1>7, AckedMatch
<1>12. seq \in 0..(MAX_SEQ_NUMBER - 1) /\ seq \in Nat BY MaxSeqNat DEF AInv
<1>13. seq' \in 0..(MAX_SEQ_NUMBER - 1) /\ seq <= seq' /\ seq' \in Nat BY ONLY <1>7, <1>12, MaxSeqNat
<1>14. MatchOK(m, seq') /\ ReaderOK(m, qos[r], seq') BY Zenon, <1>11, <1>12, <1>13, ReaderLater
<1>15. \A x \in DOMAIN match : match'[x] # match[x] => MatchOK(match'[x], seq') /\ ReaderOK(match'[x], qos[x], seq')
  BY Zenon, <1>10, <1>14
<1> QED BY ONLY Zenon, AInv, <1>7, <1>10, <1>13, <1>15, InvReaders

\* Every step keeps the invariant.
LEMMA InvNext ==
  ASSUME AInv, [Next]_vars
  PROVE  AInv'
<1>1. CASE write_sample BY Zenon, <1>1, InvWrite
<1>2. CASE \E r \in DOMAIN qos, deleting \in BOOLEAN : writer_add_connection(r, deleting)
  BY Zenon, <1>2, InvAdd
<1>3. CASE \E r \in DOMAIN match : writer_drop_connection(r) BY Zenon, <1>3, InvDrop
<1>4. CASE \E r \in DOMAIN match : proxy_reader_set_delete_and_ack_all_messages(r) BY Zenon, <1>4, InvDelete
<1>5. CASE throttle_helper BY Zenon, <1>5, InvThrottle
<1>6. CASE AckNack BY Zenon, <1>6, InvAckNack DEF AckNack
<1>7. CASE UNCHANGED vars BY Zenon, <1>7 DEF vars, AInv, MatchOK, ReaderOK
<1> QED BY Zenon, <1>1, <1>2, <1>3, <1>4, <1>5, <1>6, <1>7 DEF Next

---------------------------------------------------------------------------
(* The theorems: for every set of populations, so any number of readers,   *)
(* reliable and best effort in any mixture, and every shape of the tree.   *)

\* The invariant holds throughout.
LEMMA Invariant == Spec => []AInv
<1>1. Init => AInv BY Zenon, InvInit
<1>2. AInv /\ [Next]_vars => AInv' BY Zenon, InvNext
<1> QED BY <1>1, <1>2, PTL DEF Spec

\* The variables of the reader administration have their types, and no reader
\* has acknowledged more than was written.
THEOREM TypeCorrect == Spec => []TypeOK
<1>1. AInv => TypeOK BY Zenon, InvParts
<1> QED BY <1>1, Invariant, PTL

\* augment_wr_prd_match leaves at the root what a walk over all the readers
\* would find, whatever the tree rebalanced to.
THEOREM SummaryIsExact == Spec => []SummaryExact
<1>1. ASSUME AInv PROVE SummaryExact
  <2>1. TreeOK /\ Walk(DOMAIN match, root) BY Zenon, <1>1, InvParts, WalkAll DEF root
  <2>2. \A r \in DOMAIN match : match[r].seq \in Nat /\ match[r].seq <= MAX_SEQ_NUMBER
    BY Zenon, <2>1, MatchFields
  <2>3. PICK A : A = {r \in DOMAIN match : match[r].seq < MAX_SEQ_NUMBER} BY Zenon
  <2>4. root.min_seq = Min({MAX_SEQ_NUMBER} \cup {match[r].seq : r \in DOMAIN match})
    <3>1. PICK M : M = {MAX_SEQ_NUMBER} \cup {match[r].seq : r \in DOMAIN match} BY Zenon
    <3>2. M \in SUBSET Nat BY Zenon, <2>2, <3>1, MaxSeqNat
    <3>3. root.min_seq \in M BY Zenon, <2>1, <3>1 DEF Walk
    <3>4. \A y \in M : root.min_seq <= y BY <2>1, <3>1, MaxSeqNat DEF Walk
    <3> QED BY Zenon, <3>1, <3>2, <3>3, <3>4, Extremes
  <2>5. root.max_seq = Max({0} \cup {match[r].seq : r \in A})
    <3>1. PICK M : M = {0} \cup {match[r].seq : r \in A} BY Zenon
    <3>2. M \in SUBSET Nat BY <2>2, <2>3, <3>1
    <3>3. root.max_seq \in M
      <4>1. root.max_seq < MAX_SEQ_NUMBER BY <2>1, MaxSeqNat DEF Walk
      <4> QED BY Zenon, <2>1, <2>3, <3>1, <4>1 DEF Walk
    <3>4. \A y \in M : root.max_seq >= y BY <2>1, <2>2, <2>3, <3>1, MaxSeqNat DEF Walk
    <3> QED BY Zenon, <3>1, <3>2, <3>3, <3>4, Extremes
  <2>6. root.replied = \A r \in DOMAIN match : match[r].has_replied_to_hb BY Zenon, <2>1 DEF Walk
  <2>7. root.max_seq > 0 => root.num = Cardinality({r \in A : match[r].seq = root.max_seq /\ match[r].has_replied_to_hb})
    <3>1. root.max_seq \in Nat /\ root.max_seq < MAX_SEQ_NUMBER BY <2>1, MaxSeqNat DEF Walk
    <3>2. Settled(DOMAIN match, root.max_seq) = {r \in A : match[r].seq = root.max_seq /\ match[r].has_replied_to_hb}
      BY Zenon, <2>3, <3>1 DEF Settled
    <3>3. root.max_seq > 0 => root.max_seq # 0 BY ONLY <3>1
    <3> QED BY Zenon, <2>1, <3>2, <3>3 DEF Walk
  <2> QED BY Zenon, <2>3, <2>4, <2>5, <2>6, <2>7 DEF SummaryExact
<1> QED BY <1>1, Invariant, PTL

\* What the cache drops was written.
LEMMA DropBounds ==
  ASSUME AInv
  PROVE  seq \in Nat /\ newest \in Nat /\ writer_max_drop_seq \in Nat /\ writer_max_drop_seq <= seq
<1>1. TypeOK /\ TreeOK /\ Walk(DOMAIN match, root) BY Zenon, InvParts, WalkAll DEF root
<1>2. seq \in Nat /\ newest \in Nat /\ seq < MAX_SEQ_NUMBER BY <1>1, MaxSeqNat DEF TypeOK
<1>3. CASE root.min_seq = MAX_SEQ_NUMBER BY <1>2, <1>3 DEF writer_max_drop_seq
<1>4. CASE root.min_seq # MAX_SEQ_NUMBER
  <2>1. PICK r \in DOMAIN match : match[r].seq = root.min_seq BY Zenon, <1>1, <1>4 DEF Walk
  <2>2. match[r].seq \in (0..seq) \cup {MAX_SEQ_NUMBER} BY Zenon, <1>1 DEF TypeOK
  <2>3. writer_max_drop_seq = root.min_seq BY Zenon, <1>4 DEF writer_max_drop_seq
  <2> QED BY ONLY <1>2, <1>4, <2>1, <2>2, <2>3
<1> QED BY Zenon, <1>3, <1>4

\* handle_AckNack makes a demoted reader count again at the newest sample of
\* the cache or, when the cache is empty, level with the writer.
LEMMA BackAboveDropped ==
  ASSUME AInv, NEW r \in DOMAIN match, NEW seqbase \in 1..(seq + 1), match[r].seq = MAX_SEQ_NUMBER,
         NEW is_pure_ack, NEW hb, handle_AckNack(r, seqbase, is_pure_ack, hb)
  PROVE  match'[r].seq >= writer_max_drop_seq
<1>1. PICK b : match' = [match EXCEPT ![r].seq = Min({Max({seqbase - 1, oldest_seq}), seq}),
                                      ![r].has_replied_to_hb = b]
  BY Zenon DEF handle_AckNack
<1>2. match = [x \in DOMAIN match |-> match[x]] /\ match[r] \in Match BY Zenon DEF AInv, MatchOK, Match
<1>3. match'[r].seq = Min({Max({seqbase - 1, oldest_seq}), seq}) BY <1>1, <1>2 DEF Match
<1>4. seq \in Nat /\ newest \in Nat /\ writer_max_drop_seq \in Nat /\ writer_max_drop_seq <= seq
  BY Zenon, DropBounds
<1>5. oldest_seq \in Nat /\ oldest_seq >= writer_max_drop_seq BY <1>4 DEF oldest_seq, whc_empty
<1>6. PICK s : s = Max({seqbase - 1, oldest_seq}) BY Zenon
<1>7. seqbase - 1 \in Nat BY <1>4
<1>8. s \in Nat /\ s >= oldest_seq BY Zenon, <1>5, <1>6, <1>7, OfTwo
<1>9. match'[r].seq \in {s, seq} BY Zenon, <1>3, <1>4, <1>6, <1>8, OfTwo
<1> QED BY ONLY <1>4, <1>5, <1>8, <1>9

\* Whoever joins or counts again does so at or above what is dropped from the
\* cache: no reader of a volatile writer waits for a sample that is gone.
THEOREM ReturnsAboveDropped == Spec => NobodyReturnsBelow
<1> DEFINE Above(r) == match'[r].seq < MAX_SEQ_NUMBER /\ (r \notin DOMAIN match \/ match[r].seq = MAX_SEQ_NUMBER)
                         => match'[r].seq >= writer_max_drop_seq
<1>1. ASSUME AInv, [Next]_vars PROVE \A r \in DOMAIN match' : Above(r)
  <2>1. /\ seq \in Nat /\ writer_max_drop_seq \in Nat /\ writer_max_drop_seq <= seq
        /\ match = [x \in DOMAIN match |-> match[x]]
    BY Zenon, <1>1, DropBounds DEF AInv
  <2>2. ASSUME match' = match PROVE \A r \in DOMAIN match' : Above(r)
    BY ONLY <2>2, MaxSeqNat
  <2>3. CASE \E x \in DOMAIN qos, deleting \in BOOLEAN : writer_add_connection(x, deleting)
    <3>1. PICK x, deleting : writer_add_connection(x, deleting) BY Zenon, <2>3
    <3> DEFINE e == IF deleting \/ ~qos[x] THEN MAX_SEQ_NUMBER ELSE seq
               m == [seq |-> e, is_reliable |-> qos[x], has_replied_to_hb |-> ~qos[x], deleting |-> deleting]
    <3>2. /\ match' = [y \in DOMAIN match \cup {x} |-> IF y = x THEN m ELSE match[y]]
          /\ m.seq \in {MAX_SEQ_NUMBER, seq} /\ x \notin DOMAIN match
      BY Zenon, <3>1 DEF writer_add_connection
    <3> HIDE DEF m
    <3>3. ASSUME NEW r \in DOMAIN match' PROVE Above(r)
      <4>1. CASE r = x
        <5>1. match'[r].seq \in {MAX_SEQ_NUMBER, seq} BY Zenon, <3>2, <4>1
        <5> QED BY ONLY <2>1, <5>1, MaxSeqNat
      <4>2. CASE r # x
        <5>1. r \in DOMAIN match /\ match'[r] = match[r] BY Zenon, <3>2, <3>3, <4>2
        <5> QED BY ONLY <5>1, MaxSeqNat
      <4> QED BY Zenon, <4>1, <4>2
    <3> QED BY Zenon, <3>3
  <2>4. CASE \E x \in DOMAIN match : writer_drop_connection(x)
    <3>1. \A r \in DOMAIN match' : r \in DOMAIN match /\ match'[r] = match[r]
      BY Zenon, <2>4 DEF writer_drop_connection, Restrict
    <3> QED BY ONLY <3>1, MaxSeqNat
  <2>5. CASE \E x \in DOMAIN match : proxy_reader_set_delete_and_ack_all_messages(x)
    <3>1. PICK x \in DOMAIN match : match' = [match EXCEPT ![x].deleting = TRUE, ![x].seq = MAX_SEQ_NUMBER]
      BY Zenon, <2>5 DEF proxy_reader_set_delete_and_ack_all_messages
    <3>2. match[x] \in Match BY Zenon, <1>1 DEF AInv, MatchOK, Match
    <3>3. /\ \A r \in DOMAIN match' : r \in DOMAIN match /\ (r # x => match'[r] = match[r])
          /\ match'[x].seq = MAX_SEQ_NUMBER
      BY <2>1, <3>1, <3>2 DEF Match
    <3> QED BY ONLY <3>3, MaxSeqNat
  <2>6. CASE throttle_helper
    <3>1. ASSUME NEW r \in DOMAIN match' PROVE r \in DOMAIN match /\ (match'[r] = match[r] \/ match'[r].seq = MAX_SEQ_NUMBER)
      <4>1. r \in DOMAIN match /\ match[r] \in Match BY Zenon, <1>1, <2>6 DEF throttle_helper, AInv, MatchOK, Match
      <4>2. match'[r] \in {match[r], [match[r] EXCEPT !.seq = MAX_SEQ_NUMBER, !.has_replied_to_hb = FALSE]}
        BY Zenon, <2>6, <4>1 DEF throttle_helper
      <4>3. [match[r] EXCEPT !.seq = MAX_SEQ_NUMBER, !.has_replied_to_hb = FALSE].seq = MAX_SEQ_NUMBER
        BY <4>1 DEF Match
      <4> QED BY Zenon, <4>1, <4>2, <4>3
    <3> QED BY ONLY <3>1, MaxSeqNat
  <2>7. CASE AckNack
    <3>1. PICK x \in DOMAIN match, seqbase \in 1..(seq + 1), is_pure_ack \in BOOLEAN, hb \in {FALSE, seq = 0} :
            handle_AckNack(x, seqbase, is_pure_ack, hb)
      BY Zenon, <2>7 DEF AckNack
    <3>2. \A r \in DOMAIN match' : r \in DOMAIN match /\ (r # x => match'[r] = match[r])
      BY Zenon, <2>1, <3>1 DEF handle_AckNack
    <3>3. match[x].seq = MAX_SEQ_NUMBER => match'[x].seq >= writer_max_drop_seq
      BY Zenon, <1>1, <3>1, BackAboveDropped
    <3> QED BY ONLY <3>2, <3>3, MaxSeqNat
  <2>8. CASE write_sample \/ UNCHANGED vars BY Zenon, <2>2, <2>8 DEF write_sample, vars
  <2> QED BY Zenon, <1>1, <2>3, <2>4, <2>5, <2>6, <2>7, <2>8 DEF Next
<1>2. AInv /\ [Next]_vars =>
        [\A r \in DOMAIN match' :
           /\ match'[r].seq < MAX_SEQ_NUMBER
           /\ r \notin DOMAIN match \/ match[r].seq = MAX_SEQ_NUMBER
           => match'[r].seq >= writer_max_drop_seq]_vars
  BY Zenon, <1>1
<1> QED BY <1>2, Invariant, PTL DEF Spec, NobodyReturnsBelow

\* The reliable readers are finitely many, and those that have settled on the
\* maximum are among them.
LEMMA Counts ==
  ASSUME AInv
  PROVE  /\ num_reliable_readers \in Nat /\ root.num \in Nat /\ root.num <= num_reliable_readers
         /\ root.max_seq \in Nat /\ root.max_seq < MAX_SEQ_NUMBER
<1>1. TreeOK /\ ReadersOK /\ Walk(DOMAIN match, root) /\ IsFiniteSet(DOMAIN match)
  BY Zenon, InvParts, WalkAll DEF root
<1>2. PICK Q : Q = {r \in DOMAIN match : match[r].is_reliable} BY Zenon
<1>3. IsFiniteSet(Q) /\ Cardinality(Q) \in Nat /\ Cardinality(Q) = num_reliable_readers
  BY Zenon, <1>1, <1>2, FS_Subset, FS_CardinalityType DEF num_reliable_readers
<1>4. root.max_seq \in Nat /\ root.max_seq < MAX_SEQ_NUMBER /\ root.num \in Nat BY <1>1, MaxSeqNat DEF Walk
<1>5. CASE root.max_seq = 0
  <2>1. root.num = 0 BY Zenon, <1>1, <1>5 DEF Walk
  <2> QED BY <1>3, <1>4, <2>1
<1>6. CASE root.max_seq # 0
  <2>1. root.num = Cardinality(Settled(DOMAIN match, root.max_seq)) BY Zenon, <1>1, <1>6 DEF Walk
  <2>2. root.max_seq # MAX_SEQ_NUMBER BY ONLY <1>4, MaxSeqNat
  <2>3. Settled(DOMAIN match, root.max_seq) \in SUBSET Q BY Zenon, <1>1, <1>2, <2>2 DEF Settled, ReadersOK
  <2>4. Cardinality(Settled(DOMAIN match, root.max_seq)) <= Cardinality(Q) BY Zenon, <1>3, <2>3, FS_Subset
  <2> QED BY Zenon, <1>3, <1>4, <2>1, <2>4
<1> QED BY Zenon, <1>5, <1>6

\* The assertions of writer_hbcontrol_create_heartbeat hold but for one case:
\* there are no more settled readers than reliable ones, and when one is
\* missing a candidate for the heartbeat has been found, unless a reader that
\* is being deleted was revived at 0 by a late AckNack.
THEOREM HeartbeatAssertionsHold == Spec => []HeartbeatAsserts
<1>1. ASSUME AInv PROVE HeartbeatAsserts
  <2>1. TreeOK /\ ReadersOK /\ Walk(DOMAIN match, root) BY Zenon, <1>1, InvParts, WalkAll DEF root
  <2>2. /\ num_reliable_readers \in Nat /\ root.num \in Nat /\ root.num <= num_reliable_readers
        /\ root.max_seq \in Nat
    BY Zenon, <1>1, Counts
  <2>3. n_unacked >= 0 BY <2>2 DEF n_unacked
  <2>4. ASSUME num_reliable_readers > 0, NoneRevived, root.arbitrary = UNKNOWN PROVE ~(n_unacked > 0)
    <3>0. Candidate(DOMAIN match, root) BY Zenon, <2>1, <2>4, CandidateAll DEF root
    <3>1. AllSettled(DOMAIN match, root.max_seq) BY Zenon, <2>4, <3>0 DEF Candidate
    <3>2. PICK Q : Q = {r \in DOMAIN match : match[r].is_reliable} BY Zenon
    <3>3. Q # {}
      <4>1. num_reliable_readers = Cardinality(Q) BY Zenon, <3>2 DEF num_reliable_readers
      <4>2. num_reliable_readers # 0 BY <2>2, <2>4
      <4> QED BY Zenon, <4>1, <4>2, FS_EmptySet
    <3>4. root.max_seq # 0
      <4>1. PICK r \in DOMAIN match : match[r].is_reliable BY Zenon, <3>2, <3>3
      <4>2. match[r].seq = root.max_seq /\ match[r].has_replied_to_hb BY Zenon, <3>1, <4>1 DEF AllSettled
      <4> QED BY Zenon, <2>1, <2>4, <4>1, <4>2, AnsweredAcked
    <3>5. Q \in SUBSET Settled(DOMAIN match, root.max_seq) BY Zenon, <3>1, <3>2 DEF AllSettled, Settled
    <3>6. IsFiniteSet(Settled(DOMAIN match, root.max_seq)) BY Zenon, <2>1, FS_Subset DEF TreeOK, Settled
    <3>7. Cardinality(Q) <= Cardinality(Settled(DOMAIN match, root.max_seq)) BY Zenon, <3>5, <3>6, FS_Subset
    <3>8. root.num = Cardinality(Settled(DOMAIN match, root.max_seq)) BY Zenon, <2>1, <3>4 DEF Walk
    <3>9. num_reliable_readers <= root.num BY Zenon, <3>2, <3>7, <3>8 DEF num_reliable_readers
    <3> QED BY <2>2, <3>9 DEF n_unacked
  <2> QED BY Zenon, <2>3, <2>4 DEF HeartbeatAsserts, NoneRevived
<1> QED BY <1>1, Invariant, PTL

\* While no best-effort reader is matched, a heartbeat that goes to one reader
\* goes to the only one that lags or has not answered.  With best-effort
\* readers in the tree the candidate of step 3c can be one of them.
THEOREM DirectedHeartbeat == Spec => []HeartbeatReachesUnacked
<1>1. SUFFICES AInv => HeartbeatReachesUnacked BY <1>1, Invariant, PTL
<1>2. SUFFICES ASSUME AInv, \A r \in DOMAIN match : match[r].is_reliable
               PROVE  \A r \in DOMAIN match : Unacked(r) => writer_hbcontrol_create_heartbeat \in {UNKNOWN, r}
  BY Zenon DEF HeartbeatReachesUnacked
<1> QED
  <2>1. TreeOK /\ Walk(DOMAIN match, root) /\ IsFiniteSet(DOMAIN match)
    BY Zenon, <1>2, InvParts, WalkAll DEF root
  <2>2. num_reliable_readers = Cardinality(DOMAIN match)
    <3>1. {r \in DOMAIN match : match[r].is_reliable} = DOMAIN match BY Zenon, <1>2
    <3> QED BY Zenon, <3>1 DEF num_reliable_readers
  <2>3. /\ num_reliable_readers \in Nat /\ root.num \in Nat /\ root.max_seq \in Nat
    BY Zenon, <1>2, Counts
  <2>4. ASSUME NEW r \in DOMAIN match, Unacked(r), writer_hbcontrol_create_heartbeat # UNKNOWN
        PROVE  writer_hbcontrol_create_heartbeat = r
    <3>1. seq = root.max_seq /\ n_unacked = 1 /\ writer_hbcontrol_create_heartbeat = root.arbitrary
      BY Zenon, <2>4 DEF writer_hbcontrol_create_heartbeat
    <3>2. Cardinality(DOMAIN match) = root.num + 1 BY <2>2, <2>3, <3>1 DEF n_unacked
    <3>3. r \notin Settled(DOMAIN match, root.max_seq) BY Zenon, <2>4, <3>1 DEF Unacked, Settled
    <3>4. \A y \in DOMAIN match \ {r} : match[y].seq = root.max_seq /\ match[y].has_replied_to_hb
      <4>1. CASE root.max_seq = 0
        <5>1. root.num = 0 BY Zenon, <2>1, <4>1 DEF Walk
        <5>2. Cardinality(DOMAIN match) = 1 BY <3>2, <5>1
        <5>3. PICK y : DOMAIN match = {y} BY Zenon, <2>1, <5>2, FS_Singleton
        <5> QED BY Zenon, <5>3
      <4>2. CASE root.max_seq # 0
        <5> DEFINE T == Settled(DOMAIN match, root.max_seq)
        <5>1. root.num = Cardinality(T) BY Zenon, <2>1, <4>2 DEF Walk
        <5>2. T \in SUBSET DOMAIN match /\ IsFiniteSet(T) BY Zenon, <2>1, FS_Subset DEF Settled
        <5>3. Cardinality(T \cup {r}) = Cardinality(T) + 1 BY Zenon, <3>3, <5>2, FS_AddElement
        <5>4. T \cup {r} \in SUBSET DOMAIN match /\ Cardinality(DOMAIN match) = Cardinality(T \cup {r})
          BY Zenon, <3>2, <5>1, <5>2, <5>3
        <5>5. DOMAIN match = T \cup {r} BY Zenon, <2>1, <5>4, FS_Subset
        <5> QED BY Zenon, <5>5 DEF Settled
      <4> QED BY Zenon, <4>1, <4>2
    <3>5. root.arbitrary \in {r, UNKNOWN} BY Zenon, <2>1, <3>4, OnlyOneLags DEF root
    <3> QED BY Zenon, <2>4, <3>1, <3>5
  <2> QED BY Zenon, <2>4
=============================================================================
