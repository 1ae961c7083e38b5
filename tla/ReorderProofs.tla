---------------------------- MODULE ReorderProofs ----------------------------
(***************************************************************************)
(* What the reorder buffer returns, for any number of samples and any      *)
(* limit: the inductive invariant of Reorder, that intervals, count and    *)
(* nackmap are exact, that samples are given up only for earlier ones, and *)
(* that it implements InOrderDelivery when eviction and gaps do not meet.  *)
(***************************************************************************)
EXTENDS ReorderBufferProofs

---------------------------------------------------------------------------
(* A chain is returned for delivery. *)

\* The samples of c are in order and in [lo, hi).
InOrder(c, lo, hi) ==
  \A x \in 1..Len(c) : c[x] # 0 =>
    /\ lo <= c[x] /\ c[x] < hi
    /\ \A y \in 1..Len(c) : x < y /\ c[y] # 0 => c[x] < c[y]

\* The buffer r becomes q and c is returned; D are the samples that the writer
\* does not have.
Delivers(r, q, c, D) ==
  /\ c \in Seq(0..MaxSeq) /\ q.sampleivtree \subseteq r.sampleivtree
  /\ \A v \in Content(r.sampleivtree) \ Content(q.sampleivtree) : v \in Rng(c)
  /\ r.mode # "ALWAYS_DELIVER" => r.next_seq <= q.next_seq /\ InOrder(c, r.next_seq, q.next_seq)
  /\ r.mode = "NORMAL" /\ (\A i \in r.sampleivtree : Backed(i, D)) =>
       \A v \in r.next_seq..(q.next_seq - 1) : v \in D \/ v \in Rng(c)

SameMode(q, r) == q.mode = r.mode /\ q.max_samples = r.max_samples /\ q.late_ack_mode = r.late_ack_mode

\* The chain of an interval beyond lo is in order from lo on.
LEMMA ChainInOrder ==
  ASSUME NEW lo \in Nat, NEW mid \in Nat, lo <= mid, NEW hi \in Nat, NEW c, ChainOK(mid, hi, c)
  PROVE  InOrder(c, lo, hi)
<1> SUFFICES ASSUME NEW x \in 1..Len(c), c[x] # 0
             PROVE  /\ lo <= c[x] /\ c[x] < hi
                    /\ \A y \in 1..Len(c) : x < y /\ c[y] # 0 => c[x] < c[y]
  BY Zenon DEF InOrder
<1>1. c \in Seq(0..MaxSeq) /\ mid <= c[x] /\ c[x] + (Len(c) - x) < hi BY Zenon DEF ChainOK
<1>2. \A y \in 1..Len(c) : x < y /\ c[y] # 0 => c[x] < c[y] BY Zenon DEF ChainOK
<1>3. c[x] \in 0..MaxSeq BY Zenon, <1>1, SeqElt
<1>4. Len(c) \in Nat BY <1>1
<1>5. PICK v : v = c[x] BY Zenon
<1>6. v \in Nat /\ mid <= v /\ v + (Len(c) - x) < hi BY <1>1, <1>3, <1>5
<1>7. lo <= v /\ v < hi BY ONLY <1>4, <1>6, lo \in Nat, mid \in Nat, lo <= mid, hi \in Nat, x \in 1..Len(c)
<1> QED BY Zenon, <1>2, <1>5, <1>7

\* The buffer when next_seq moves and no interval goes.
LEMMA NextMoves ==
  ASSUME NEW r, BufferOK(r), NEW q, DOMAIN q = Fields, SameMode(q, r), q.sampleivtree = r.sampleivtree,
         q.max_sampleiv = r.max_sampleiv, q.n_samples = r.n_samples,
         q.next_seq \in 1..(MaxSeq + 1), \A j \in r.sampleivtree : q.next_seq < j.min
  PROVE  BufferOK(q)
BY Zenon DEF BufferOK, SameMode

\* nn_reorder_rsample, when the sample can be delivered: the first interval goes
\* with it if it follows.
LEMMA DeliverSampleOK ==
  \A s, D :
    BufferOK(reorder) /\ s \in 1..MaxSeq /\ Deliverable(reorder, s) /\ DeliverSample(s)
    => /\ BufferOK(reorder') /\ SameMode(reorder', reorder)
       /\ \E c : delivered' = delivered \o c /\ Delivers(reorder, reorder', c, D)
\* The buffer when the first interval goes with the sample.
<1>FirstGone.
     ASSUME NEW r, BufferOK(r), r.mode = "NORMAL", NEW f \in r.sampleivtree, \A j \in r.sampleivtree : f.min <= j.min,
            NEW q, DOMAIN q = Fields, SameMode(q, r), q.sampleivtree = r.sampleivtree \ {f}, q.next_seq = f.maxp1,
            q.max_sampleiv = IF f.min = r.max_sampleiv THEN 0 ELSE r.max_sampleiv,
            q.n_samples = r.n_samples - Len(f.sc)
     PROVE  BufferOK(q)
  <2> USE <1>FirstGone
  <2>1. PICK T : T = r.sampleivtree BY Zenon
  <2>2. PICK U : U = T \ {f} BY Zenon
  <2>3. q.sampleivtree = U BY Zenon, <2>1, <2>2
  <2>4. IvsOK(T) /\ IvsOK(U) /\ f \in T BY Zenon, <2>1, <2>2, SubIvs DEF BufferOK
  <2>5. IvOK(f) BY Zenon, <2>4 DEF IvsOK
  <2>6. \A j \in T : IvOK(j) /\ j.min \in Nat BY Zenon, <2>1, Buffer
  <2>7. \A j \in U : f.maxp1 < j.min
    <3> SUFFICES ASSUME NEW j \in U PROVE f.maxp1 < j.min BY Zenon
    <3>1. j \in T /\ j # f /\ f.min <= j.min BY Zenon, <2>1, <2>2
    <3>2. f.min # j.min BY Zenon, <2>4, <3>1, ApartFacts
    <3>3. f.min \in Nat /\ j.min \in Nat BY Zenon, <2>4, <2>6, <3>1
    <3>4. f.min < j.min BY ONLY <3>1, <3>2, <3>3
    <3> QED BY Zenon, <2>4, <3>1, <3>4, ApartFacts
  <2>8. f.maxp1 \in 1..(MaxSeq + 1)
    <3>1. f.min \in Nat /\ f.maxp1 \in Nat /\ f.min < f.maxp1 /\ f.maxp1 <= MaxSeq + 1
      BY Zenon, <2>5, IvFields
    <3> QED BY ONLY <3>1, MaxSeqNat
  <2>9. q.n_samples = Count(U) /\ q.n_samples <= q.max_samples
    <3>1. Count(T) = Count({f}) + Count(U) /\ Count(U) \in Nat /\ Count({f}) \in Nat
      <4>1. {f} \subseteq T BY Zenon, <2>4
      <4> QED BY Zenon, <2>2, <2>4, <4>1, CountSplit
    <3>2. Count({f}) = Len(f.sc) BY Zenon, <2>5, CountOne
    <3>3. q.n_samples = Count(T) - Count({f}) /\ Count(T) <= r.max_samples /\ r.max_samples \in Nat
      BY Zenon, <2>1, <3>2 DEF BufferOK
    <3>4. q.n_samples = Count(U) /\ q.n_samples <= r.max_samples BY ONLY <3>1, <3>3
    <3> QED BY Zenon, <3>4 DEF SameMode
  <2>10. q.max_sampleiv = Highest(U).min
    <3>1. PICK h : h = Highest(T) BY Zenon
    <3>2. h \in T /\ \A j \in T : j.min <= h.min
      <4>1. h = MaxIv(r) BY Zenon, <2>1, <3>1, LastOf
      <4> QED BY Zenon, <2>1, <2>4, <4>1, LastOf
    <3>3. r.max_sampleiv = h.min BY Zenon, <2>1, <3>1 DEF BufferOK
    <3>4. CASE f.min = h.min
      <4>1. \A j \in T : j = f
        <5> SUFFICES ASSUME NEW j \in T PROVE j = f BY Zenon
        <5>1. f.min <= j.min /\ j.min <= f.min BY Zenon, <2>1, <3>2, <3>4
        <5>2. f.min \in Nat /\ j.min \in Nat BY Zenon, <2>4, <2>6
        <5>3. f.min = j.min BY ONLY <5>1, <5>2
        <5> QED BY Zenon, <2>4, <5>3, ApartFacts
      <4>2. U = {} BY Zenon, <2>2, <4>1
      <4>3. Highest(U).min = 0 BY Zenon, <4>2, NoIvFields
      <4> QED BY Zenon, <3>3, <3>4, <4>3
    <3>5. CASE f.min # h.min
      <4>1. h \in U /\ \A j \in U : j.min <= h.min BY Zenon, <2>2, <3>2, <3>5
      <4>2. Highest(U) = h BY Zenon, <2>4, <4>1, HighestIs
      <4> QED BY Zenon, <3>3, <3>5, <4>2
    <3> QED BY Zenon, <3>4, <3>5
  <2>11. \A i \in q.sampleivtree : q.next_seq < i.min BY Zenon, <2>3, <2>7
  <2>12. r.mode \in Modes /\ r.max_samples \in Nat /\ \E b \in Buffers : b.max_samples = r.max_samples
    BY Zenon DEF BufferOK
  <2>13. q.mode = "NORMAL" /\ q.mode \in Modes /\ q.max_samples \in Nat /\ \E b \in Buffers : b.max_samples = q.max_samples
    BY Zenon, <2>12 DEF SameMode
  <2> QED BY Zenon, <2>3, <2>4, <2>8, <2>9, <2>10, <2>11, <2>13 DEF BufferOK
<1>Main. ASSUME BufferOK(reorder), NEW s \in 1..MaxSeq, Deliverable(reorder, s), DeliverSample(s), NEW D
         PROVE  /\ BufferOK(reorder') /\ SameMode(reorder', reorder)
                /\ \E c : delivered' = delivered \o c /\ Delivers(reorder, reorder', c, D)
  <2> USE <1>Main
  <2>1. PICK r : r = reorder BY Zenon
  <2>2. PICK q : q = reorder' BY Zenon
  <2>3. PICK f : f = Lowest(r.sampleivtree) BY Zenon
  <2>4. PICK new : new = Interval(s, s + 1, <<s>>) BY Zenon
  <2>5. BufferOK(r) /\ DOMAIN r = Fields BY Zenon, <2>1 DEF BufferOK
  <2>6. IvOK(new) /\ new.min = s /\ new.maxp1 = s + 1 /\ Len(new.sc) = 1 /\ Rng(new.sc) = {s}
    BY Zenon, <2>4, SingleOK
  <2>7. /\ r.next_seq \in Nat /\ r.n_samples \in Nat
        /\ \A i \in r.sampleivtree : IvOK(i) /\ i.min \in Nat /\ i.maxp1 \in Nat /\ i.min < i.maxp1
    BY Zenon, <2>5, Buffer
  <2>8. s \in Nat /\ s + 1 \in 1..(MaxSeq + 1) /\ s <= MaxSeq /\ s > 0 BY MaxSeqNat
  <2>9. r.mode = "NORMAL" => s = r.next_seq BY Zenon, <2>1 DEF Deliverable
  <2>10. r.mode # "ALWAYS_DELIVER" => r.next_seq <= s
    <3>1. r.mode # "ALWAYS_DELIVER" => s = r.next_seq \/ s > r.next_seq BY Zenon, <2>1 DEF Deliverable
    <3> QED BY ONLY <2>7, <2>8, <3>1
  <2>11. r.mode # "NORMAL" => r.sampleivtree = {} BY Zenon, <2>5 DEF BufferOK
  <2>12. r.sampleivtree # {} => /\ f # NoIv /\ f \in r.sampleivtree /\ \A j \in r.sampleivtree : f.min <= j.min
    BY Zenon, <2>3, <2>7, EndsFound, IvIsNoNoIv
  <2>13. r.sampleivtree = {} => f = NoIv BY Zenon, <2>3, NoIvFields
  <2>14. CASE f # NoIv /\ s + 1 >= f.min
    <3>1. PICK w : w = append_rsample_interval(new, f) BY Zenon
    <3>2. q = [r EXCEPT !.sampleivtree = @ \ {f}, !.max_sampleiv = IF f.min = @ THEN 0 ELSE @,
                        !.next_seq = w.maxp1, !.n_samples = @ - (Len(w.sc) - 1)]
      BY Zenon, <2>1, <2>2, <2>3, <2>4, <2>14, <3>1 DEF DeliverSample
    <3>3. delivered' = delivered \o w.sc BY Zenon, <2>1, <2>3, <2>4, <2>14, <3>1 DEF DeliverSample
    <3>4. /\ DOMAIN q = Fields /\ SameMode(q, r) /\ q.sampleivtree = r.sampleivtree \ {f} /\ q.next_seq = w.maxp1
          /\ q.max_sampleiv = IF f.min = r.max_sampleiv THEN 0 ELSE r.max_sampleiv
          /\ q.n_samples = r.n_samples - (Len(w.sc) - 1)
      BY Zenon, <2>5, <3>2 DEF Fields, SameMode
    <3>5. f \in r.sampleivtree /\ r.mode = "NORMAL" /\ s = r.next_seq
      BY Zenon, <2>9, <2>11, <2>12, <2>13, <2>14
    <3>6. IvOK(f) /\ f.min \in Nat /\ f.maxp1 \in Nat BY Zenon, <2>7, <3>5
    <3>7. f.min = s + 1
      <4>1. r.next_seq < f.min BY Zenon, <2>5, <3>5 DEF BufferOK
      <4> QED BY ONLY <2>8, <2>14, <3>5, <3>6, <4>1
    <3>8. new.maxp1 = f.min BY Zenon, <2>6, <3>7
    <3>9. new.maxp1 <= f.min BY ONLY <3>6, <3>8
    <3>10. Appended(w, new, f) BY Zenon, <2>6, <3>1, <3>6, <3>9, AppendOK
    <3>11. IvOK(w) /\ w.min = s /\ w.maxp1 = f.maxp1 /\ Len(w.sc) = 1 + Len(f.sc) /\ Rng(w.sc) = {s} \cup Rng(f.sc)
      BY Zenon, <2>6, <3>10 DEF Appended
    <3>12. q.n_samples = r.n_samples - Len(f.sc)
      <4>1. Len(f.sc) \in Nat BY Zenon, <3>6, IvFields
      <4>2. Len(w.sc) - 1 = Len(f.sc) BY ONLY <3>11, <4>1
      <4> QED BY Zenon, <3>4, <4>2
    <3>13. \A j \in r.sampleivtree : f.min <= j.min BY Zenon, <2>12, <3>5
    <3>14. q.next_seq = f.maxp1 BY Zenon, <3>4, <3>11
    <3>15. BufferOK(q) BY Zenon, <2>5, <3>4, <3>5, <3>12, <3>13, <3>14, <1>FirstGone
    <3>16. Delivers(r, q, w.sc, D)
      <4>1. w.sc \in Seq(0..MaxSeq) /\ w.min \in Nat /\ w.maxp1 \in Nat /\ w.min < w.maxp1
        BY Zenon, <3>11, IvFields
      <4>2. q.sampleivtree \subseteq r.sampleivtree BY Zenon, <3>4
      <4>3. ASSUME NEW v \in Content(r.sampleivtree) \ Content(q.sampleivtree) PROVE v \in Rng(w.sc)
        <5>1. PICK i \in r.sampleivtree : v # 0 /\ v \in Rng(i.sc) BY Zenon, ContentIs
        <5>2. i \notin q.sampleivtree BY Zenon, <4>3, <5>1, ContentIs
        <5>3. i = f BY Zenon, <3>4, <5>2
        <5> QED BY Zenon, <3>11, <5>1, <5>3
      <4>4. r.next_seq <= q.next_seq BY ONLY <2>7, <3>5, <3>11, <3>14, <4>1
      <4>5. InOrder(w.sc, r.next_seq, q.next_seq)
        <5>1. ChainOK(w.min, w.maxp1, w.sc) BY Zenon, <3>11 DEF IvOK
        <5>2. r.next_seq <= w.min BY ONLY <2>7, <3>5, <3>11
        <5>3. InOrder(w.sc, r.next_seq, w.maxp1) BY Zenon, <2>7, <4>1, <5>1, <5>2, ChainInOrder
        <5> QED BY Zenon, <3>11, <3>14, <5>3
      <4>6. ASSUME \A i \in r.sampleivtree : Backed(i, D), NEW v \in r.next_seq..(q.next_seq - 1)
            PROVE  v \in D \/ v \in Rng(w.sc)
        <5>1. Adds({}, new, D, TRUE) BY Zenon, <2>4, AddsSingle
        <5>2. Backed(new, D) /\ Backed(f, D) BY Zenon, <3>5, <4>6, <5>1 DEF Adds
        <5>3. Backed(w, D) BY Zenon, <2>6, <3>1, <3>6, <3>8, <5>2, AppendBacked
        <5>4. v \in w.min..(w.maxp1 - 1) BY Zenon, <3>5, <3>11, <3>14, <4>6
        <5> QED BY Zenon, <5>3, <5>4 DEF Backed
      <4> QED BY Zenon, <4>1, <4>2, <4>3, <4>4, <4>5, <4>6 DEF Delivers
    <3> QED BY Zenon, <2>1, <2>2, <3>3, <3>4, <3>15, <3>16
  <2>15. CASE ~(f # NoIv /\ s + 1 >= f.min)
    <3>1. q = [r EXCEPT !.sampleivtree = @, !.max_sampleiv = @, !.next_seq = new.maxp1, !.n_samples = @ - (Len(new.sc) - 1)]
      BY Zenon, <2>1, <2>2, <2>3, <2>4, <2>15 DEF DeliverSample
    <3>2. delivered' = delivered \o new.sc BY Zenon, <2>1, <2>3, <2>4, <2>15 DEF DeliverSample
    <3>3. /\ DOMAIN q = Fields /\ SameMode(q, r) /\ q.sampleivtree = r.sampleivtree /\ q.next_seq = new.maxp1
          /\ q.max_sampleiv = r.max_sampleiv /\ q.n_samples = r.n_samples - (Len(new.sc) - 1)
      BY Zenon, <2>5, <3>1 DEF Fields, SameMode
    <3>4. q.next_seq = s + 1 BY Zenon, <2>6, <3>3
    <3>5. q.n_samples = r.n_samples
      <4>1. Len(new.sc) = 1 /\ q.n_samples = r.n_samples - (Len(new.sc) - 1) BY Zenon, <2>6, <3>3
      <4> QED BY ONLY <2>7, <4>1
    <3>6. \A j \in r.sampleivtree : q.next_seq < j.min
      <4> SUFFICES ASSUME NEW j \in r.sampleivtree PROVE s + 1 < j.min BY Zenon, <3>4
      <4>1. f \in r.sampleivtree /\ f.min <= j.min /\ ~(s + 1 >= f.min) BY Zenon, <2>12, <2>15
      <4>2. f.min \in Nat /\ j.min \in Nat BY Zenon, <2>7, <4>1
      <4> QED BY ONLY <2>8, <4>1, <4>2
    <3>7. BufferOK(q) BY Zenon, <2>5, <2>8, <3>3, <3>4, <3>5, <3>6, NextMoves
    <3>8. Delivers(r, q, new.sc, D)
      <4>1. new.sc \in Seq(0..MaxSeq) BY Zenon, <2>6, IvFields
      <4>2. r.mode # "ALWAYS_DELIVER" => r.next_seq <= q.next_seq
        <5>1. r.next_seq <= s => r.next_seq <= s + 1 BY ONLY <2>7, <2>8
        <5> QED BY Zenon, <2>10, <3>4, <5>1
      <4>3. r.mode # "ALWAYS_DELIVER" => InOrder(new.sc, r.next_seq, q.next_seq)
        <5>1. ChainOK(s, s + 1, new.sc) BY Zenon, <2>6 DEF IvOK
        <5>2. s + 1 \in Nat BY ONLY <2>8
        <5>3. r.next_seq <= s => InOrder(new.sc, r.next_seq, s + 1)
          BY Zenon, <2>7, <2>8, <5>1, <5>2, ChainInOrder
        <5> QED BY Zenon, <2>10, <3>4, <5>3
      <4>4. ASSUME r.mode = "NORMAL", NEW v \in r.next_seq..(q.next_seq - 1) PROVE v \in Rng(new.sc)
        <5>1. s = r.next_seq BY Zenon, <2>9, <4>4
        <5>2. v = s BY ONLY <2>8, <3>4, <4>4, <5>1
        <5> QED BY Zenon, <2>6, <5>2
      <4> QED BY Zenon, <3>3, <4>1, <4>2, <4>3, <4>4 DEF Delivers
    <3> QED BY Zenon, <2>1, <2>2, <3>2, <3>3, <3>7, <3>8
  <2> QED BY Zenon, <2>14, <2>15
<1> QED BY Zenon, <1>Main

---------------------------------------------------------------------------
(* A gap. *)

\* What is known of a range.
GapRange(min, maxp1) ==
  min \in Nat /\ maxp1 \in Nat /\ min > 0 /\ min < maxp1 /\ min <= MaxSeq /\ maxp1 <= MaxSeq + 1

\* The intervals that do not touch a range are apart from it.
LEMMA NotTouching ==
  ASSUME NEW r, BufferOK(r), NEW min, NEW maxp1, GapRange(min, maxp1),
         NEW j \in r.sampleivtree, j \notin Touching(r, min, maxp1)
  PROVE  j.maxp1 < min \/ maxp1 < j.min
<1>1. ~(j.maxp1 >= min /\ j.min <= maxp1) BY Zenon DEF Touching
<1>2. j.min \in Nat /\ j.maxp1 \in Nat BY Zenon, Buffer
<1>3. min \in Nat /\ maxp1 \in Nat BY Zenon DEF GapRange
<1> QED BY ONLY <1>1, <1>2, <1>3

\* w is made of the intervals V and the range they touch.
Coalesced(r, V, min, maxp1, w) ==
  /\ IvOK(w) /\ Len(w.sc) = Count(V) /\ Rng(w.sc) = UNION {Rng(i.sc) : i \in V}
  /\ w.min <= min /\ maxp1 <= w.maxp1 /\ \A i \in V : w.min <= i.min /\ i.maxp1 <= w.maxp1
  /\ w.min = min \/ \E i \in V : w.min = i.min
  /\ w.maxp1 = maxp1 \/ \E i \in V : w.maxp1 = i.maxp1
  /\ \A j \in r.sampleivtree \ V : w.maxp1 < j.min \/ j.maxp1 < w.min

\* coalesce_intervals_touching_range: one interval with the chains of all that
\* touch the range.
LEMMA CoalescedOK ==
  \A r, min, maxp1 :
    BufferOK(r) /\ GapRange(min, maxp1) /\ Touching(r, min, maxp1) # {}
    => Coalesced(r, Touching(r, min, maxp1), min, maxp1, coalesce_intervals_touching_range(r, min, maxp1))
<1>MinMaxOf. ASSUME NEW n \in Nat, NEW S, S \subseteq 0..n, S # {}
             PROVE  /\ Min(S) \in S /\ \A y \in S : Min(S) <= y
                    /\ Max(S) \in S /\ \A y \in S : Max(S) >= y
  <2> USE <1>MinMaxOf
  <2>1. S \in SUBSET Nat /\ S \in SUBSET (0..n)
    <3>1. \A y \in 0..n : y \in Nat BY SMT
    <3> QED BY Zenon, <3>1
  <2>2. \E x \in S : \A y \in S : x <= y BY Zenon, <2>1, LeastNat
  <2>3. \E x \in S : \A y \in S : x >= y
    <3>1. PICK x \in S : \A y \in S : y <= x BY Zenon, <2>1, GreatestNat
    <3>2. \A y \in S : y \in Nat /\ y <= x BY Zenon, <2>1, <3>1
    <3>3. \A y \in S : x >= y BY ONLY Zenon, <3>2, x \in S
    <3> QED BY Zenon, <3>3
  <2>4. Min(S) \in S /\ \A y \in S : Min(S) <= y BY Zenon, <2>2 DEF Min
  <2>5. Max(S) \in S /\ \A y \in S : Max(S) >= y BY Zenon, <2>3 DEF Max
  <2> QED BY Zenon, <2>4, <2>5
<1>Main.
     ASSUME NEW r, BufferOK(r), NEW min, NEW maxp1, GapRange(min, maxp1), Touching(r, min, maxp1) # {}
     PROVE  Coalesced(r, Touching(r, min, maxp1), min, maxp1, coalesce_intervals_touching_range(r, min, maxp1))
  <2> USE <1>Main
  <2>1. PICK T : T = r.sampleivtree BY Zenon
  <2>2. PICK V : V = Touching(r, min, maxp1) BY Zenon
  <2>3. PICK w : w = coalesce_intervals_touching_range(r, min, maxp1) BY Zenon
  <2>4. PICK A : A = {min} \cup {i.min : i \in V} BY Zenon
  <2>5. PICK B : B = {maxp1} \cup {i.maxp1 : i \in V} BY Zenon
  <2>6. w = Interval(Min(A), Max(B), Chained(V))
    BY Zenon, <2>2, <2>3, <2>4, <2>5 DEF coalesce_intervals_touching_range
  <2>7. w.min = Min(A) /\ w.maxp1 = Max(B) /\ w.sc = Chained(V) BY Zenon, <2>6 DEF Interval
  <2>8. V \subseteq T /\ V # {} /\ \A i \in V : i.maxp1 >= min /\ i.min <= maxp1
    BY Zenon, <2>1, <2>2 DEF Touching
  <2>9. IvsOK(T) BY Zenon, <2>1 DEF BufferOK
  <2>10. IvsOK(V) /\ \A i \in V : IvOK(i) BY Zenon, <2>8, <2>9, SubIvs DEF IvsOK
  <2>11. \A i \in T : i.min \in Nat /\ i.maxp1 \in Nat /\ i.min > 0 /\ i.min < i.maxp1 /\ i.maxp1 <= MaxSeq + 1
    BY Zenon, <2>1, Buffer, IvFields
  <2>12. min \in Nat /\ maxp1 \in Nat /\ min > 0 /\ min < maxp1 /\ min <= MaxSeq /\ maxp1 <= MaxSeq + 1
    BY Zenon DEF GapRange
  <2>13. PICK n : n = MaxSeq + 1 BY Zenon
  <2>14. n \in Nat BY <2>13, MaxSeqNat
  <2>15. A \subseteq 0..n /\ B \subseteq 0..n /\ A # {} /\ B # {} /\ \A a \in A : a > 0
    <3>1. min \in 0..n /\ maxp1 \in 0..n BY ONLY <2>12, <2>13, MaxSeqNat
    <3>2. \A i \in V : i.min \in 0..n /\ i.maxp1 \in 0..n BY ONLY <2>8, <2>11, <2>13, MaxSeqNat
    <3>3. \A i \in V : i.min > 0 BY Zenon, <2>8, <2>11
    <3> QED BY Zenon, <2>4, <2>5, <2>12, <3>1, <3>2, <3>3
  <2>16. w.min \in A /\ \A y \in A : w.min <= y BY Zenon, <2>7, <2>14, <2>15, <1>MinMaxOf
  <2>17. w.maxp1 \in B /\ \A y \in B : w.maxp1 >= y BY Zenon, <2>7, <2>14, <2>15, <1>MinMaxOf
  <2>18. w.min \in Nat /\ w.min > 0 /\ w.maxp1 \in Nat /\ w.maxp1 <= MaxSeq + 1
    <3>1. w.min \in 0..n /\ w.maxp1 \in 0..n /\ w.min > 0 BY Zenon, <2>15, <2>16, <2>17
    <3> QED BY ONLY <2>13, <2>14, <3>1
  <2>19. w.min <= min /\ w.maxp1 >= maxp1 BY Zenon, <2>4, <2>5, <2>16, <2>17
  <2>20. \A i \in V : w.min <= i.min /\ w.maxp1 >= i.maxp1 BY Zenon, <2>4, <2>5, <2>16, <2>17
  <2>21. /\ w.min = min \/ \E i \in V : w.min = i.min
         /\ w.maxp1 = maxp1 \/ \E i \in V : w.maxp1 = i.maxp1
    BY Zenon, <2>4, <2>5, <2>16, <2>17
  <2>22. \A i \in V : w.min <= i.min /\ i.maxp1 <= w.maxp1
    <3>1. \A i \in V : i.maxp1 \in Nat BY Zenon, <2>8, <2>11
    <3>2. \A i \in V : i.maxp1 <= w.maxp1 BY ONLY Zenon, <2>18, <2>20, <3>1
    <3> QED BY Zenon, <2>20, <3>2
  <2>23. w.min <= w.maxp1 /\ maxp1 <= w.maxp1 BY ONLY <2>12, <2>18, <2>19
  <2>24. ChainOK(w.min, w.maxp1, w.sc) /\ Len(w.sc) = Count(V)
    <3>1. ChainOK(w.min, w.maxp1, Chained(V)) /\ Len(Chained(V)) = Count(V)
      BY Zenon, <2>8, <2>10, <2>18, <2>22, <2>23, ChainedIvs
    <3> QED BY Zenon, <2>7, <3>1
  <2>25. IvOK(w)
    <3>1. w.min \in Nat \ {0} BY ONLY <2>18
    <3> QED BY Zenon, <2>18, <2>24, <3>1 DEF IvOK
  <2>26. Rng(w.sc) = UNION {Rng(i.sc) : i \in V} BY Zenon, <2>7, <2>8, <2>10, ChainedIvs
  <2>27. ASSUME NEW j \in T \ V PROVE w.maxp1 < j.min \/ j.maxp1 < w.min
    <3>1. j \in T /\ (j.maxp1 < min \/ maxp1 < j.min) BY Zenon, <2>1, <2>2, NotTouching
    <3>2. j.min \in Nat /\ j.maxp1 \in Nat /\ j.min < j.maxp1 BY Zenon, <2>11, <3>1
    <3>3. CASE j.maxp1 < min
      <4>1. CASE w.min = min BY Zenon, <3>3, <4>1
      <4>2. CASE \E i \in V : w.min = i.min
        <5>1. PICK i \in V : w.min = i.min BY Zenon, <4>2
        <5>2. i \in T /\ i.maxp1 >= min /\ i # j BY Zenon, <2>8, <3>1
        <5>3. i.maxp1 < j.min \/ j.maxp1 < i.min BY Zenon, <2>9, <3>1, <5>2 DEF IvsOK, Apart
        <5>4. i.maxp1 \in Nat BY Zenon, <2>11, <5>2
        <5>5. j.maxp1 < i.min BY ONLY <2>12, <3>2, <3>3, <5>2, <5>3, <5>4
        <5> QED BY Zenon, <5>1, <5>5
      <4> QED BY Zenon, <2>21, <4>1, <4>2
    <3>4. CASE maxp1 < j.min
      <4>1. CASE w.maxp1 = maxp1 BY Zenon, <3>4, <4>1
      <4>2. CASE \E i \in V : w.maxp1 = i.maxp1
        <5>1. PICK i \in V : w.maxp1 = i.maxp1 BY Zenon, <4>2
        <5>2. i \in T /\ i.min <= maxp1 BY Zenon, <2>8
        <5>3. i.min \in Nat BY Zenon, <2>11, <5>2
        <5>4. i.min < j.min BY ONLY <2>12, <3>2, <3>4, <5>2, <5>3
        <5>5. i.maxp1 < j.min BY Zenon, <2>9, <3>1, <5>2, <5>4, ApartFacts
        <5> QED BY Zenon, <5>1, <5>5
      <4> QED BY Zenon, <2>21, <4>1, <4>2
    <3> QED BY Zenon, <3>1, <3>3, <3>4
  <2>28. Coalesced(r, V, min, maxp1, w)
    BY Zenon, <2>1, <2>19, <2>21, <2>22, <2>23, <2>24, <2>25, <2>26, <2>27 DEF Coalesced
  <2> QED BY Zenon, <2>2, <2>3, <2>28
<1> QED BY Zenon, <1>Main

\* A gap or a chain joins intervals; no element comes or goes.
Coalesces(r, q, D) ==
  \E R, w : /\ Fits(r, R, w) /\ Content(R) \subseteq Rng(w.sc) /\ q.sampleivtree = With(r.sampleivtree, R, w)
            /\ (\A i \in r.sampleivtree : Backed(i, D)) => Backed(w, D)

\* All that an operation may do to the buffer r and to what has been returned,
\* d; tight if it brings a sample.
Outcome(r, q, d, e, D, tight) ==
  \/ q = r /\ e = d
  \/ e = d /\ SameButTree(q, r) /\ Stores(r, q, D, tight)
  \/ e = d /\ SameButTree(q, r) /\ ~tight /\ Coalesces(r, q, D)
  \/ SameMode(q, r) /\ \E c : e = d \o c /\ Delivers(r, q, c, D)

\* Nothing was returned.
LEMMA NothingMore ==
  ASSUME NEW V, NEW d \in Seq(V)
  PROVE  d = d \o << >> /\ << >> \in Seq(V) /\ Len(<< >>) = 0
OBVIOUS

\* nn_reorder_gap, when no interval touches the gap.
LEMMA GapAloneOK ==
  \A min, maxp1, D :
    /\ BufferOK(reorder) /\ reorder.mode = "NORMAL" /\ GapRange(min, maxp1)
    /\ Touching(reorder, min, maxp1) = {} /\ ~(maxp1 <= reorder.next_seq)
    /\ delivered \in Seq(0..MaxSeq) /\ GapAlone(min, maxp1) /\ min..(maxp1 - 1) \subseteq D
    => /\ BufferOK(reorder') /\ Outcome(reorder, reorder', delivered, delivered', D, FALSE)
       /\ min <= reorder.next_seq => Outcome(reorder, reorder', delivered, delivered', D, TRUE)
\* The interval of a gap.
<1>GapOK.
     ASSUME NEW min \in 1..MaxSeq, NEW maxp1 \in 2..(MaxSeq + 1), min < maxp1, NEW i, i = Interval(min, maxp1, << 0 >>)
     PROVE  IvOK(i) /\ i.min = min /\ i.maxp1 = maxp1 /\ Len(i.sc) = 1 /\ Rng(i.sc) = {0}
  <2> USE <1>GapOK
  <2>1. i.min = min /\ i.maxp1 = maxp1 /\ i.sc = << 0 >> BY Zenon DEF Interval
  <2>2. PICK c : c = << 0 >> BY Zenon
  <2>3. c \in Seq(0..MaxSeq) /\ Len(c) = 1 /\ c[1] = 0 /\ DOMAIN c = {1} BY <2>2, MaxSeqNat
  <2>4. Rng(c) = {0} BY <2>3 DEF Rng
  <2>5. ChainOK(min, maxp1, c)
    <3>1. \A x \in 1..Len(c) : c[x] = 0 BY <2>3
    <3>2. Len(c) > 0 /\ min + Len(c) <= maxp1 BY <2>3, MaxSeqNat
    <3> QED BY Zenon, <2>3, <3>1, <3>2 DEF ChainOK
  <2>6. min \in Nat \ {0} /\ maxp1 \in Nat /\ maxp1 <= MaxSeq + 1 BY MaxSeqNat
  <2>7. IvOK(i)
    <3>1. ChainOK(i.min, i.maxp1, i.sc) BY Zenon, <2>1, <2>2, <2>5
    <3>2. i.min \in Nat \ {0} /\ i.maxp1 \in Nat /\ i.maxp1 <= MaxSeq + 1 BY Zenon, <2>1, <2>6
    <3> QED BY Zenon, <3>1, <3>2 DEF IvOK
  <2>8. Len(i.sc) = 1 /\ Rng(i.sc) = {0} BY Zenon, <2>1, <2>2, <2>3, <2>4
  <2> QED BY Zenon, <2>1, <2>7, <2>8
<1>SingleGap. ASSUME NEW min, NEW maxp1, GapRange(min, maxp1), NEW g, g = Interval(min, maxp1, << 0 >>),
                     NEW D, min..(maxp1 - 1) \subseteq D
              PROVE  IvOK(g) /\ g.min = min /\ g.maxp1 = maxp1 /\ Adds({}, g, D, FALSE)
  <2> USE <1>SingleGap
  <2>1. min \in 1..MaxSeq /\ maxp1 \in 2..(MaxSeq + 1) /\ min < maxp1
    <3>1. min \in Nat /\ maxp1 \in Nat /\ min > 0 /\ min < maxp1 /\ min <= MaxSeq /\ maxp1 <= MaxSeq + 1
      BY Zenon DEF GapRange
    <3> QED BY ONLY <3>1, MaxSeqNat
  <2>2. IvOK(g) /\ g.min = min /\ g.maxp1 = maxp1 /\ Len(g.sc) = 1 BY <2>1, <1>GapOK
  <2>3. Backed(g, D) BY Zenon, <2>2 DEF Backed
  <2>4. Len(g.sc) = Count({}) + 1
    <3>1. Len(g.sc) = 1 /\ Count({}) = 0 BY Zenon, <2>2, CountNone
    <3> QED BY ONLY <3>1
  <2>5. Content({}) \subseteq Rng(g.sc) BY Zenon, ContentIs
  <2> QED BY Zenon, <2>2, <2>3, <2>4, <2>5 DEF Adds
\* A gap is stored as an interval of its own: max_sampleiv is refreshed, but not
\* before the last sample may have gone.
<1>StoreGap. ASSUME NEW r, BufferOK(r), r.mode = "NORMAL", NEW min, NEW maxp1, GapRange(min, maxp1),
                    Touching(r, min, maxp1) = {}, ~(min <= r.next_seq),
                    ~(r.n_samples = r.max_samples /\ (MaxIv(r) = NoIv \/ min > MaxIv(r).maxp1)),
                    NEW p, p = [r EXCEPT !.sampleivtree = @ \cup {Interval(min, maxp1, << 0 >>)}],
                    NEW q, q = RefreshMax(CountOrEvict(p)), NEW D, min..(maxp1 - 1) \subseteq D
             PROVE  BufferOK(q) /\ SameButTree(q, r) /\ Stores(r, q, D, FALSE)
  <2> USE <1>StoreGap
  <2>1. PICK g : g = Interval(min, maxp1, << 0 >>) BY Zenon
  <2>2. IvOK(g) /\ g.min = min /\ g.maxp1 = maxp1 /\ Adds({}, g, D, FALSE) BY Zenon, <2>1, <1>SingleGap
  <2>3. PICK U : U = With(r.sampleivtree, {}, g) BY Zenon
  <2>4. DOMAIN r = Fields /\ r.max_sampleiv = Highest(r.sampleivtree).min /\ r.n_samples <= r.max_samples
    BY Zenon DEF BufferOK
  <2>5. p.sampleivtree = U /\ SameButTree(p, r) /\ p.n_samples = r.n_samples /\ p.max_sampleiv = r.max_sampleiv
    <3>1. /\ p.sampleivtree = r.sampleivtree \cup {g} /\ SameButTree(p, r) /\ p.n_samples = r.n_samples
          /\ p.max_sampleiv = r.max_sampleiv
      BY Zenon, <2>1, <2>4 DEF SameButTree, Fields
    <3> QED BY Zenon, <2>3, <3>1 DEF With
  <2>6. r.next_seq \in Nat /\ r.n_samples \in Nat /\ r.max_samples \in Nat
        /\ \A i \in r.sampleivtree : IvOK(i) /\ i.min \in Nat /\ i.maxp1 \in Nat /\ i.min < i.maxp1
    BY Zenon, Buffer
  <2>7. min \in Nat /\ maxp1 \in Nat /\ min < maxp1 BY Zenon DEF GapRange
  <2>8. \A j \in r.sampleivtree : j.maxp1 < min \/ maxp1 < j.min BY Zenon, NotTouching
  <2>9. Fits(r, {}, g)
    <3>1. r.next_seq < g.min
      <4>1. r.next_seq < min BY ONLY <2>6, <2>7, ~(min <= r.next_seq)
      <4> QED BY Zenon, <2>2, <4>1
    <3>2. \A j \in r.sampleivtree \ {} : g.maxp1 < j.min \/ j.maxp1 < g.min BY Zenon, <2>2, <2>8
    <3> QED BY Zenon, <2>2, <3>1, <3>2 DEF Fits
  <2>10. Len(g.sc) = Count({}) + 1 BY Zenon, <2>2 DEF Adds
  <2>11. PICK a : a = CountOrEvict(p) BY Zenon
  <2>12. q = [a EXCEPT !.max_sampleiv = Highest(a.sampleivtree).min] BY Zenon, <2>11 DEF RefreshMax
  <2>13. p.max_samples = r.max_samples /\ DOMAIN p = Fields BY Zenon, <2>5 DEF SameButTree
  <2>14. CASE r.n_samples < r.max_samples
    <3>1. a = [p EXCEPT !.n_samples = @ + 1] BY Zenon, <2>5, <2>11, <2>13, <2>14 DEF CountOrEvict
    <3>2. SameButTree(a, p) /\ a.sampleivtree = p.sampleivtree /\ a.n_samples = p.n_samples + 1
      BY Zenon, <2>13, <3>1 DEF SameButTree, Fields
    <3>3. DOMAIN a = Fields BY Zenon, <3>2 DEF SameButTree
    <3>4. SameButTree(q, a) /\ q.sampleivtree = a.sampleivtree /\ q.n_samples = a.n_samples
          /\ q.max_sampleiv = Highest(a.sampleivtree).min
      BY Zenon, <2>12, <3>3 DEF SameButTree, Fields
    <3>5. SameButTree(q, r) BY Zenon, <2>5, <3>2, <3>4 DEF SameButTree
    <3>6. /\ q.sampleivtree = With(r.sampleivtree, {}, g) /\ q.max_sampleiv = Highest(q.sampleivtree).min
          /\ q.n_samples = r.n_samples + 1
      BY Zenon, <2>3, <2>5, <3>2, <3>4
    <3>7. BufferOK(q) BY Zenon, <2>9, <2>10, <2>14, <3>5, <3>6, MoreOK
    <3>8. Stores(r, q, D, FALSE) BY Zenon, <2>2, <2>9, <2>14, <3>6 DEF Stores
    <3> QED BY Zenon, <3>5, <3>7, <3>8
  <2>15. CASE ~(r.n_samples < r.max_samples)
    <3>1. r.n_samples = r.max_samples BY ONLY <2>4, <2>6, <2>15
    <3>2. PICK h : h = MaxIv(r) BY Zenon
    <3>3. h # NoIv /\ ~(min > h.maxp1) BY Zenon, <3>1, <3>2
    <3>4. h = Highest(r.sampleivtree) /\ h \in r.sampleivtree /\ \A j \in r.sampleivtree : j.min <= h.min
      <4>1. r.sampleivtree # {} BY Zenon, <3>2, <3>3, LastOf
      <4> QED BY Zenon, <3>2, <4>1, LastOf
    <3>5. maxp1 < h.min
      <4>1. h.min \in Nat /\ h.maxp1 \in Nat /\ (h.maxp1 < min \/ maxp1 < h.min) BY Zenon, <2>6, <2>8, <3>4
      <4> QED BY ONLY Zenon, <2>7, <3>3, <4>1
    <3>6. Highest(U) = h
      <4>1. IvsOK(U) BY Zenon, <2>3, <2>9, FitsIn
      <4>2. h \in U BY Zenon, <2>3, <3>4 DEF With
      <4>3. min <= h.min
        <5>1. h.min \in Nat BY Zenon, <2>6, <3>4
        <5> QED BY ONLY <2>7, <3>5, <5>1
      <4>4. \A j \in U : j.min <= h.min BY Zenon, <2>2, <2>3, <3>4, <4>3 DEF With
      <4> QED BY Zenon, <4>1, <4>2, <4>4, HighestIs
    <3>7. p.max_sampleiv = Highest(p.sampleivtree).min /\ p.sampleivtree = With(r.sampleivtree, {}, g)
      BY Zenon, <2>3, <2>4, <2>5, <3>4, <3>6
    <3>8. a = delete_last_sample(p) BY Zenon, <2>5, <2>11, <2>13, <2>15 DEF CountOrEvict
    <3>9. BufferOK(a) /\ SameButTree(a, r) /\ LeftOf(With(r.sampleivtree, {}, g), a.sampleivtree)
      BY Zenon, <2>5, <2>9, <2>10, <2>15, <3>7, <3>8, EvictOK
    <3>10. DOMAIN a = Fields BY Zenon, <3>9 DEF SameButTree
    <3>11. SameButTree(q, a) /\ q.sampleivtree = a.sampleivtree /\ q.n_samples = a.n_samples
           /\ q.max_sampleiv = Highest(a.sampleivtree).min
      BY Zenon, <2>12, <3>10 DEF SameButTree, Fields
    <3>12. BufferOK(q) BY Zenon, <3>9, <3>11 DEF BufferOK, SameButTree
    <3>13. SameButTree(q, r) BY Zenon, <3>9, <3>11 DEF SameButTree
    <3>14. LeftOf(With(r.sampleivtree, {}, g), q.sampleivtree) BY Zenon, <3>9, <3>11
    <3>15. Stores(r, q, D, FALSE) BY Zenon, <2>2, <2>9, <2>15, <3>14 DEF Stores
    <3> QED BY Zenon, <3>12, <3>13, <3>15
  <2> QED BY Zenon, <2>14, <2>15
<1>Main.
     ASSUME BufferOK(reorder), reorder.mode = "NORMAL", NEW min, NEW maxp1, GapRange(min, maxp1),
            Touching(reorder, min, maxp1) = {}, ~(maxp1 <= reorder.next_seq), delivered \in Seq(0..MaxSeq),
            GapAlone(min, maxp1), NEW D, min..(maxp1 - 1) \subseteq D
     PROVE  /\ BufferOK(reorder') /\ Outcome(reorder, reorder', delivered, delivered', D, FALSE)
            /\ min <= reorder.next_seq => Outcome(reorder, reorder', delivered, delivered', D, TRUE)
  <2> USE <1>Main
  <2>1. PICK r : r = reorder BY Zenon
  <2>2. PICK q : q = reorder' BY Zenon
  <2>3. PICK p : p = [r EXCEPT !.sampleivtree = @ \cup {Interval(min, maxp1, << 0 >>)}] BY Zenon
  <2>4. /\ q = IF min <= r.next_seq THEN [r EXCEPT !.next_seq = maxp1]
               ELSE IF r.n_samples = r.max_samples /\ (MaxIv(r) = NoIv \/ min > MaxIv(r).maxp1) THEN r
               ELSE RefreshMax(CountOrEvict(p))
        /\ delivered' = delivered
    BY Zenon, <2>1, <2>2, <2>3 DEF GapAlone
  <2>5. BufferOK(r) /\ r.mode = "NORMAL" /\ DOMAIN r = Fields BY Zenon, <2>1 DEF BufferOK
  <2>6. CASE min <= r.next_seq
    <3>1. q = [r EXCEPT !.next_seq = maxp1] BY Zenon, <2>4, <2>6
    <3>2. /\ DOMAIN q = Fields /\ SameMode(q, r) /\ q.sampleivtree = r.sampleivtree
          /\ q.max_sampleiv = r.max_sampleiv /\ q.n_samples = r.n_samples /\ q.next_seq = maxp1
      BY Zenon, <2>5, <3>1 DEF Fields, SameMode
    <3>3. min \in Nat /\ maxp1 \in Nat /\ min > 0 /\ min < maxp1 /\ maxp1 <= MaxSeq + 1 BY Zenon DEF GapRange
    <3>4. r.next_seq \in Nat /\ \A i \in r.sampleivtree : i.min \in Nat /\ i.maxp1 \in Nat /\ i.min < i.maxp1
      BY Zenon, <2>5, Buffer
    <3>5. \A j \in r.sampleivtree : q.next_seq < j.min
      <4> SUFFICES ASSUME NEW j \in r.sampleivtree PROVE maxp1 < j.min BY Zenon, <3>2
      <4>1. j.maxp1 < min \/ maxp1 < j.min BY Zenon, <2>1, NotTouching
      <4>2. r.next_seq < j.min BY Zenon, <2>5 DEF BufferOK
      <4>3. j.min \in Nat /\ j.maxp1 \in Nat /\ j.min < j.maxp1 BY Zenon, <3>4
      <4> QED BY ONLY <2>6, <3>3, <3>4, <4>1, <4>2, <4>3
    <3>6. q.next_seq \in 1..(MaxSeq + 1) BY ONLY <3>2, <3>3, MaxSeqNat
    <3>7. BufferOK(q) BY Zenon, <2>5, <3>2, <3>5, <3>6, NextMoves
    <3>8. Delivers(r, q, << >>, D)
      <4>1. << >> \in Seq(0..MaxSeq) /\ Len(<< >>) = 0 BY Zenon, NothingMore
      <4>2. InOrder(<< >>, r.next_seq, q.next_seq)
        <5>1. \A x \in 1..0 : FALSE BY SMT
        <5> QED BY Zenon, <4>1, <5>1 DEF InOrder
      <4>3. r.next_seq <= q.next_seq
        <5>1. ~(maxp1 <= r.next_seq) BY Zenon, <2>1
        <5> QED BY ONLY <3>2, <3>3, <3>4, <5>1
      <4>4. ASSUME NEW v \in r.next_seq..(q.next_seq - 1) PROVE v \in D
        <5>1. v \in min..(maxp1 - 1) BY ONLY <2>6, <3>2, <3>3, <3>4, v \in r.next_seq..(q.next_seq - 1)
        <5> QED BY Zenon, <5>1
      <4> QED BY Zenon, <3>2, <4>1, <4>2, <4>3, <4>4 DEF Delivers
    <3>9. delivered' = delivered \o << >> BY Zenon, <2>4, NothingMore
    <3>10. SameMode(q, r) /\ \E c : delivered' = delivered \o c /\ Delivers(r, q, c, D)
      BY Zenon, <3>2, <3>8, <3>9
    <3> QED BY Zenon, <2>1, <2>2, <3>7, <3>10 DEF Outcome
  <2>7. CASE ~(min <= r.next_seq) /\ r.n_samples = r.max_samples /\ (MaxIv(r) = NoIv \/ min > MaxIv(r).maxp1)
    <3>1. q = r BY Zenon, <2>4, <2>7
    <3> QED BY Zenon, <2>1, <2>2, <2>4, <2>5, <2>7, <3>1 DEF Outcome
  <2>8. CASE ~(min <= r.next_seq) /\ ~(r.n_samples = r.max_samples /\ (MaxIv(r) = NoIv \/ min > MaxIv(r).maxp1))
    <3>1. q = RefreshMax(CountOrEvict(p)) BY Zenon, <2>4, <2>8
    <3>2. Touching(r, min, maxp1) = {} BY Zenon, <2>1
    <3>3. BufferOK(q) /\ SameButTree(q, r) /\ Stores(r, q, D, FALSE)
      BY Zenon, <2>3, <2>5, <2>8, <3>1, <3>2, <1>StoreGap
    <3> QED BY Zenon, <2>1, <2>2, <2>4, <2>8, <3>3 DEF Outcome
  <2> QED BY Zenon, <2>6, <2>7, <2>8
<1> QED BY Zenon, <1>Main

\* nn_reorder_gap, when the gap joins intervals.
LEMMA GapJoinsOK ==
  \A min, maxp1, D :
    /\ BufferOK(reorder) /\ reorder.mode = "NORMAL" /\ GapRange(min, maxp1)
    /\ Touching(reorder, min, maxp1) # {} /\ ~(maxp1 <= reorder.next_seq)
    /\ GapJoins(min, maxp1, coalesce_intervals_touching_range(reorder, min, maxp1))
    /\ min..(maxp1 - 1) \subseteq D
    => /\ BufferOK(reorder') /\ Outcome(reorder, reorder', delivered, delivered', D, FALSE)
       /\ min <= reorder.next_seq => Outcome(reorder, reorder', delivered, delivered', D, TRUE)
\* What a coalesced interval stands for.
<1>CoalescedBacked. ASSUME NEW r, BufferOK(r), NEW min, NEW maxp1, GapRange(min, maxp1), NEW w,
                           Coalesced(r, Touching(r, min, maxp1), min, maxp1, w),
                           NEW D, min..(maxp1 - 1) \subseteq D, \A i \in r.sampleivtree : Backed(i, D)
                    PROVE  Backed(w, D)
  <2> USE <1>CoalescedBacked
  <2> SUFFICES ASSUME NEW v \in w.min..(w.maxp1 - 1), v \notin D PROVE v \in Rng(w.sc) BY Zenon DEF Backed
  <2>1. PICK V : V = Touching(r, min, maxp1) BY Zenon
  <2>2. \A i \in V : i \in r.sampleivtree /\ i.maxp1 >= min /\ i.min <= maxp1 BY Zenon, <2>1 DEF Touching
  <2>3. /\ IvOK(w) /\ Rng(w.sc) = UNION {Rng(i.sc) : i \in V}
        /\ w.min = min \/ \E i \in V : w.min = i.min
        /\ w.maxp1 = maxp1 \/ \E i \in V : w.maxp1 = i.maxp1
    BY Zenon, <2>1 DEF Coalesced
  <2>4. w.min \in Nat /\ w.maxp1 \in Nat BY Zenon, <2>3, IvFields
  <2>5. min \in Nat /\ maxp1 \in Nat BY Zenon DEF GapRange
  <2>6. v \in Nat /\ w.min <= v /\ v < w.maxp1 BY ONLY <2>4, v \in w.min..(w.maxp1 - 1)
  <2>7. v \notin min..(maxp1 - 1) BY Zenon
  <2>8. v < min \/ v >= maxp1 BY ONLY <2>5, <2>6, <2>7
  <2>9. \E i \in V : v \in i.min..(i.maxp1 - 1)
    <3>1. CASE v < min
      <4>1. w.min # min BY ONLY <2>4, <2>5, <2>6, <3>1
      <4>2. PICK i \in V : w.min = i.min BY Zenon, <2>3, <4>1
      <4>3. i.min \in Nat /\ i.maxp1 \in Nat /\ i.maxp1 >= min BY Zenon, <2>2, Buffer
      <4>4. v \in i.min..(i.maxp1 - 1) BY ONLY <2>5, <2>6, <3>1, <4>2, <4>3
      <4> QED BY Zenon, <4>4
    <3>2. CASE v >= maxp1
      <4>1. w.maxp1 # maxp1 BY ONLY <2>4, <2>5, <2>6, <3>2
      <4>2. PICK i \in V : w.maxp1 = i.maxp1 BY Zenon, <2>3, <4>1
      <4>3. i.min \in Nat /\ i.maxp1 \in Nat /\ i.min <= maxp1 BY Zenon, <2>2, Buffer
      <4>4. v \in i.min..(i.maxp1 - 1) BY ONLY <2>5, <2>6, <3>2, <4>2, <4>3
      <4> QED BY Zenon, <4>4
    <3> QED BY Zenon, <2>8, <3>1, <3>2
  <2>10. PICK i \in V : v \in i.min..(i.maxp1 - 1) BY Zenon, <2>9
  <2>11. v \in Rng(i.sc) BY Zenon, <2>2, <2>10 DEF Backed
  <2> QED BY Zenon, <2>3, <2>11
\* The intervals that a gap touches are delivered with it.
<1>GapDelivers.
     ASSUME NEW r, BufferOK(r), r.mode = "NORMAL", NEW min, NEW maxp1, GapRange(min, maxp1), ~(maxp1 <= r.next_seq),
            NEW w, Coalesced(r, Touching(r, min, maxp1), min, maxp1, w), Touching(r, min, maxp1) # {},
            w.sc = Chained(Touching(r, min, maxp1)), w.min <= r.next_seq,
            NEW q, DOMAIN q = Fields, SameMode(q, r), q.sampleivtree = r.sampleivtree \ Touching(r, min, maxp1),
            q.next_seq = w.maxp1, q.n_samples = r.n_samples - Len(w.sc),
            q.max_sampleiv = Highest(q.sampleivtree).min,
            NEW D, min..(maxp1 - 1) \subseteq D
     PROVE  BufferOK(q) /\ Delivers(r, q, w.sc, D) /\ min <= r.next_seq
  <2> USE <1>GapDelivers
  <2>1. PICK T : T = r.sampleivtree BY Zenon
  <2>2. PICK V : V = Touching(r, min, maxp1) BY Zenon
  <2>3. PICK U : U = T \ V BY Zenon
  <2>4. q.sampleivtree = U BY Zenon, <2>1, <2>2, <2>3
  <2>5. V \subseteq T /\ V # {} BY Zenon, <2>1, <2>2 DEF Touching
  <2>6. IvsOK(T) /\ IvsOK(U) /\ IvsOK(V) BY Zenon, <2>1, <2>3, <2>5, SubIvs DEF BufferOK
  <2>7. /\ IvOK(w) /\ Len(w.sc) = Count(V) /\ Rng(w.sc) = UNION {Rng(i.sc) : i \in V}
        /\ w.min <= min /\ maxp1 <= w.maxp1
        /\ w.min = min \/ \E i \in V : w.min = i.min
        /\ \A j \in T \ V : w.maxp1 < j.min \/ j.maxp1 < w.min
    BY Zenon, <2>1, <2>2 DEF Coalesced
  <2>8. w.min \in Nat /\ w.maxp1 \in Nat /\ w.min < w.maxp1 /\ w.maxp1 <= MaxSeq + 1 /\ w.sc \in Seq(0..MaxSeq)
    BY Zenon, <2>7, IvFields
  <2>9. r.next_seq \in Nat /\ \A i \in T : IvOK(i) /\ i.min \in Nat /\ i.maxp1 \in Nat /\ i.min < i.maxp1
    BY Zenon, <2>1, Buffer
  <2>10. \A i \in T : r.next_seq < i.min BY Zenon, <2>1 DEF BufferOK
  <2>11. min \in Nat /\ maxp1 \in Nat BY Zenon DEF GapRange
  <2>12. w.min = min /\ min <= r.next_seq
    <3>1. ASSUME NEW i \in V PROVE w.min # i.min
      <4>1. i.min \in Nat /\ r.next_seq < i.min BY Zenon, <2>5, <2>9, <2>10
      <4> QED BY ONLY <2>8, <2>9, <4>1, w.min <= r.next_seq
    <3>2. w.min = min BY Zenon, <2>7, <3>1
    <3> QED BY Zenon, <3>2
  <2>13. \A j \in U : w.maxp1 < j.min
    <3> SUFFICES ASSUME NEW j \in U PROVE w.maxp1 < j.min BY Zenon
    <3>1. j \in T /\ (w.maxp1 < j.min \/ j.maxp1 < w.min) BY Zenon, <2>3, <2>7
    <3>2. j.min \in Nat /\ j.maxp1 \in Nat /\ j.min < j.maxp1 /\ r.next_seq < j.min
      BY Zenon, <2>9, <2>10, <3>1
    <3> QED BY ONLY <2>8, <2>9, <3>1, <3>2, w.min <= r.next_seq
  <2>14. r.next_seq <= w.maxp1 BY ONLY <2>7, <2>8, <2>9, <2>11, ~(maxp1 <= r.next_seq)
  <2>15. BufferOK(q)
    <3>1. q.n_samples = Count(U) /\ q.n_samples <= r.max_samples
      <4>1. Count(T) = Count(V) + Count(U) /\ Count(V) \in Nat /\ Count(U) \in Nat
        BY Zenon, <2>3, <2>5, <2>6, CountSplit
      <4>2. r.n_samples = Count(T) /\ r.n_samples <= r.max_samples /\ r.max_samples \in Nat
        BY Zenon, <2>1 DEF BufferOK
      <4>3. q.n_samples = r.n_samples - Count(V) BY Zenon, <2>7
      <4> QED BY ONLY <4>1, <4>2, <4>3
    <3>2. q.next_seq \in 1..(MaxSeq + 1)
      <4>1. w.maxp1 \in 1..(MaxSeq + 1) BY ONLY <2>8, MaxSeqNat
      <4> QED BY Zenon, <4>1
    <3>3. \A i \in q.sampleivtree : q.next_seq < i.min BY Zenon, <2>4, <2>13
    <3>4. r.mode \in Modes /\ r.max_samples \in Nat /\ \E b \in Buffers : b.max_samples = r.max_samples
      BY Zenon DEF BufferOK
    <3>5. /\ q.mode \in Modes /\ q.mode = "NORMAL" /\ q.max_samples \in Nat /\ q.n_samples <= q.max_samples
          /\ \E b \in Buffers : b.max_samples = q.max_samples
      BY Zenon, <3>1, <3>4 DEF SameMode
    <3> QED BY Zenon, <2>4, <2>6, <3>1, <3>2, <3>3, <3>5 DEF BufferOK
  <2>16. \A v \in Content(r.sampleivtree) \ Content(q.sampleivtree) : v \in Rng(w.sc)
    <3> SUFFICES ASSUME NEW v \in Content(T), v \notin Content(U) PROVE v \in Rng(w.sc) BY Zenon, <2>1, <2>4
    <3>1. PICK i \in T : v # 0 /\ v \in Rng(i.sc) BY Zenon, ContentIs
    <3>2. i \notin U BY Zenon, <3>1, ContentIs
    <3>3. i \in V BY Zenon, <2>3, <3>2
    <3> QED BY Zenon, <2>7, <3>1, <3>3
  <2>17. InOrder(w.sc, r.next_seq, q.next_seq)
    <3>1. \A i \in V : r.next_seq <= i.min /\ i.maxp1 <= w.maxp1
      <4> SUFFICES ASSUME NEW i \in V PROVE r.next_seq <= i.min /\ i.maxp1 <= w.maxp1 BY Zenon
      <4>1. r.next_seq < i.min /\ i.min \in Nat BY Zenon, <2>5, <2>9, <2>10
      <4>2. r.next_seq <= i.min BY ONLY <2>9, <4>1
      <4>3. i.maxp1 <= w.maxp1 BY Zenon, <2>2 DEF Coalesced
      <4> QED BY Zenon, <4>2, <4>3
    <3>2. ChainOK(r.next_seq, w.maxp1, Chained(V)) BY Zenon, <2>5, <2>6, <2>8, <2>9, <2>14, <3>1, ChainedIvs
    <3>3. r.next_seq <= r.next_seq BY ONLY <2>9
    <3>4. InOrder(Chained(V), r.next_seq, w.maxp1) BY Zenon, <2>8, <2>9, <3>2, <3>3, ChainInOrder
    <3> QED BY Zenon, <2>2, <3>4
  <2>18. ASSUME \A i \in r.sampleivtree : Backed(i, D), NEW v \in r.next_seq..(q.next_seq - 1)
         PROVE  v \in D \/ v \in Rng(w.sc)
    <3>1. Backed(w, D) BY Zenon, <2>18, <1>CoalescedBacked
    <3>2. v \in r.next_seq..(w.maxp1 - 1) BY Zenon, <2>18
    <3>3. v \in w.min..(w.maxp1 - 1) BY ONLY <2>8, <2>9, <3>2, w.min <= r.next_seq
    <3> QED BY Zenon, <3>1, <3>3 DEF Backed
  <2>19. Delivers(r, q, w.sc, D)
    <3>1. q.sampleivtree \subseteq r.sampleivtree BY Zenon
    <3>2. r.next_seq <= q.next_seq BY Zenon, <2>14
    <3> QED BY Zenon, <2>8, <2>16, <2>17, <2>18, <3>1, <3>2 DEF Delivers
  <2> QED BY Zenon, <2>12, <2>15, <2>19
\* The intervals that a gap touches become one with it.
<1>GapCoalesces.
     ASSUME NEW r, BufferOK(r), r.mode = "NORMAL", NEW min, NEW maxp1, GapRange(min, maxp1),
            NEW w, Coalesced(r, Touching(r, min, maxp1), min, maxp1, w), ~(w.min <= r.next_seq),
            NEW q, SameButTree(q, r), q.sampleivtree = With(r.sampleivtree, Touching(r, min, maxp1), w),
            q.n_samples = r.n_samples, q.max_sampleiv = Highest(q.sampleivtree).min,
            NEW D, min..(maxp1 - 1) \subseteq D
     PROVE  BufferOK(q) /\ Coalesces(r, q, D) /\ ~(min <= r.next_seq)
  <2> USE <1>GapCoalesces
  <2>1. PICK V : V = Touching(r, min, maxp1) BY Zenon
  <2>2. V \subseteq r.sampleivtree BY Zenon, <2>1 DEF Touching
  <2>3. /\ IvOK(w) /\ Len(w.sc) = Count(V) /\ Rng(w.sc) = UNION {Rng(i.sc) : i \in V} /\ w.min <= min
        /\ \A j \in r.sampleivtree \ V : w.maxp1 < j.min \/ j.maxp1 < w.min
    BY Zenon, <2>1 DEF Coalesced
  <2>4. w.min \in Nat BY Zenon, <2>3, IvFields
  <2>5. r.next_seq \in Nat /\ r.n_samples \in Nat BY Zenon, Buffer
  <2>6. min \in Nat BY Zenon DEF GapRange
  <2>7. r.next_seq < w.min /\ ~(min <= r.next_seq) BY ONLY <2>3, <2>4, <2>5, <2>6, ~(w.min <= r.next_seq)
  <2>8. Fits(r, V, w) BY Zenon, <2>2, <2>3, <2>7 DEF Fits
  <2>9. PICK U : U = With(r.sampleivtree, V, w) BY Zenon
  <2>10. q.sampleivtree = U BY Zenon, <2>1, <2>9
  <2>11. IvsOK(U) /\ Count(U) = r.n_samples - Count(V) + Len(w.sc) /\ (\A i \in U : r.next_seq < i.min) /\ Count(V) \in Nat
    BY <2>8, <2>9, FitsIn
  <2>12. Count(U) = r.n_samples
    <3>1. Count(U) = r.n_samples - Count(V) + Count(V) BY Zenon, <2>3, <2>11
    <3> QED BY ONLY <2>5, <2>11, <3>1
  <2>13. BufferOK(q) BY Zenon, <2>10, <2>11, <2>12 DEF BufferOK, SameButTree
  <2>14. Content(V) \subseteq Rng(w.sc)
    <3> SUFFICES ASSUME NEW v \in Content(V) PROVE v \in Rng(w.sc) BY Zenon
    <3>1. \E i \in V : v \in Rng(i.sc) BY Zenon, ContentIs
    <3> QED BY Zenon, <2>3, <3>1
  <2>15. (\A i \in r.sampleivtree : Backed(i, D)) => Backed(w, D) BY Zenon, <1>CoalescedBacked
  <2>16. Coalesces(r, q, D) BY Zenon, <2>8, <2>9, <2>10, <2>14, <2>15 DEF Coalesces
  <2> QED BY Zenon, <2>7, <2>13, <2>16
<1>Main. ASSUME BufferOK(reorder), reorder.mode = "NORMAL", NEW min, NEW maxp1, GapRange(min, maxp1),
                Touching(reorder, min, maxp1) # {}, ~(maxp1 <= reorder.next_seq),
                GapJoins(min, maxp1, coalesce_intervals_touching_range(reorder, min, maxp1)),
                NEW D, min..(maxp1 - 1) \subseteq D
         PROVE  /\ BufferOK(reorder') /\ Outcome(reorder, reorder', delivered, delivered', D, FALSE)
                /\ min <= reorder.next_seq => Outcome(reorder, reorder', delivered, delivered', D, TRUE)
  <2> USE <1>Main
  <2>1. PICK r : r = reorder BY Zenon
  <2>2. PICK q : q = reorder' BY Zenon
  <2>3. PICK w : w = coalesce_intervals_touching_range(r, min, maxp1) BY Zenon
  <2>4. PICK V : V = Touching(r, min, maxp1) BY Zenon
  <2>5. BufferOK(r) /\ r.mode = "NORMAL" /\ DOMAIN r = Fields /\ V # {} /\ ~(maxp1 <= r.next_seq)
    BY Zenon, <2>1, <2>4 DEF BufferOK
  <2>6. Coalesced(r, V, min, maxp1, w)
    <3>1. Touching(r, min, maxp1) # {} BY Zenon, <2>4, <2>5
    <3>2. Coalesced(r, Touching(r, min, maxp1), min, maxp1, coalesce_intervals_touching_range(r, min, maxp1))
      BY Zenon, <2>5, <3>1, CoalescedOK
    <3> QED BY Zenon, <2>3, <2>4, <3>2
  <2>7. w.sc = Chained(V)
    <3>1. V # {} BY Zenon, <2>5
    <3> QED BY Zenon, <2>3, <2>4, <3>1 DEF coalesce_intervals_touching_range, Interval
  <2>8. IF w.min <= r.next_seq
        THEN /\ q = RefreshMax([r EXCEPT !.sampleivtree = r.sampleivtree \ V, !.next_seq = w.maxp1,
                                         !.n_samples = @ - Len(w.sc)])
             /\ delivered' = delivered \o w.sc
        ELSE /\ q = RefreshMax([r EXCEPT !.sampleivtree = (r.sampleivtree \ V) \cup {w}])
             /\ delivered' = delivered
    BY Zenon, <2>1, <2>2, <2>3, <2>4 DEF GapJoins
  <2>9. CASE w.min <= r.next_seq
    <3>1. PICK a : a = [r EXCEPT !.sampleivtree = r.sampleivtree \ V, !.next_seq = w.maxp1,
                                 !.n_samples = @ - Len(w.sc)] BY Zenon
    <3>2. q = [a EXCEPT !.max_sampleiv = Highest(a.sampleivtree).min] /\ delivered' = delivered \o w.sc
      BY Zenon, <2>8, <2>9, <3>1 DEF RefreshMax
    <3>3. /\ DOMAIN a = Fields /\ SameMode(a, r) /\ a.sampleivtree = r.sampleivtree \ V /\ a.next_seq = w.maxp1
          /\ a.n_samples = r.n_samples - Len(w.sc)
      BY Zenon, <2>5, <3>1 DEF Fields, SameMode
    <3>4. /\ DOMAIN q = Fields /\ SameMode(q, a) /\ q.sampleivtree = a.sampleivtree /\ q.next_seq = a.next_seq
          /\ q.n_samples = a.n_samples /\ q.max_sampleiv = Highest(a.sampleivtree).min
      BY Zenon, <3>2, <3>3 DEF Fields, SameMode
    <3>5. SameMode(q, r) BY Zenon, <3>3, <3>4 DEF SameMode
    <3>6. /\ q.sampleivtree = r.sampleivtree \ Touching(r, min, maxp1) /\ q.next_seq = w.maxp1
          /\ q.n_samples = r.n_samples - Len(w.sc) /\ q.max_sampleiv = Highest(q.sampleivtree).min
      BY Zenon, <2>4, <3>3, <3>4
    <3>7. /\ Coalesced(r, Touching(r, min, maxp1), min, maxp1, w) /\ Touching(r, min, maxp1) # {}
          /\ w.sc = Chained(Touching(r, min, maxp1))
      BY Zenon, <2>4, <2>5, <2>6, <2>7
    <3>8. BufferOK(q) /\ Delivers(r, q, w.sc, D) /\ min <= r.next_seq
      BY ONLY Zenon, GapRange(min, maxp1), min..(maxp1 - 1) \subseteq D, <2>5, <2>9, <3>4, <3>5, <3>6, <3>7, <1>GapDelivers
    <3>9. SameMode(q, r) /\ \E c : delivered' = delivered \o c /\ Delivers(r, q, c, D)
      BY Zenon, <3>2, <3>5, <3>8
    <3> QED BY Zenon, <2>1, <2>2, <3>8, <3>9 DEF Outcome
  <2>10. CASE ~(w.min <= r.next_seq)
    <3>1. PICK a : a = [r EXCEPT !.sampleivtree = (r.sampleivtree \ V) \cup {w}] BY Zenon
    <3>2. q = [a EXCEPT !.max_sampleiv = Highest(a.sampleivtree).min] /\ delivered' = delivered
      BY Zenon, <2>8, <2>10, <3>1 DEF RefreshMax
    <3>3. SameButTree(a, r) /\ a.sampleivtree = (r.sampleivtree \ V) \cup {w} /\ a.n_samples = r.n_samples
      BY Zenon, <2>5, <3>1 DEF Fields, SameButTree
    <3>4. DOMAIN a = Fields BY Zenon, <3>3 DEF SameButTree
    <3>5. /\ SameButTree(q, a) /\ q.sampleivtree = a.sampleivtree /\ q.n_samples = a.n_samples
          /\ q.max_sampleiv = Highest(a.sampleivtree).min
      BY Zenon, <3>2, <3>4 DEF Fields, SameButTree
    <3>6. SameButTree(q, r) BY Zenon, <3>3, <3>5 DEF SameButTree
    <3>7. /\ q.sampleivtree = With(r.sampleivtree, Touching(r, min, maxp1), w) /\ q.n_samples = r.n_samples
          /\ q.max_sampleiv = Highest(q.sampleivtree).min
      BY Zenon, <2>4, <3>3, <3>5 DEF With
    <3>8. Coalesced(r, Touching(r, min, maxp1), min, maxp1, w) BY Zenon, <2>4, <2>6
    <3>9. BufferOK(q) /\ Coalesces(r, q, D) /\ ~(min <= r.next_seq)
      BY ONLY Zenon, GapRange(min, maxp1), min..(maxp1 - 1) \subseteq D, <2>5, <2>10, <3>6, <3>7, <3>8, <1>GapCoalesces
    <3> QED BY Zenon, <2>1, <2>2, <3>2, <3>6, <3>9 DEF Outcome
  <2> QED BY Zenon, <2>9, <2>10
<1> QED BY Zenon, <1>Main

---------------------------------------------------------------------------
(* Every step. *)

RInv == BufferOK(reorder) /\ delivered \in Seq(0..MaxSeq) /\ declared \subseteq 1..MaxSeq

\* The buffer as nn_reorder_new makes it.
LEMMA InitInv ==
  ASSUME Init
  PROVE  RInv
<1>1. PICK b \in Buffers : reorder = nn_reorder_new(b) BY Zenon DEF Init
<1>2. b.mode \in Modes /\ b.max_samples \in Nat BY Zenon, ReorderAssumption DEF Modes
<1>3. /\ DOMAIN reorder = Fields /\ reorder.mode = b.mode /\ reorder.max_samples = b.max_samples
      /\ reorder.sampleivtree = {} /\ reorder.max_sampleiv = 0 /\ reorder.next_seq = 1 /\ reorder.n_samples = 0
  BY Zenon, <1>1 DEF nn_reorder_new, Fields
<1>4. IvsOK({}) BY Zenon DEF IvsOK, Apart
<1>5. Highest({}).min = 0 /\ Count({}) = 0 BY Zenon, NoIvFields, CountNone
<1>6. 1 \in 1..(MaxSeq + 1) BY MaxSeqNat
<1>7. 0 <= b.max_samples BY <1>2
<1>8. BufferOK(reorder) BY Zenon, <1>2, <1>3, <1>4, <1>5, <1>6, <1>7 DEF BufferOK
<1>9. delivered \in Seq(0..MaxSeq) BY DEF Init
<1> QED BY Zenon, <1>8, <1>9 DEF RInv, Init

\* A step that may bring other than samples is a gap beyond next_seq.
LEMMA NextStep ==
    RInv /\ Next
    => /\ RInv' /\ declared \subseteq declared'
       /\ \/ Outcome(reorder, reorder', delivered, delivered', declared', TRUE)
          \/ /\ Outcome(reorder, reorder', delivered, delivered', declared', FALSE)
             /\ \E min \in GapMins(reorder.max_samples) : ~(min <= reorder.next_seq)
<1>RangeOf. ASSUME NEW min \in 1..MaxSeq, NEW maxp1 \in 2..(MaxSeq + 1), min < maxp1
            PROVE  GapRange(min, maxp1)
  <2> USE <1>RangeOf
  <2>1. /\ min \in Nat /\ maxp1 \in Nat /\ min > 0 /\ min < maxp1 /\ min <= MaxSeq /\ maxp1 <= MaxSeq + 1
    BY ONLY MaxSeqNat, min \in 1..MaxSeq, maxp1 \in 2..(MaxSeq + 1), min < maxp1
  <2> QED BY Zenon, <2>1 DEF GapRange
\* What has been returned stays a sequence.
<1>OutcomeSeq.
     ASSUME NEW r, NEW q, NEW d \in Seq(0..MaxSeq), NEW e, NEW D, NEW tight \in BOOLEAN, Outcome(r, q, d, e, D, tight)
     PROVE  e \in Seq(0..MaxSeq)
  <2> USE <1>OutcomeSeq
  <2>1. CASE e = d BY Zenon, <2>1
  <2>2. CASE \E c : e = d \o c /\ Delivers(r, q, c, D)
    <3>1. PICK c : e = d \o c /\ Delivers(r, q, c, D) BY Zenon, <2>2
    <3>2. c \in Seq(0..MaxSeq) BY Zenon, <3>1 DEF Delivers
    <3> QED BY Zenon, <3>1, <3>2, Cat
  <2> QED BY Zenon, <2>1, <2>2 DEF Outcome
\* nn_reorder_rsample.
<1>SampleStep.
     ASSUME RInv, NEW s \in 1..MaxSeq, NEW full \in BOOLEAN, nn_reorder_rsample(s, full)
     PROVE  BufferOK(reorder') /\ declared' = declared /\ Outcome(reorder, reorder', delivered, delivered', declared', TRUE)
  <2> USE <1>SampleStep
  <2>1. BufferOK(reorder) BY Zenon DEF RInv
  <2>2. declared' = declared BY Zenon DEF nn_reorder_rsample
  <2>3. CASE UNCHANGED <<reorder, delivered>>
    <3>1. reorder' = reorder /\ delivered' = delivered BY Zenon, <2>3
    <3> QED BY Zenon, <2>1, <2>2, <3>1 DEF Outcome
  <2>4. CASE Deliverable(reorder, s) /\ DeliverSample(s)
    <3>1. /\ BufferOK(reorder') /\ SameMode(reorder', reorder)
          /\ \E c : delivered' = delivered \o c /\ Delivers(reorder, reorder', c, declared')
      BY Zenon, <2>1, <2>4, DeliverSampleOK
    <3> QED BY Zenon, <2>2, <3>1 DEF Outcome
  <2>5. CASE /\ ~Deliverable(reorder, s) /\ ~Refused(reorder, s, full)
             /\ IF s >= MaxIv(reorder).maxp1 THEN AppendSample(s) ELSE InsertSample(s)
             /\ UNCHANGED delivered
    <3>1. /\ reorder.mode = "NORMAL" /\ s > reorder.next_seq
          /\ s >= MaxIv(reorder).maxp1 => reorder.n_samples < reorder.max_samples
          /\ ~(s >= MaxIv(reorder).maxp1) => ~(s < LookupPredEq(reorder, s).maxp1) /\ reorder.sampleivtree # {}
      BY Zenon, <2>1, <2>5, Accepted
    <3>2. BufferOK(reorder') /\ SameButTree(reorder', reorder) /\ Stores(reorder, reorder', declared', TRUE)
      <4>1. CASE s >= MaxIv(reorder).maxp1
        <5>1. AppendSample(s) BY Zenon, <2>5, <4>1
        <5> QED BY Zenon, <2>1, <3>1, <4>1, <5>1, AppendSampleOK
      <4>2. CASE ~(s >= MaxIv(reorder).maxp1)
        <5>1. InsertSample(s) BY Zenon, <2>5, <4>2
        <5> QED BY Zenon, <2>1, <3>1, <4>2, <5>1, InsertSampleOK
      <4> QED BY Zenon, <4>1, <4>2
    <3> QED BY Zenon, <2>2, <2>5, <3>2 DEF Outcome
  <2> QED BY Zenon, <2>3, <2>4, <2>5 DEF nn_reorder_rsample
\* nn_reorder_gap.
<1>GapStep.
     ASSUME RInv, NEW min \in 1..MaxSeq, NEW maxp1 \in 2..(MaxSeq + 1), min < maxp1, nn_reorder_gap(min, maxp1)
     PROVE  /\ BufferOK(reorder') /\ Outcome(reorder, reorder', delivered, delivered', declared', FALSE)
            /\ min <= reorder.next_seq => Outcome(reorder, reorder', delivered, delivered', declared', TRUE)
  <2> USE <1>GapStep
  <2>1. BufferOK(reorder) /\ delivered \in Seq(0..MaxSeq) BY Zenon DEF RInv
  <2>2. GapRange(min, maxp1) BY Zenon, <1>RangeOf
  <2>3. min..(maxp1 - 1) \subseteq declared' BY Zenon DEF nn_reorder_gap
  <2>4. CASE maxp1 <= reorder.next_seq \/ reorder.mode # "NORMAL"
    <3>1. UNCHANGED <<reorder, delivered>> BY Zenon, <2>4 DEF nn_reorder_gap
    <3>2. reorder' = reorder /\ delivered' = delivered BY Zenon, <3>1
    <3> QED BY Zenon, <2>1, <3>2 DEF Outcome
  <2>5. CASE ~(maxp1 <= reorder.next_seq \/ reorder.mode # "NORMAL")
    <3>1. ~(maxp1 <= reorder.next_seq) /\ reorder.mode = "NORMAL" BY Zenon, <2>5
    <3>2. IF coalesce_intervals_touching_range(reorder, min, maxp1) = NoIv THEN GapAlone(min, maxp1)
          ELSE GapJoins(min, maxp1, coalesce_intervals_touching_range(reorder, min, maxp1))
      BY Zenon, <2>5 DEF nn_reorder_gap
    <3>3. CASE Touching(reorder, min, maxp1) = {}
      <4>1. coalesce_intervals_touching_range(reorder, min, maxp1) = NoIv
        BY Zenon, <3>3 DEF coalesce_intervals_touching_range
      <4>2. GapAlone(min, maxp1) BY Zenon, <3>2, <4>1
      <4> QED BY Zenon, <2>1, <2>2, <2>3, <3>1, <3>3, <4>2, GapAloneOK
    <3>4. CASE Touching(reorder, min, maxp1) # {}
      <4>1. IvOK(coalesce_intervals_touching_range(reorder, min, maxp1))
        BY Zenon, <2>1, <2>2, <3>4, CoalescedOK DEF Coalesced
      <4>2. coalesce_intervals_touching_range(reorder, min, maxp1) # NoIv BY Zenon, <4>1, IvIsNoNoIv
      <4>3. GapJoins(min, maxp1, coalesce_intervals_touching_range(reorder, min, maxp1)) BY Zenon, <3>2, <4>2
      <4> QED BY Zenon, <2>1, <2>2, <2>3, <3>1, <3>4, <4>3, GapJoinsOK
    <3> QED BY Zenon, <3>3, <3>4
  <2> QED BY Zenon, <2>4, <2>5
<1>Main. ASSUME RInv, Next
         PROVE  /\ RInv' /\ declared \subseteq declared'
                /\ \/ Outcome(reorder, reorder', delivered, delivered', declared', TRUE)
                   \/ /\ Outcome(reorder, reorder', delivered, delivered', declared', FALSE)
                      /\ \E min \in GapMins(reorder.max_samples) : ~(min <= reorder.next_seq)
  <2> USE <1>Main
  <2>1. delivered \in Seq(0..MaxSeq) /\ declared \subseteq 1..MaxSeq /\ BufferOK(reorder) BY Zenon DEF RInv
  <2>2. CASE \E s \in 1..MaxSeq, full \in BOOLEAN : nn_reorder_rsample(s, full)
    <3>1. PICK s \in 1..MaxSeq, full \in BOOLEAN : nn_reorder_rsample(s, full) BY Zenon, <2>2
    <3>2. BufferOK(reorder') /\ declared' = declared /\ Outcome(reorder, reorder', delivered, delivered', declared', TRUE)
      BY Zenon, <3>1, <1>SampleStep
    <3>3. delivered' \in Seq(0..MaxSeq) BY Zenon, <2>1, <3>2, <1>OutcomeSeq
    <3> QED BY Zenon, <2>1, <3>2, <3>3 DEF RInv
  <2>3. CASE \E min \in GapMins(reorder.max_samples), maxp1 \in 2..(MaxSeq + 1) : min < maxp1 /\ nn_reorder_gap(min, maxp1)
    <3>1. PICK min \in GapMins(reorder.max_samples), maxp1 \in 2..(MaxSeq + 1) : min < maxp1 /\ nn_reorder_gap(min, maxp1)
      BY Zenon, <2>3
    <3>2. min \in 1..MaxSeq
      <4>1. PICK b \in Buffers : b.max_samples = reorder.max_samples BY Zenon, <2>1 DEF BufferOK
      <4>2. GapMins(b.max_samples) \subseteq 1..MaxSeq BY Zenon, ReorderAssumption
      <4> QED BY Zenon, <4>1, <4>2
    <3>3. /\ BufferOK(reorder') /\ Outcome(reorder, reorder', delivered, delivered', declared', FALSE)
          /\ min <= reorder.next_seq => Outcome(reorder, reorder', delivered, delivered', declared', TRUE)
      BY Zenon, <3>1, <3>2, <1>GapStep
    <3>4. delivered' \in Seq(0..MaxSeq) BY Zenon, <2>1, <3>3, <1>OutcomeSeq
    <3>5. declared' = declared \cup min..(maxp1 - 1) BY Zenon, <3>1 DEF nn_reorder_gap
    <3>6. min..(maxp1 - 1) \subseteq 1..MaxSeq BY <3>2, MaxSeqNat
    <3>7. declared \subseteq declared' /\ declared' \subseteq 1..MaxSeq BY Zenon, <2>1, <3>5, <3>6
    <3> QED BY Zenon, <3>1, <3>3, <3>4, <3>7 DEF RInv
  <2> QED BY Zenon, <2>2, <2>3 DEF Next
<1> QED BY Zenon, <1>Main

\* The inductive invariant: whatever arrives, the buffer stays right (BufferOK) and
\* what was returned is a sequence of samples.
THEOREM Inductive == Spec => []RInv
<1>1. Init => RInv BY Zenon, InitInv
<1>2. RInv /\ [Next]_vars => RInv'
  <2>1. CASE UNCHANGED vars BY Zenon, <2>1 DEF vars, RInv
  <2>2. ASSUME RInv, Next PROVE RInv' BY Zenon, <2>2, NextStep
  <2> QED BY Zenon, <2>1, <2>2
<1> QED BY <1>1, <1>2, PTL DEF Spec

---------------------------------------------------------------------------
(* What is shown. *)

\* The invariant implies the types.
LEMMA TypeHolds ==
  ASSUME RInv
  PROVE  TypeOK
<1>1. BufferOK(reorder) BY Zenon DEF RInv
<1>2. PICK T : T = reorder.sampleivtree BY Zenon
<1>3. reorder.n_samples \in Nat /\ \A i \in T : IvOK(i) BY Zenon, <1>1, <1>2, Buffer
<1>4. reorder.next_seq \in 1..(MaxSeq + 1) /\ reorder.max_sampleiv = Highest(T).min
  BY Zenon, <1>1, <1>2 DEF BufferOK
<1>5. \A i \in T : i.min \in 1..MaxSeq /\ i.maxp1 \in 2..(MaxSeq + 1) /\ i.sc \in Seq(0..MaxSeq)
  <2> SUFFICES ASSUME NEW i \in T PROVE i.min \in 1..MaxSeq /\ i.maxp1 \in 2..(MaxSeq + 1) /\ i.sc \in Seq(0..MaxSeq)
    BY Zenon
  <2>1. /\ i.min \in Nat /\ i.min > 0 /\ i.maxp1 \in Nat /\ i.maxp1 <= MaxSeq + 1 /\ i.min < i.maxp1 /\ i.min <= MaxSeq
        /\ i.sc \in Seq(0..MaxSeq)
    BY Zenon, <1>3, IvFields
  <2>2. i.min \in 1..MaxSeq /\ i.maxp1 \in 2..(MaxSeq + 1) BY ONLY <2>1, MaxSeqNat
  <2> QED BY Zenon, <2>1, <2>2
<1>6. reorder.max_sampleiv \in 0..MaxSeq
  <2>1. CASE T = {} BY <1>4, <2>1, NoIvFields, MaxSeqNat
  <2>2. CASE T # {}
    <3>1. PICK h : h = Highest(T) BY Zenon
    <3>2. h \in T BY Zenon, <1>3, <2>2, <3>1, EndsFound
    <3>3. h.min \in 1..MaxSeq BY Zenon, <1>5, <3>2
    <3>4. reorder.max_sampleiv = h.min BY Zenon, <1>4, <3>1
    <3> QED BY ONLY <3>3, <3>4, MaxSeqNat
  <2> QED BY Zenon, <2>1, <2>2
<1> QED BY Zenon, <1>2, <1>3, <1>4, <1>5, <1>6 DEF TypeOK, RInv

\* The invariant implies what is asserted of the tree.
LEMMA TreeHolds ==
  ASSUME RInv
  PROVE  TreeExact
<1>1. BufferOK(reorder) BY Zenon DEF RInv
<1>2. PICK T : T = reorder.sampleivtree BY Zenon
<1>3. /\ IvsOK(T) /\ \A i \in T : reorder.next_seq < i.min
      /\ reorder.max_sampleiv = Highest(T).min /\ reorder.n_samples = Count(T)
      /\ reorder.n_samples <= reorder.max_samples
  BY Zenon, <1>1, <1>2 DEF BufferOK
<1>4. \A i \in T : i.min + Len(i.sc) <= i.maxp1 BY Zenon, <1>3, IvFields DEF IvsOK
<1>5. \A i, j \in T : i # j => i.maxp1 < j.min \/ j.maxp1 < i.min BY Zenon, <1>3 DEF IvsOK, Apart
<1>6. ASSUME NEW i \in T, NEW x \in DOMAIN i.sc, i.sc[x] # 0
      PROVE  /\ i.min <= i.sc[x] /\ i.sc[x] < i.maxp1
             /\ \A y \in DOMAIN i.sc : x < y /\ i.sc[y] # 0 => i.sc[x] < i.sc[y]
  <2>1. IvOK(i) BY Zenon, <1>3 DEF IvsOK
  <2>2. DOMAIN i.sc = 1..Len(i.sc) BY Zenon, <2>1, IvFields
  <2>3. i.sc[x] \in Rng(i.sc) BY Zenon DEF Rng
  <2>4. i.min <= i.sc[x] /\ i.sc[x] < i.maxp1 BY Zenon, <1>6, <2>1, <2>3, InRange
  <2>5. \A y \in 1..Len(i.sc) : x < y /\ i.sc[x] # 0 /\ i.sc[y] # 0 => i.sc[x] < i.sc[y]
    BY Zenon, <2>1, <2>2 DEF IvOK, ChainOK
  <2> QED BY Zenon, <1>6, <2>2, <2>4, <2>5
<1> QED BY Zenon, <1>2, <1>3, <1>4, <1>5, <1>6 DEF TreeExact, Count

\* The invariant makes the nackmap right.
LEMMA NackmapHolds ==
    RInv
    => NackmapExact
\* The bitmap is the part of the missing sequence numbers within its limits.
<1>Limits.
     ASSUME NEW base \in Nat, NEW maxseq \in Int, maxseq >= base - 1, NEW maxsz \in Nat, NEW max \in Nat,
            NEW lim, lim = Min({maxseq + 1 - base, maxsz, max})
     PROVE  /\ lim \in Nat /\ lim <= maxseq + 1 - base /\ lim <= maxsz /\ lim <= max
            /\ lim = maxseq + 1 - base \/ lim = maxsz \/ lim = max
  <2> USE <1>Limits
  <2>1. PICK a : a = maxseq + 1 - base BY Zenon
  <2>2. a \in Nat BY ONLY <2>1, base \in Nat, maxseq \in Int, maxseq >= base - 1
  <2>3. PICK S : S = {a, maxsz, max} BY Zenon
  <2>4. S \in SUBSET Nat /\ S # {} /\ a \in S /\ maxsz \in S /\ max \in S BY Zenon, <2>2, <2>3
  <2>5. PICK x \in S : \A y \in S : x <= y BY Zenon, <2>4, LeastNat
  <2>6. Min(S) \in S /\ \A y \in S : Min(S) <= y BY Zenon, <2>5 DEF Min
  <2>7. lim = Min(S) BY Zenon, <2>1, <2>3
  <2>8. lim \in Nat /\ lim <= a /\ lim <= maxsz /\ lim <= max BY Zenon, <2>4, <2>6, <2>7
  <2>9. lim = a \/ lim = maxsz \/ lim = max BY Zenon, <2>3, <2>6, <2>7
  <2> QED BY Zenon, <2>1, <2>8, <2>9
<1>Wanted.
     ASSUME NEW r, BufferOK(r), NEW s \in Nat, s >= r.next_seq, \A i \in r.sampleivtree : s < i.min \/ s >= i.maxp1
     PROVE  nn_reorder_wantsample(r, s)
  <2> USE <1>Wanted
  <2>1. PICK T : T = r.sampleivtree BY Zenon
  <2>2. PICK S : S = {i \in T : i.min <= s} BY Zenon
  <2>3. \A i \in T : IvOK(i) /\ i.min \in Nat /\ i.maxp1 \in Nat BY Zenon, <2>1, Buffer
  <2>4. PICK p : p = LookupPredEq(r, s) BY Zenon
  <2>5. p = Highest(S) BY Zenon, <2>1, <2>2, <2>4 DEF LookupPredEq
  <2>6. CASE S = {}
    <3>1. p = NoIv BY Zenon, <2>5, <2>6, NoIvFields
    <3> QED BY Zenon, <2>4, <3>1 DEF nn_reorder_wantsample
  <2>7. CASE S # {}
    <3>1. \A i \in S : IvOK(i) BY Zenon, <2>2, <2>3
    <3>2. p \in S BY Zenon, <2>5, <2>7, <3>1, EndsFound
    <3>3. p \in T /\ p.min <= s BY Zenon, <2>2, <3>2
    <3>4. s < p.min \/ s >= p.maxp1 BY Zenon, <2>1, <3>3
    <3>5. p.min \in Nat /\ p.maxp1 \in Nat BY Zenon, <2>3, <3>3
    <3>6. p.maxp1 <= s BY ONLY <3>3, <3>4, <3>5, s \in Nat
    <3> QED BY Zenon, <2>4, <3>6 DEF nn_reorder_wantsample
  <2> QED BY Zenon, <2>6, <2>7
<1>Main. ASSUME RInv
         PROVE  NackmapExact
  <2> USE <1>Main
  <2>1. BufferOK(reorder) BY Zenon DEF RInv
  <2>2. PICK r : r = reorder BY Zenon
  <2>3. PICK base : base = r.next_seq BY Zenon
  <2>4. PICK max : max = r.max_samples BY Zenon
  <2>5. PICK T : T = r.sampleivtree BY Zenon
  <2>6. BufferOK(r) BY Zenon, <2>1, <2>2
  <2>7. base \in Nat /\ max \in Nat /\ \A i \in T : IvOK(i) /\ i.min \in Nat /\ i.maxp1 \in Nat /\ i.min < i.maxp1
    BY Zenon, <2>3, <2>4, <2>5, <2>6, Buffer
  <2>8. \A i \in T : base < i.min BY Zenon, <2>3, <2>5, <2>6 DEF BufferOK
  <2>9. ASSUME NEW maxseq \in (base - 1)..MaxSeq, NEW maxsz \in {1, MaxSeq}, NEW notail \in BOOLEAN,
               NEW m, m = nn_reorder_nackmap(r, base, maxseq, maxsz, notail)
        PROVE  /\ m.numbits <= max
               /\ \A s \in m.bits : nn_reorder_wantsample(r, s) /\ s <= maxseq
               /\ maxseq < base \/ max = 0 \/ (notail /\ T = {}) \/ base \in m.bits
    <3>1. maxseq \in Int /\ maxseq >= base - 1 BY <2>7, MaxSeqNat
    <3>2. maxsz \in Nat /\ maxsz >= 1 BY MaxSeqNat
    <3>3. PICK lim : lim = Min({maxseq + 1 - base, maxsz, max}) BY Zenon
    <3>4. PICK tail : tail = IF T = {} THEN base ELSE Highest(T).maxp1 BY Zenon
    <3>5. PICK nb : nb = IF notail /\ tail < base + lim THEN tail - base ELSE lim BY Zenon
    <3>6. PICK bits : bits = {s \in base..(base + nb - 1) : \A i \in T : s < i.min \/ s >= i.maxp1} BY Zenon
    <3>7. m.numbits = nb /\ m.bits = bits
      BY Zenon, <2>4, <2>5, <2>9, <3>3, <3>4, <3>5, <3>6 DEF nn_reorder_nackmap
    <3>8. /\ lim \in Nat /\ lim <= maxseq + 1 - base /\ lim <= maxsz /\ lim <= max
          /\ lim = maxseq + 1 - base \/ lim = maxsz \/ lim = max
      BY <2>7, <3>1, <3>2, <3>3, <1>Limits
    <3>9. tail \in Nat /\ tail >= base /\ (T # {} => tail > base)
      <4>1. CASE T = {}
        <5>1. tail = base BY Zenon, <3>4, <4>1
        <5> QED BY ONLY <2>7, <4>1, <5>1
      <4>2. CASE T # {}
        <5>1. PICK h : h = Highest(T) BY Zenon
        <5>2. h \in T BY Zenon, <2>7, <4>2, <5>1, EndsFound
        <5>3. h.min \in Nat /\ h.maxp1 \in Nat /\ h.min < h.maxp1 /\ base < h.min BY Zenon, <2>7, <2>8, <5>2
        <5>4. tail = h.maxp1 BY Zenon, <3>4, <4>2, <5>1
        <5> QED BY ONLY <2>7, <5>3, <5>4
      <4> QED BY Zenon, <4>1, <4>2
    <3>10. nb \in Nat /\ nb <= lim /\ (T # {} /\ lim >= 1 => nb >= 1) /\ (~notail => nb = lim)
      <4>1. CASE notail /\ tail < base + lim
        <5>1. nb = tail - base BY Zenon, <3>5, <4>1
        <5> QED BY ONLY <2>7, <3>8, <3>9, <4>1, <5>1
      <4>2. CASE ~(notail /\ tail < base + lim)
        <5>1. nb = lim BY Zenon, <3>5, <4>2
        <5> QED BY ONLY Zenon, <3>8, <5>1
      <4> QED BY Zenon, <4>1, <4>2
    <3>11. nb <= max BY ONLY <2>7, <3>8, <3>10
    <3>12. ASSUME NEW s \in bits PROVE nn_reorder_wantsample(r, s) /\ s <= maxseq
      <4>1. s \in base..(base + nb - 1) /\ \A i \in T : s < i.min \/ s >= i.maxp1 BY Zenon, <3>6
      <4>2. s \in Nat /\ s >= base /\ s <= maxseq BY ONLY <2>7, <3>1, <3>8, <3>10, <4>1
      <4> QED BY Zenon, <2>3, <2>5, <2>6, <4>1, <4>2, <1>Wanted
    <3>13. ASSUME ~(maxseq < base), max # 0, ~(notail /\ T = {}) PROVE base \in bits
      <4>1. lim >= 1 BY ONLY <2>7, <3>1, <3>2, <3>8, <3>13
      <4>2. nb >= 1 BY ONLY Zenon, <3>10, <3>13, <4>1
      <4>3. base \in base..(base + nb - 1) BY ONLY <2>7, <3>10, <4>2
      <4> QED BY Zenon, <2>8, <3>6, <4>3
    <3> QED BY Zenon, <3>7, <3>11, <3>12, <3>13
  <2> QED BY Zenon, <2>2, <2>3, <2>4, <2>5, <2>9 DEF NackmapExact
<1> QED BY Zenon, <1>Main

\* A stored sample that is no longer there was returned, or is later than all that
\* are there.
LEMMA GivenUp ==
  \A r, q, d, e, D, tight, s :
    /\ d \in Seq(0..MaxSeq) /\ tight \in BOOLEAN /\ Outcome(r, q, d, e, D, tight)
    /\ s \in Stored(r) \ Stored(q)
    => (\E x \in DOMAIN e : e[x] = s) \/ \A t \in Stored(q) : t < s
\* What is stored is the content of the intervals.
<1>StoredIs. ASSUME NEW r
             PROVE  Stored(r) = Content(r.sampleivtree)
  <2> USE <1>StoredIs
  <2>1. PICK T : T = r.sampleivtree BY Zenon
  <2>2. ASSUME NEW v PROVE v \in Stored(r) <=> v \in Content(T)
    <3>1. v \in Stored(r) <=> \E i \in T : v \in {i.sc[x] : x \in DOMAIN i.sc} \ {0} BY <2>1 DEF Stored
    <3>2. v \in Stored(r) <=> \E i \in T : v \in Rng(i.sc) /\ v # 0 BY Zenon, <3>1 DEF Rng
    <3> QED BY Zenon, <3>2, ContentIs
  <2> QED BY Zenon, <2>1, <2>2
\* Nothing is lost when intervals are joined.
<1>ContentWith. ASSUME NEW T, NEW R, NEW w, Content(R) \subseteq Rng(w.sc)
                PROVE  Content(T) \subseteq Content(With(T, R, w))
  <2> USE <1>ContentWith
  <2> SUFFICES ASSUME NEW v \in Content(T) PROVE v \in Content(With(T, R, w)) BY Zenon
  <2>1. PICK i \in T : v \in Rng(i.sc) BY Zenon, ContentIs
  <2>2. v # 0 BY Zenon, ContentIs
  <2>3. \E j \in With(T, R, w) : v \in Rng(j.sc)
    <3>1. CASE i \in R
      <4>1. v \in Content(R) BY Zenon, <2>1, <2>2, <3>1, ContentIs
      <4>2. w \in With(T, R, w) BY Zenon DEF With
      <4> QED BY Zenon, <4>1, <4>2
    <3>2. CASE i \notin R
      <4>1. i \in With(T, R, w) BY Zenon, <3>2 DEF With
      <4> QED BY Zenon, <2>1, <4>1
    <3> QED BY Zenon, <3>1, <3>2
  <2> QED BY Zenon, <2>2, <2>3, ContentIs
<1>Main.
     ASSUME NEW r, NEW q, NEW d \in Seq(0..MaxSeq), NEW e, NEW D, NEW tight \in BOOLEAN, Outcome(r, q, d, e, D, tight),
            NEW s \in Stored(r) \ Stored(q)
     PROVE  (\E x \in DOMAIN e : e[x] = s) \/ \A t \in Stored(q) : t < s
  <2> USE <1>Main
  <2>1. PICK T : T = r.sampleivtree BY Zenon
  <2>2. PICK U : U = q.sampleivtree BY Zenon
  <2>3. Stored(r) = Content(T) /\ Stored(q) = Content(U) BY Zenon, <2>1, <2>2, <1>StoredIs
  <2>4. s \in Content(T) /\ s \notin Content(U) BY Zenon, <2>3
  <2>5. CASE q = r BY Zenon, <2>1, <2>2, <2>4, <2>5
  <2>6. CASE Stores(r, q, D, tight)
    <3>1. PICK R, w : /\ Adds(R, w, D, tight)
                      /\ U = With(T, R, w) \/ LeftOf(With(T, R, w), U)
      BY Zenon, <2>1, <2>2, <2>6 DEF Stores
    <3>2. Content(R) \subseteq Rng(w.sc) BY Zenon, <3>1 DEF Adds
    <3>3. s \in Content(With(T, R, w)) BY Zenon, <2>4, <3>2, <1>ContentWith
    <3>4. LeftOf(With(T, R, w), U) BY Zenon, <2>4, <3>1, <3>3
    <3>5. \A t \in Content(U) : t < s BY Zenon, <2>4, <3>3, <3>4 DEF LeftOf
    <3> QED BY Zenon, <2>3, <3>5
  <2>7. CASE Coalesces(r, q, D)
    <3>1. PICK R, w : Content(R) \subseteq Rng(w.sc) /\ U = With(T, R, w)
      BY Zenon, <2>1, <2>2, <2>7 DEF Coalesces
    <3>2. s \in Content(With(T, R, w)) BY Zenon, <2>4, <3>1, <1>ContentWith
    <3> QED BY Zenon, <2>4, <3>1, <3>2
  <2>8. CASE \E c : e = d \o c /\ Delivers(r, q, c, D)
    <3>1. PICK c : e = d \o c /\ Delivers(r, q, c, D) BY Zenon, <2>8
    <3>2. c \in Seq(0..MaxSeq) /\ s \in Rng(c) BY Zenon, <2>1, <2>2, <2>4, <3>1 DEF Delivers
    <3>3. s \in Rng(e) BY <3>1, <3>2, RngCat
    <3> QED BY Zenon, <3>3 DEF Rng
  <2> QED BY Zenon, <2>5, <2>6, <2>7, <2>8 DEF Outcome
<1> QED BY <1>Main

\* The buffer and the history variables have their types.
THEOREM TypeCorrect == Spec => []TypeOK
<1>1. RInv => TypeOK BY Zenon, TypeHolds
<1> QED BY <1>1, Inductive, PTL

\* The intervals of the tree are disjoint, not consecutive and beyond
\* next_seq, max_sampleiv is the last of them, the count of elements is exact
\* and within the limit, and every chain is in order.
THEOREM TreeIsExact == Spec => []TreeExact
<1>1. RInv => TreeExact BY Zenon, TreeHolds
<1> QED BY <1>1, Inductive, PTL

\* nn_reorder_nackmap asks for what is missing and for the sample needed next.
THEOREM NackmapIsExact == Spec => []NackmapExact
<1>1. RInv => NackmapExact BY Zenon, NackmapHolds
<1> QED BY <1>1, Inductive, PTL

\* delete_last_sample gives up samples only in favour of earlier ones.
THEOREM LowestPreferred == Spec => PreferLowest
<1>1. ASSUME RInv, Next
      PROVE  \A s \in Stored(reorder) \ Stored(reorder') :
               (\E x \in DOMAIN delivered' : delivered'[x] = s) \/ \A t \in Stored(reorder') : t < s
  <2>1. delivered \in Seq(0..MaxSeq) BY Zenon, <1>1 DEF RInv
  <2>2. PICK tight \in BOOLEAN : Outcome(reorder, reorder', delivered, delivered', declared', tight)
    BY Zenon, <1>1, NextStep
  <2> QED BY Zenon, <2>1, <2>2, GivenUp
<1>2. RInv /\ [Next]_vars =>
        [\A s \in Stored(reorder) \ Stored(reorder') :
           \/ \E x \in DOMAIN delivered' : delivered'[x] = s
           \/ \A t \in Stored(reorder') : t < s]_vars
  BY Zenon, <1>1
<1> QED BY <1>2, Inductive, PTL DEF Spec, PreferLowest

---------------------------------------------------------------------------
(* Delivery in order, when eviction and gaps do not meet.                  *)

\* Either the buffers have room for every sample, or the gaps start at 1, as
\* those of a heartbeat do, and are never stored.
Sized == \A b \in Buffers : b.max_samples >= MaxSeq \/ GapMins(b.max_samples) \subseteq {1}

\* In a buffer that may evict, the chains consist of consecutive samples:
\* delete_last_sample can then shorten the interval by one.
BInv ==
  /\ \A i \in reorder.sampleivtree : Backed(i, declared)
  /\ reorder.max_samples >= MaxSeq \/ \A i \in reorder.sampleivtree : Tight(i)

\* No operation changes the limit or the mode.
LEMMA SameLimit ==
  ASSUME NEW r, NEW q, NEW d, NEW e, NEW D, NEW tight \in BOOLEAN, Outcome(r, q, d, e, D, tight)
  PROVE  q.max_samples = r.max_samples /\ q.mode = r.mode
BY Zenon DEF Outcome, SameButTree, SameMode

\* What is backed stays so when more is declared.
LEMMA BackedMore ==
  ASSUME NEW S, NEW D, NEW E, D \subseteq E, \A i \in S : Backed(i, D)
  PROVE  \A i \in S : Backed(i, E)
BY Zenon DEF Backed

\* Every step keeps intervals backed.
LEMMA BackedStep ==
    Sized /\ RInv /\ BInv /\ Next
    => BInv'
<1>StoresTight. ASSUME NEW r, NEW q, NEW D, Stores(r, q, D, TRUE), \A i \in r.sampleivtree : Tight(i)
                PROVE  \A i \in q.sampleivtree : Tight(i)
  <2> USE <1>StoresTight
  <2>1. PICK T : T = r.sampleivtree BY Zenon
  <2>2. PICK R, w : /\ Fits(r, R, w) /\ Adds(R, w, D, TRUE)
                    /\ q.sampleivtree = With(T, R, w) \/ LeftOf(With(T, R, w), q.sampleivtree)
    BY Zenon, <2>1 DEF Stores
  <2>3. R \subseteq T BY Zenon, <2>1, <2>2 DEF Fits
  <2>4. Tight(w) BY Zenon, <2>1, <2>2, <2>3 DEF Adds
  <2>5. \A i \in With(T, R, w) : Tight(i) BY Zenon, <2>1, <2>4 DEF With
  <2> QED BY Zenon, <2>2, <2>5 DEF LeftOf
<1>StoresBacked.
     ASSUME NEW r, NEW q, NEW D, NEW tight \in BOOLEAN, Stores(r, q, D, tight), r.n_samples < r.max_samples,
            \A i \in r.sampleivtree : Backed(i, D)
     PROVE  \A i \in q.sampleivtree : Backed(i, D)
  <2> USE <1>StoresBacked
  <2>1. PICK T : T = r.sampleivtree BY Zenon
  <2>2. PICK R, w : Fits(r, R, w) /\ Adds(R, w, D, tight) /\ q.sampleivtree = With(T, R, w)
    BY Zenon, <2>1 DEF Stores
  <2>3. R \subseteq T BY Zenon, <2>1, <2>2 DEF Fits
  <2>4. Backed(w, D) BY Zenon, <2>1, <2>2, <2>3 DEF Adds
  <2> QED BY Zenon, <2>1, <2>2, <2>4 DEF With
\* A buffer for all samples is never full: sample 1 is never stored.
<1>NeverFull. ASSUME NEW r, BufferOK(r), r.max_samples >= MaxSeq
              PROVE  r.n_samples < r.max_samples
  <2> USE <1>NeverFull
  <2>1. PICK T : T = r.sampleivtree BY Zenon
  <2>2. IvsOK(T) /\ r.n_samples = Count(T) /\ \A i \in T : r.next_seq < i.min BY Zenon, <2>1 DEF BufferOK
  <2>3. r.max_samples \in Nat /\ r.next_seq \in Nat /\ r.next_seq > 0 BY Zenon, Buffer
  <2>4. 2 \in Nat /\ MaxSeq + 1 \in Nat /\ 2 <= MaxSeq + 1 BY MaxSeqNat
  <2>5. \A i \in T : 2 <= i.min /\ i.maxp1 <= MaxSeq + 1
    <3> SUFFICES ASSUME NEW i \in T PROVE 2 <= i.min /\ i.maxp1 <= MaxSeq + 1 BY Zenon
    <3>1. i.min \in Nat /\ i.maxp1 <= MaxSeq + 1 BY Zenon, <2>2, IvFields DEF IvsOK
    <3>2. r.next_seq < i.min BY Zenon, <2>2
    <3>3. 2 <= i.min BY ONLY <2>3, <3>1, <3>2
    <3> QED BY Zenon, <3>1, <3>3
  <2>6. Count(T) \in Nat /\ Count(T) <= (MaxSeq + 1) - 2 BY Zenon, <2>2, <2>4, <2>5, CountWithin
  <2> QED BY ONLY <2>2, <2>3, <2>6, MaxSeqNat, r.max_samples >= MaxSeq
<1>OutcomeBacked.
     ASSUME NEW r, BufferOK(r), r.max_samples >= MaxSeq, NEW q, NEW d, NEW e, NEW D, NEW tight \in BOOLEAN,
            Outcome(r, q, d, e, D, tight), \A i \in r.sampleivtree : Backed(i, D)
     PROVE  \A i \in q.sampleivtree : Backed(i, D)
  <2> USE <1>OutcomeBacked
  <2>1. CASE q = r BY Zenon, <2>1
  <2>2. CASE Stores(r, q, D, tight) BY Zenon, <2>2, <1>NeverFull, <1>StoresBacked
  <2>3. CASE Coalesces(r, q, D)
    <3>1. PICK R, w : q.sampleivtree = With(r.sampleivtree, R, w) /\ Backed(w, D) BY Zenon, <2>3 DEF Coalesces
    <3> QED BY Zenon, <3>1 DEF With
  <2>4. CASE \E c : Delivers(r, q, c, D)
    <3>1. q.sampleivtree \subseteq r.sampleivtree BY Zenon, <2>4 DEF Delivers
    <3> QED BY Zenon, <3>1
  <2> QED BY Zenon, <2>1, <2>2, <2>3, <2>4 DEF Outcome
<1>OutcomeTight.
     ASSUME NEW r, NEW q, NEW d, NEW e, NEW D, Outcome(r, q, d, e, D, TRUE), \A i \in r.sampleivtree : Tight(i)
     PROVE  \A i \in q.sampleivtree : Tight(i)
  <2> USE <1>OutcomeTight
  <2>1. CASE q = r BY Zenon, <2>1
  <2>2. CASE Stores(r, q, D, TRUE) BY Zenon, <2>2, <1>StoresTight
  <2>3. CASE \E c : Delivers(r, q, c, D)
    <3>1. q.sampleivtree \subseteq r.sampleivtree BY Zenon, <2>3 DEF Delivers
    <3> QED BY Zenon, <3>1
  <2> QED BY Zenon, <2>1, <2>2, <2>3 DEF Outcome
<1>Main. ASSUME Sized, RInv, BInv, Next
         PROVE  BInv'
  <2> USE <1>Main
  <2>1. BufferOK(reorder) BY Zenon DEF RInv
  <2>2. RInv' /\ declared \subseteq declared' BY Zenon, NextStep
  <2>3. BufferOK(reorder') BY Zenon, <2>2 DEF RInv
  <2>4. PICK tight \in BOOLEAN :
          /\ Outcome(reorder, reorder', delivered, delivered', declared', tight)
          /\ ~tight => \E min \in GapMins(reorder.max_samples) : ~(min <= reorder.next_seq)
    BY Zenon, NextStep
  <2>5. reorder'.max_samples = reorder.max_samples BY Zenon, <2>4, SameLimit
  <2>6. CASE reorder.max_samples >= MaxSeq
    <3>1. \A i \in reorder.sampleivtree : Backed(i, declared') BY Zenon, <2>2, BackedMore DEF BInv
    <3>2. \A i \in reorder'.sampleivtree : Backed(i, declared') BY <2>1, <2>4, <2>6, <3>1, <1>OutcomeBacked
    <3> QED BY Zenon, <2>5, <2>6, <3>2 DEF BInv
  <2>7. CASE ~(reorder.max_samples >= MaxSeq)
    <3>1. PICK b \in Buffers : b.max_samples = reorder.max_samples BY Zenon, <2>1 DEF BufferOK
    <3>2. GapMins(reorder.max_samples) \subseteq {1} BY Zenon, <2>7, <3>1 DEF Sized
    <3>3. 1 <= reorder.next_seq
      <4>1. reorder.next_seq \in Nat /\ reorder.next_seq > 0 BY Zenon, <2>1, Buffer
      <4> QED BY ONLY <4>1
    <3>4. Outcome(reorder, reorder', delivered, delivered', declared', TRUE) BY Zenon, <2>4, <3>2, <3>3
    <3>5. \A i \in reorder.sampleivtree : Tight(i) BY Zenon, <2>7 DEF BInv
    <3>6. \A i \in reorder'.sampleivtree : Tight(i) BY Zenon, <3>4, <3>5, <1>OutcomeTight
    <3>7. \A i \in reorder'.sampleivtree : IvOK(i) BY Zenon, <2>3 DEF BufferOK, IvsOK
    <3>8. \A i \in reorder'.sampleivtree : Backed(i, declared') BY Zenon, <3>6, <3>7, TightBacked
    <3> QED BY Zenon, <3>6, <3>8 DEF BInv
  <2> QED BY Zenon, <2>6, <2>7
<1> QED BY Zenon, <1>Main

\* Intervals are backed, and tight where samples may be evicted, in every state.
LEMMA BackedInductive == Sized => (Spec => []BInv)
<1> SUFFICES ASSUME Sized PROVE Spec => []BInv BY Zenon
<1>1. Init => BInv
  <2> SUFFICES ASSUME Init PROVE BInv BY Zenon
  <2>1. PICK b \in Buffers : reorder = nn_reorder_new(b) BY Zenon DEF Init
  <2>2. reorder.sampleivtree = {} BY Zenon, <2>1 DEF nn_reorder_new
  <2> QED BY Zenon, <2>2 DEF BInv
<1>2. RInv /\ BInv /\ [Next]_vars => BInv'
  <2>1. CASE UNCHANGED vars BY Zenon, <2>1 DEF vars, BInv
  <2>2. ASSUME RInv, BInv, Next PROVE BInv' BY Zenon, <2>2, BackedStep
  <2> QED BY Zenon, <2>1, <2>2
<1> QED BY <1>1, <1>2, Inductive, PTL DEF Spec

\* When eviction and gaps do not meet, an interval stands for samples in its
\* chain and for samples the writer declared unavailable.
THEOREM AllBacked == Sized => (Spec => []IntervalsBacked)
<1> SUFFICES ASSUME Sized PROVE Spec => []IntervalsBacked BY Zenon
<1>1. BInv => IntervalsBacked
  <2> SUFFICES ASSUME BInv PROVE IntervalsBacked BY Zenon
  <2>1. \A i \in reorder.sampleivtree : \A s \in i.min..(i.maxp1 - 1) : s \in declared \/ s \in Rng(i.sc)
    BY Zenon DEF BInv, Backed
  <2> QED BY Zenon, <2>1 DEF IntervalsBacked, Rng
<1> QED BY <1>1, BackedInductive, PTL

---------------------------------------------------------------------------
(* The refinement of InOrderDelivery. *)

\* A chain handed over is the new part of what has been delivered.
Handed(d, e, lo, hi) ==
  LET new == (DOMAIN e) \ (DOMAIN d)
  IN  /\ d = SubSeq(e, 1, Len(d))
      /\ \A x \in new : e[x] # 0 => /\ e[x] \in lo..(hi - 1)
                                    /\ \A y \in new : x < y /\ e[y] # 0 => e[x] < e[y]

\* The chain c is what e has more than d.
AddsChain(d, c, e) == d \in Seq(0..MaxSeq) /\ c \in Seq(0..MaxSeq) /\ e = d \o c

\* Then the new places of e are those of c, n further.
PlacesOf(d, c, e, n) ==
  /\ d = SubSeq(e, 1, n) /\ (DOMAIN e) \ (DOMAIN d) = (n + 1)..(n + Len(c))
  /\ \A x \in (n + 1)..(n + Len(c)) : e[x] = c[x - n] /\ x - n \in 1..Len(c) /\ e[x] \in Nat /\ x \in Nat

\* What the promise is about: the chain is in order and, if it is reliable,
\* complete but for what is not available.
Promised(r, q, c, D) ==
  /\ r.mode # "ALWAYS_DELIVER" => r.next_seq <= q.next_seq /\ InOrder(c, r.next_seq, q.next_seq)
  /\ r.mode = "NORMAL" /\ (\A i \in r.sampleivtree : Backed(i, D)) =>
       \A v \in r.next_seq..(q.next_seq - 1) : v \in D \/ v \in Rng(c)

\* A step of the buffer is a step of the abstract specification.
LEMMA StepRefines ==
    RInv /\ BInv /\ Next
    => IOD!Next
<1>LenDomain. ASSUME NEW V, NEW s \in Seq(V)
              PROVE  DOMAIN s = 1..Len(s)
  BY <1>LenDomain
<1>NewPart. ASSUME NEW d, NEW c, NEW e, AddsChain(d, c, e)
            PROVE  PlacesOf(d, c, e, Len(d))
  <2> USE <1>NewPart
  <2>0. d \in Seq(0..MaxSeq) /\ c \in Seq(0..MaxSeq) /\ e = d \o c BY Zenon DEF AddsChain
  <2>1. /\ e \in Seq(0..MaxSeq) /\ Len(d) \in Nat /\ Len(c) \in Nat /\ Len(e) = Len(d) + Len(c)
        /\ \A x \in 1..Len(d) : e[x] = d[x]
        /\ \A x \in (Len(d) + 1)..(Len(d) + Len(c)) : e[x] = c[x - Len(d)]
    BY Zenon, <2>0, Cat
  <2>2. DOMAIN e = 1..Len(e) /\ DOMAIN d = 1..Len(d) BY Zenon, <2>0, <2>1, <1>LenDomain
  <2>3. (DOMAIN e) \ (DOMAIN d) = (Len(d) + 1)..(Len(d) + Len(c)) BY ONLY <2>1, <2>2
  <2>4. d = SubSeq(e, 1, Len(d))
    <3>1. Len(d) \in 0..Len(e) BY ONLY <2>1
    <3>2. PICK p : p = SubSeq(e, 1, Len(d)) BY Zenon
    <3>3. p \in Seq(0..MaxSeq) /\ Len(p) = Len(d) /\ \A x \in 1..Len(d) : p[x] = e[x]
      BY Zenon, <2>1, <3>1, <3>2, Prefix
    <3>4. \A x \in 1..Len(d) : p[x] = d[x] BY Zenon, <2>1, <3>3
    <3>5. p = d BY ONLY <2>0, <3>3, <3>4
    <3> QED BY Zenon, <3>2, <3>5
  <2>5. ASSUME NEW x \in (Len(d) + 1)..(Len(d) + Len(c))
        PROVE  e[x] = c[x - Len(d)] /\ x - Len(d) \in 1..Len(c) /\ e[x] \in Nat /\ x \in Nat
    <3>1. x - Len(d) \in 1..Len(c) /\ x \in Nat BY ONLY <2>1, <2>5
    <3>2. e[x] = c[x - Len(d)] BY Zenon, <2>1
    <3>3. c[x - Len(d)] \in 0..MaxSeq BY Zenon, <2>0, <3>1, SeqElt
    <3>4. e[x] \in Nat BY ONLY <3>2, <3>3, MaxSeqNat
    <3> QED BY Zenon, <3>1, <3>2, <3>4
  <2> QED BY Zenon, <2>3, <2>4, <2>5 DEF PlacesOf
<1>HandedOver.
     ASSUME NEW d, NEW c, NEW e, AddsChain(d, c, e), NEW lo \in Nat, NEW hi \in Nat, InOrder(c, lo, hi)
     PROVE  Handed(d, e, lo, hi)
  <2> USE <1>HandedOver
  <2>1. PICK new : new = (DOMAIN e) \ (DOMAIN d) BY Zenon
  <2>2. PICK n : n = Len(d) BY Zenon
  <2>3. n \in Nat BY <2>2 DEF AddsChain
  <2>4. /\ d = SubSeq(e, 1, n)
        /\ \A x \in new : e[x] = c[x - n] /\ x - n \in 1..Len(c) /\ e[x] \in Nat /\ x \in Nat
    <3>1. PlacesOf(d, c, e, n) BY Zenon, <2>2, <1>NewPart
    <3> QED BY Zenon, <2>1, <3>1 DEF PlacesOf
  <2>5. ASSUME NEW x \in new, e[x] # 0 PROVE e[x] \in lo..(hi - 1)
    <3>1. e[x] = c[x - n] /\ x - n \in 1..Len(c) /\ e[x] \in Nat BY Zenon, <2>4
    <3>2. lo <= e[x] /\ e[x] < hi BY Zenon, <2>5, <3>1 DEF InOrder
    <3> QED BY ONLY <3>1, <3>2, lo \in Nat, hi \in Nat
  <2>6. ASSUME NEW x \in new, NEW y \in new, e[x] # 0, x < y, e[y] # 0 PROVE e[x] < e[y]
    <3>1. e[x] = c[x - n] /\ x - n \in 1..Len(c) /\ x \in Nat BY Zenon, <2>4
    <3>2. e[y] = c[y - n] /\ y - n \in 1..Len(c) /\ y \in Nat BY Zenon, <2>4
    <3>3. x - n < y - n BY ONLY <2>3, <2>6, <3>1, <3>2
    <3>4. c[x - n] # 0 /\ c[y - n] # 0 BY Zenon, <2>6, <3>1, <3>2
    <3>5. c[x - n] < c[y - n] BY Zenon, <3>1, <3>2, <3>3, <3>4 DEF InOrder
    <3> QED BY Zenon, <3>1, <3>2, <3>5
  <2> QED BY Zenon, <2>1, <2>2, <2>4, <2>5, <2>6 DEF Handed
<1>HandedAll. ASSUME NEW d, NEW c, NEW e, AddsChain(d, c, e), NEW v \in Rng(c)
              PROVE  \E x \in (DOMAIN e) \ (DOMAIN d) : e[x] = v
  <2> USE <1>HandedAll
  <2>1. PICK n : n = Len(d) BY Zenon
  <2>2. PICK y \in DOMAIN c : v = c[y] BY Zenon DEF Rng
  <2>3. n \in Nat /\ Len(c) \in Nat /\ DOMAIN c = 1..Len(c) BY <2>1 DEF AddsChain
  <2>4. PICK x : x = n + y BY Zenon
  <2>5. x \in (n + 1)..(n + Len(c)) /\ x - n = y BY ONLY <2>2, <2>3, <2>4
  <2>6. PlacesOf(d, c, e, n) BY Zenon, <2>1, <1>NewPart
  <2>7. (DOMAIN e) \ (DOMAIN d) = (n + 1)..(n + Len(c)) /\ e[x] = c[x - n] BY Zenon, <2>5, <2>6 DEF PlacesOf
  <2> QED BY Zenon, <2>2, <2>5, <2>7
\* Every outcome extends what has been delivered.
<1>Extends. ASSUME NEW r, BufferOK(r), NEW q, NEW d \in Seq(0..MaxSeq), NEW e, NEW D, NEW tight \in BOOLEAN,
                   Outcome(r, q, d, e, D, tight)
            PROVE  \E c : AddsChain(d, c, e) /\ Promised(r, q, c, D)
  <2> USE <1>Extends
  <2>1. CASE e = d /\ q.next_seq = r.next_seq
    <3>1. PICK c : c = << >> BY Zenon
    <3>2. c \in Seq(0..MaxSeq) /\ e = d \o c /\ Len(c) = 0 BY Zenon, <2>1, <3>1, NothingMore
    <3>3. r.next_seq \in Nat BY Zenon, Buffer
    <3>4. r.next_seq <= q.next_seq /\ r.next_seq..(q.next_seq - 1) = {} BY ONLY <2>1, <3>3
    <3>5. 1..Len(c) = {} BY ONLY <3>2
    <3>6. InOrder(c, r.next_seq, q.next_seq) BY Zenon, <3>5 DEF InOrder
    <3> QED BY Zenon, <3>2, <3>4, <3>6 DEF AddsChain, Promised
  <2>2. CASE \E c : e = d \o c /\ Delivers(r, q, c, D)
    <3>1. PICK c : e = d \o c /\ Delivers(r, q, c, D) BY Zenon, <2>2
    <3> QED BY Zenon, <3>1 DEF Delivers, AddsChain, Promised
  <2> QED BY Zenon, <2>1, <2>2 DEF Outcome, SameButTree
<1>Main. ASSUME RInv, BInv, Next
         PROVE  IOD!Next
  <2> USE <1>Main
  <2>1. BufferOK(reorder) /\ delivered \in Seq(0..MaxSeq) BY Zenon DEF RInv
  <2>2. RInv' /\ declared \subseteq declared' BY Zenon, NextStep
  <2>3. BufferOK(reorder') BY Zenon, <2>2 DEF RInv
  <2>4. PICK tight \in BOOLEAN : Outcome(reorder, reorder', delivered, delivered', declared', tight)
    BY Zenon, NextStep
  <2>5. reorder'.mode = reorder.mode BY Zenon, <2>4, SameLimit
  <2>6. Promise' = Promise BY Zenon, <2>5 DEF Promise
  <2>7. reorder.next_seq \in Nat /\ reorder'.next_seq \in Nat BY Zenon, <2>1, <2>3, Buffer
  <2>8. PICK c : AddsChain(delivered, c, delivered') /\ Promised(reorder, reorder', c, declared')
    BY Zenon, <2>1, <2>4, <1>Extends
  <2>9. ASSUME Promise # "none"
        PROVE  /\ reorder'.next_seq >= reorder.next_seq
               /\ Handed(delivered, delivered', reorder.next_seq, reorder'.next_seq)
    <3>1. reorder.mode # "ALWAYS_DELIVER" BY Zenon, <2>9 DEF Promise
    <3>2. reorder.next_seq <= reorder'.next_seq /\ InOrder(c, reorder.next_seq, reorder'.next_seq)
      BY Zenon, <2>8, <3>1 DEF Promised
    <3>3. reorder'.next_seq >= reorder.next_seq BY ONLY Zenon, <2>7, <3>2
    <3>4. Handed(delivered, delivered', reorder.next_seq, reorder'.next_seq)
      BY Zenon, <2>7, <2>8, <3>2, <1>HandedOver
    <3> QED BY Zenon, <3>3, <3>4
  <2>10. ASSUME Promise = "reliable", NEW s \in reorder.next_seq..(reorder'.next_seq - 1)
         PROVE  s \in declared' \/ \E x \in (DOMAIN delivered') \ (DOMAIN delivered) : delivered'[x] = s
    <3>1. reorder.mode = "NORMAL" BY Zenon, <2>10 DEF Promise
    <3>2. \A i \in reorder.sampleivtree : Backed(i, declared') BY Zenon, <2>2, BackedMore DEF BInv
    <3>3. s \in declared' \/ s \in Rng(c) BY Zenon, <2>8, <3>1, <3>2 DEF Promised
    <3>4. ASSUME s \in Rng(c) PROVE \E x \in (DOMAIN delivered') \ (DOMAIN delivered) : delivered'[x] = s
      BY <2>8, <3>4, <1>HandedAll
    <3> QED BY Zenon, <3>3, <3>4
  <2>11. Promise # "none" => IOD!Deliver
    BY Zenon, <2>9, <2>10 DEF IOD!Deliver, IOD!New, Handed
  <2> QED BY Zenon, <2>2, <2>6, <2>9, <2>11 DEF IOD!Next
<1> QED BY Zenon, <1>Main

\* When eviction and gaps do not meet, the buffer delivers in order and once,
\* and skips in reliable mode only what the writer declared unavailable.
THEOREM DeliversInOrder == Sized => (Spec => ImplementsInOrderDelivery)
<1> SUFFICES ASSUME Sized PROVE Spec => ImplementsInOrderDelivery BY Zenon
<1>1. Init => IOD!Init
  <2> SUFFICES ASSUME Init PROVE IOD!Init BY Zenon
  <2>1. PICK b \in Buffers : reorder = nn_reorder_new(b) BY Zenon DEF Init
  <2>2. reorder.next_seq = 1 BY Zenon, <2>1 DEF nn_reorder_new
  <2> QED BY Zenon, <2>2 DEF Init, IOD!Init
<1>2. RInv /\ BInv /\ [Next]_vars => [IOD!Next]_<<reorder.next_seq, delivered, declared, Promise>>
  <2>1. CASE UNCHANGED vars BY Zenon, <2>1 DEF vars, Promise
  <2>2. ASSUME RInv, BInv, Next PROVE IOD!Next BY Zenon, <2>2, StepRefines
  <2> QED BY Zenon, <2>1, <2>2
<1>3. Spec => []RInv /\ []BInv BY Inductive, BackedInductive, PTL
<1> QED BY <1>1, <1>2, <1>3, PTL DEF Spec, ImplementsInOrderDelivery, IOD!Spec
==============================================================================
