------------------------- MODULE ProxyWriterProofs -------------------------
(***************************************************************************)
(* The proxy writer for any readers, any writer and any defragmenter.      *)
(*                                                                         *)
(* First the reorder buffers of the proxy writer and of its readers: what  *)
(* becomes of them when a sample is complete, at a gap and at a heartbeat. *)
(* AcknowledgedIsQueued speaks of the buffer a reader acknowledges from.   *)
(* It is kept when the reader changes from its own buffer to the shared    *)
(* one because what the shared one passed on since the reader was matched  *)
(* is in the queue for it as well (Caught), and it is kept when a buffer   *)
(* moves on because the gaps it holds are samples that the writer no       *)
(* longer has.                                                             *)
(*                                                                         *)
(* Then the invariant, which is of these buffers and of the defragmenter,  *)
(* the actions that keep it, and what follows from it.                     *)
(***************************************************************************)
EXTENDS ProxyWriter, DefragProofs

ReorderRec == [next_seq : Nat, samples : SUBSET Nat, gaps : SUBSET Nat]
MatchRec ==
  [in_sync : {"UNMATCHED", "SYNC", "TLCATCHUP", "OUT_OF_SYNC"}, end_of_tl_seq : Nat,
   end_of_out_of_sync_seq : Nat, reorder : ReorderRec]
ViewRec == [m : MatchRec, queued : SUBSET Nat, ahead : SUBSET Nat]

\* A reorder buffer of samples up to n: what is held lies beyond next_seq.
ReorderOK(ro, n) ==
  /\ ro \in ReorderRec
  /\ ro.next_seq \in 1..(n + 1)
  /\ Held(ro) \subseteq (ro.next_seq + 1)..n

\* Of reader m with q in the queue for it, when the shared buffer is at next
\* and g is what the writer no longer has: all that was passed by is accounted
\* for, in the reader's buffer and, since it was matched, in the shared one.
Caught(m, q, next, g) ==
  /\ m.in_sync = "OUT_OF_SYNC" =>
       /\ m.reorder.gaps \subseteq g
       /\ 1..(m.reorder.next_seq - 1) \subseteq q \cup g
       /\ (m.end_of_out_of_sync_seq + 1)..(next - 1) \subseteq q \cup g
  /\ m.in_sync \in {"SYNC", "TLCATCHUP"} => 1..(next - 1) \subseteq q \cup g

ReadersOK ==
  /\ readers \in [Reader -> MatchRec]
  /\ queued \in [Reader -> SUBSET (1..seq)] /\ ahead \in [Reader -> SUBSET Nat]
  /\ \A r \in Reader : ReorderOK(readers[r].reorder, seq)
  /\ setup.reliable => \A r \in TLReader : Caught(readers[r], queued[r], reorder.next_seq, gone)

\* What is known of the remote writer.
Known ==
  /\ setup \in Setups
  /\ seq \in 0..setup.max_seq /\ gone \subseteq 1..seq
  /\ last_seq \in 0..seq /\ last_fragnum \in (0..(NFrags - 1)) \cup {ALL_FRAGS}
  /\ last_fragnum_reset \in BOOLEAN /\ (last_fragnum_reset => last_fragnum # ALL_FRAGS)

\* Of the shared buffer.
SharedOK == ReorderOK(reorder, seq) /\ (setup.reliable => reorder.gaps \subseteq gone)

---------------------------------------------------------------------------
(* The reorder administration. *)

\* A set of natural numbers that is not empty has a least one.
LEMMA LeastOf ==
  ASSUME NEW S \in SUBSET Nat, S # {}
  PROVE  Min(S) \in S /\ \A y \in S : Min(S) <= y
<1>1. PICK x \in S : \A y \in S : ~(<<y, x>> \in OpToRel(<, Nat))
  BY Zenon, NatLessThanWellFounded, WFMin
<1>2. \A y \in S : x <= y
  <2> TAKE y \in S
  <2>1. <<y, x>> \in OpToRel(<, Nat) <=> y < x BY Zenon DEF OpToRel
  <2>2. ~(y < x) BY Zenon, <1>1, <2>1
  <2> QED BY ONLY <2>2, S \in SUBSET Nat, y \in S, x \in S
<1> QED BY Zenon, <1>2 DEF Min

\* A buffer with something new in it, perhaps at next_seq.
Unsettled(ro, n) ==
  /\ ro \in ReorderRec
  /\ ro.next_seq \in 1..(n + 1)
  /\ Held(ro) \subseteq ro.next_seq..n

\* Settle moves next_seq to the first sample that is not held, and what it
\* passes by is delivered or is a gap.
LEMMA SettleMoves ==
  ASSUME NEW n \in Nat, n < MAX_SEQ_NUMBER, MAX_SEQ_NUMBER \in Nat, NEW ro, Unsettled(ro, n)
  PROVE  /\ ReorderOK(Settle(ro), n)
         /\ Settle(ro).next_seq >= ro.next_seq
         /\ \A k \in Nat : ro.next_seq..k \subseteq Held(ro) => Settle(ro).next_seq > k
         /\ Settle(ro).samples \subseteq ro.samples
         /\ Settle(ro).gaps = {s \in ro.gaps : s >= Settle(ro).next_seq}
         /\ ro.next_seq..(Settle(ro).next_seq - 1) \subseteq Delivered(ro, Settle(ro)) \cup ro.gaps
<1>1. /\ ro.next_seq \in Nat /\ ro.next_seq >= 1 /\ ro.next_seq <= n + 1
      /\ ro.samples \subseteq Nat /\ ro.gaps \subseteq Nat
      /\ \A x \in Held(ro) : x \in ro.next_seq..n
  BY DEF Unsettled, ReorderRec
<1>2. PICK S \in SUBSET Nat : S = (ro.next_seq..(MAX_SEQ_NUMBER + 1)) \ Held(ro)
  <2>1. \A x \in ro.next_seq..(MAX_SEQ_NUMBER + 1) : x \in Nat BY <1>1
  <2>2. ((ro.next_seq..(MAX_SEQ_NUMBER + 1)) \ Held(ro)) \in SUBSET Nat BY Zenon, <2>1
  <2> QED BY Zenon, <2>2
<1>3. n + 1 \in S BY <1>1, <1>2
<1>4. PICK m \in Nat : m = Min(S) /\ m \in S /\ \A y \in S : m <= y
  <2>1. Min(S) \in S /\ \A y \in S : Min(S) <= y BY Zenon, <1>3, LeastOf
  <2> QED BY Zenon, <2>1
<1>5. Settle(ro) = [next_seq |-> m, samples |-> {s \in ro.samples : s >= m}, gaps |-> {s \in ro.gaps : s >= m}]
  BY Zenon, <1>2, <1>4 DEF Settle
<1>6. m >= ro.next_seq /\ m <= n + 1 /\ m \notin Held(ro) BY <1>1, <1>2, <1>3, <1>4
<1>7. \A x \in ro.next_seq..(m - 1) : x \in Held(ro)
  <2> TAKE x \in ro.next_seq..(m - 1)
  <2>1. x \notin S /\ x \in ro.next_seq..(MAX_SEQ_NUMBER + 1) BY <1>1, <1>4, <1>6
  <2> QED BY Zenon, <1>2, <2>1
<1>8. ReorderOK(Settle(ro), n)
  <2>1. Settle(ro) \in ReorderRec BY <1>1, <1>5 DEF ReorderRec
  <2>2. Settle(ro).next_seq \in 1..(n + 1) BY <1>1, <1>5, <1>6
  <2>3. Held(Settle(ro)) \subseteq (m + 1)..n
    <3> SUFFICES ASSUME NEW x \in Held(Settle(ro)) PROVE x \in (m + 1)..n BY Zenon
    <3>1. x \in Held(ro) /\ x >= m BY <1>5 DEF Held
    <3> QED BY <1>1, <1>6, <3>1
  <2> QED BY <1>5, <2>1, <2>2, <2>3 DEF ReorderOK
<1>9. ASSUME NEW k \in Nat, ro.next_seq..k \subseteq Held(ro) PROVE m > k
  <2>1. SUFFICES ASSUME m <= k PROVE FALSE OBVIOUS
  <2>2. m \in ro.next_seq..k BY <1>1, <1>6, <2>1
  <2> QED BY Zenon, <1>6, <1>9, <2>2
<1>10. ro.next_seq..(m - 1) \subseteq Delivered(ro, Settle(ro)) \cup ro.gaps
  <2> SUFFICES ASSUME NEW x \in ro.next_seq..(m - 1)
               PROVE  x \in Delivered(ro, Settle(ro)) \cup ro.gaps
    BY Zenon
  <2>1. x \in ro.samples \cup ro.gaps /\ x < m BY <1>1, <1>7 DEF Held
  <2> QED BY <1>5, <2>1 DEF Delivered
<1> QED BY <1>5, <1>6, <1>8, <1>9, <1>10

\* nn_reorder_rsample: next_seq does not go back; a reliable buffer passes by
\* only what it delivers or knows as a gap, and learns of no gap.
LEMMA RsampleMoves ==
  ASSUME NEW n \in Nat, n < MAX_SEQ_NUMBER, MAX_SEQ_NUMBER \in Nat, NEW ro, ReorderOK(ro, n),
         NEW s \in 1..n, NEW mode, NEW full,
         NEW o, o = nn_reorder_rsample(ro, s, mode, full)
  PROVE  /\ ReorderOK(o.reorder, n)
         /\ o.reorder.next_seq >= ro.next_seq
         /\ o.out \subseteq 1..n
         /\ o.res \in {"TOO_OLD", "REJECT", "DELIVER", "ACCEPT"}
         /\ o.res # "DELIVER" => o.reorder.next_seq = ro.next_seq
         /\ o.res = "ACCEPT" => /\ s \in o.reorder.samples /\ o.reorder.gaps = ro.gaps
                                /\ s > ro.next_seq /\ mode # "MONOTONICALLY_INCREASING"
         /\ mode = "NORMAL" => /\ o.reorder.gaps \subseteq ro.gaps
                               /\ ro.next_seq..(o.reorder.next_seq - 1) \subseteq o.out \cup ro.gaps
<1>1. /\ ro \in ReorderRec /\ ro.next_seq \in Nat /\ ro.samples \subseteq Nat /\ ro.gaps \subseteq Nat
      /\ ro.next_seq \in 1..(n + 1) /\ s \in Nat
      /\ \A x \in Held(ro) : x \in (ro.next_seq + 1)..n
  BY DEF ReorderOK, ReorderRec
<1>2. Delivered(ro, ro) = {}
  <2>1. \A x \in ro.samples : ~(x < ro.next_seq) BY <1>1 DEF Held
  <2> QED BY Zenon, <2>1 DEF Delivered
<1>3. CASE o \in {Res(ro, ro, "TOO_OLD"), Res(ro, ro, "REJECT")}
  <2>1. o.reorder = ro /\ o.out = {} /\ o.res \in {"TOO_OLD", "REJECT"} BY <1>2, <1>3 DEF Res
  <2> QED BY <1>1, <2>1
<1>4. CASE /\ s > ro.next_seq /\ mode # "MONOTONICALLY_INCREASING"
           /\ o = Res(ro, [ro EXCEPT !.samples = @ \cup {s}], "ACCEPT")
  <2>1. PICK w : w = [ro EXCEPT !.samples = @ \cup {s}] BY Zenon
  <2>2. /\ w \in ReorderRec /\ w.next_seq = ro.next_seq /\ w.samples = ro.samples \cup {s} /\ w.gaps = ro.gaps
    BY Zenon, <1>1, <2>1 DEF ReorderRec
  <2>3. o.reorder = w /\ o.res = "ACCEPT" /\ o.out = Delivered(ro, w) BY <1>4, <2>1 DEF Res
  <2>4. o.out = {} BY Zenon, <1>2, <2>2, <2>3 DEF Delivered
  <2>5. Held(w) \subseteq (w.next_seq + 1)..n
    <3>1. Held(w) = Held(ro) \cup {s} BY Zenon, <2>2 DEF Held
    <3> QED BY <1>1, <1>4, <2>2, <3>1
  <2>6. ReorderOK(w, n) BY Zenon, <1>1, <2>2, <2>5 DEF ReorderOK
  <2>7. ro.next_seq..(w.next_seq - 1) = {} BY <1>1, <2>2
  <2>8. /\ ReorderOK(o.reorder, n) /\ o.reorder.next_seq = ro.next_seq
        /\ s \in o.reorder.samples /\ o.reorder.gaps = ro.gaps
    BY Zenon, <2>2, <2>3, <2>6
  <2>9. s > ro.next_seq /\ mode # "MONOTONICALLY_INCREASING" BY Zenon, <1>4
  <2> QED BY <1>1, <2>3, <2>4, <2>7, <2>8, <2>9
<1>5. CASE \E w : /\ s >= ro.next_seq /\ (s = ro.next_seq \/ mode = "MONOTONICALLY_INCREASING")
                 /\ w = [ro EXCEPT !.samples = @ \cup {s}, !.gaps = @ \cup ro.next_seq..(s - 1)]
                 /\ o = Res(w, Settle(w), "DELIVER")
  <2>1. PICK w : /\ s >= ro.next_seq /\ (s = ro.next_seq \/ mode = "MONOTONICALLY_INCREASING")
                 /\ w = [ro EXCEPT !.samples = @ \cup {s}, !.gaps = @ \cup ro.next_seq..(s - 1)]
                 /\ o = Res(w, Settle(w), "DELIVER")
    BY Zenon, <1>5
  <2>2. \A x \in ro.next_seq..(s - 1) : x \in Nat /\ x \in ro.next_seq..n BY <1>1
  <2>3. /\ w \in ReorderRec /\ w.next_seq = ro.next_seq /\ w.samples = ro.samples \cup {s}
        /\ w.gaps = ro.gaps \cup ro.next_seq..(s - 1)
    BY Zenon, <1>1, <2>1, <2>2 DEF ReorderRec
  <2>4. Unsettled(w, n)
    <3>1. Held(w) = Held(ro) \cup {s} \cup ro.next_seq..(s - 1) BY Zenon, <2>3 DEF Held
    <3>2. \A x \in Held(w) : x \in ro.next_seq..n BY <1>1, <2>1, <2>2, <3>1
    <3> QED BY Zenon, <1>1, <2>3, <3>2 DEF Unsettled
  <2>5. PICK z : z = Settle(w) BY Zenon
  <2>6. /\ ReorderOK(z, n) /\ z.next_seq >= w.next_seq /\ z.gaps \subseteq w.gaps
        /\ w.next_seq..(z.next_seq - 1) \subseteq Delivered(w, z) \cup w.gaps
    BY Zenon, <2>4, <2>5, SettleMoves
  <2>7. o.reorder = z /\ o.out = Delivered(w, z) /\ o.res = "DELIVER" BY <2>1, <2>5 DEF Res
  <2>8. o.out \subseteq 1..n
    <3>1. \A x \in w.samples : x \in 1..n BY <1>1, <2>4 DEF Unsettled, Held
    <3> QED BY Zenon, <2>7, <3>1 DEF Delivered
  <2>9. mode = "NORMAL" => w.gaps = ro.gaps
    <3>1. mode = "NORMAL" => s = ro.next_seq BY Zenon, <2>1
    <3>2. mode = "NORMAL" => ro.next_seq..(s - 1) = {} BY <1>1, <3>1
    <3> QED BY Zenon, <2>3, <3>2
  <2> QED BY Zenon, <2>3, <2>6, <2>7, <2>8, <2>9
<1>6. \/ o \in {Res(ro, ro, "TOO_OLD"), Res(ro, ro, "REJECT")}
      \/ /\ s > ro.next_seq /\ mode # "MONOTONICALLY_INCREASING"
         /\ o = Res(ro, [ro EXCEPT !.samples = @ \cup {s}], "ACCEPT")
      \/ \E w : /\ s >= ro.next_seq /\ (s = ro.next_seq \/ mode = "MONOTONICALLY_INCREASING")
               /\ w = [ro EXCEPT !.samples = @ \cup {s}, !.gaps = @ \cup ro.next_seq..(s - 1)]
               /\ o = Res(w, Settle(w), "DELIVER")
  BY <1>1 DEF nn_reorder_rsample
<1> QED BY Zenon, <1>3, <1>4, <1>5, <1>6

\* nn_reorder_gap: the same, and the gap is what it learns of.
LEMMA GapMoves ==
  ASSUME NEW n \in Nat, n < MAX_SEQ_NUMBER, MAX_SEQ_NUMBER \in Nat, NEW ro, ReorderOK(ro, n),
         NEW min \in 1..(n + 1), NEW maxp1 \in 1..(n + 1), NEW mode,
         NEW o, o = nn_reorder_gap(ro, min, maxp1, mode)
  PROVE  /\ ReorderOK(o.reorder, n)
         /\ o.reorder.next_seq >= ro.next_seq
         /\ o.out \subseteq 1..n
         /\ o.reorder.gaps \subseteq ro.gaps \cup min..(maxp1 - 1)
         /\ ro.next_seq..(o.reorder.next_seq - 1) \subseteq o.out \cup ro.gaps \cup min..(maxp1 - 1)
         /\ mode = "NORMAL" /\ min <= ro.next_seq /\ maxp1 \in ro.samples =>
              o.reorder.gaps \subseteq ro.gaps
<1>1. /\ ro \in ReorderRec /\ ro.next_seq \in Nat /\ ro.samples \subseteq Nat /\ ro.gaps \subseteq Nat
      /\ ro.next_seq \in 1..(n + 1)
      /\ \A x \in Held(ro) : x \in (ro.next_seq + 1)..n
  BY Zenon DEF ReorderOK, ReorderRec
<1>2. CASE maxp1 <= ro.next_seq \/ mode # "NORMAL"
  <2>1. \A x \in ro.samples : ~(x < ro.next_seq) BY <1>1 DEF Held
  <2>2. o.reorder = ro /\ o.out = {} BY Zenon, <1>2, <2>1 DEF nn_reorder_gap, Res, Delivered
  <2> QED BY <1>1, <2>2
<1>3. CASE ~(maxp1 <= ro.next_seq \/ mode # "NORMAL")
  <2>1. PICK lo \in Nat : /\ lo = IF min < ro.next_seq THEN ro.next_seq ELSE min
                          /\ lo >= ro.next_seq /\ lo >= min
    BY <1>1
  <2>2. PICK w : w = [ro EXCEPT !.gaps = @ \cup (lo..(maxp1 - 1))] BY Zenon
  <2>3. \A x \in lo..(maxp1 - 1) : x \in Nat /\ x \in ro.next_seq..n /\ x \in min..(maxp1 - 1) BY <1>1, <2>1
  <2>4. /\ w \in ReorderRec /\ w.next_seq = ro.next_seq /\ w.samples = ro.samples
        /\ w.gaps = ro.gaps \cup lo..(maxp1 - 1)
    BY Zenon, <1>1, <2>2, <2>3 DEF ReorderRec
  <2>5. Unsettled(w, n)
    <3>1. Held(w) = Held(ro) \cup lo..(maxp1 - 1) BY Zenon, <2>4 DEF Held
    <3>2. \A x \in Held(w) : x \in ro.next_seq..n BY <1>1, <2>3, <3>1
    <3> QED BY Zenon, <1>1, <2>4, <3>2 DEF Unsettled
  <2>6. PICK z : z = Settle(w) BY Zenon
  <2>7. /\ ReorderOK(z, n) /\ z.next_seq >= w.next_seq
        /\ \A k \in Nat : w.next_seq..k \subseteq Held(w) => z.next_seq > k
        /\ z.gaps = {x \in w.gaps : x >= z.next_seq}
        /\ w.next_seq..(z.next_seq - 1) \subseteq Delivered(w, z) \cup w.gaps
    BY Zenon, <2>5, <2>6, SettleMoves
  <2>8. o = Res(w, z, "GAP") BY Zenon, <1>3, <2>1, <2>2, <2>6 DEF nn_reorder_gap
  <2>9. o.reorder = z /\ o.out = Delivered(w, z) BY <2>8 DEF Res
  <2>10. o.out \subseteq 1..n
    <3>1. \A x \in w.samples : x \in 1..n BY <1>1, <2>5 DEF Unsettled, Held
    <3> QED BY Zenon, <2>9, <3>1 DEF Delivered
  <2>11. ASSUME min <= ro.next_seq, maxp1 \in ro.samples PROVE z.gaps \subseteq ro.gaps
    <3>1. \A x \in w.next_seq..maxp1 : x \in Held(w)
      <4> TAKE x \in w.next_seq..maxp1
      <4>1. lo = ro.next_seq BY <1>1, <2>1, <2>11
      <4>2. x = maxp1 \/ x \in lo..(maxp1 - 1) BY <1>1, <2>4, <4>1
      <4> QED BY Zenon, <2>4, <2>11, <4>2 DEF Held
    <3>2. z.next_seq > maxp1 BY <2>7, <3>1
    <3>3. \A x \in lo..(maxp1 - 1) : ~(x >= z.next_seq)
      <4>1. z.next_seq \in Nat BY Zenon, <2>7 DEF ReorderOK, ReorderRec
      <4> QED BY <2>1, <3>2, <4>1
    <3> QED BY Zenon, <2>4, <2>7, <3>3
  <2> QED BY Zenon, <2>3, <2>4, <2>7, <2>9, <2>10, <2>11
<1> QED BY Zenon, <1>2, <1>3

---------------------------------------------------------------------------
(* One reader. *)

ViewOK(v, n) == v \in ViewRec /\ ReorderOK(v.m.reorder, n) /\ v.queued \subseteq 1..n

\* The samples min..(maxp1 - 1) are in g.
Covers(g, min, maxp1) == min..(maxp1 - 1) \subseteq g

\* The fields of views and of what views are made of.
LEMMA ViewFields ==
  /\ \A v \in ViewRec : /\ v.m \in MatchRec /\ v.queued \in SUBSET Nat /\ v.ahead \in SUBSET Nat
                        /\ v = [m |-> v.m, queued |-> v.queued, ahead |-> v.ahead]
  /\ \A m \in MatchRec : /\ m.in_sync \in {"UNMATCHED", "SYNC", "TLCATCHUP", "OUT_OF_SYNC"}
                         /\ m.end_of_tl_seq \in Nat /\ m.end_of_out_of_sync_seq \in Nat
                         /\ m.reorder \in ReorderRec
  /\ \A ro \in ReorderRec : ro.next_seq \in Nat /\ ro.samples \in SUBSET Nat /\ ro.gaps \in SUBSET Nat
<1>1. \A v \in ViewRec : /\ v.m \in MatchRec /\ v.queued \in SUBSET Nat /\ v.ahead \in SUBSET Nat
                        /\ v = [m |-> v.m, queued |-> v.queued, ahead |-> v.ahead]
  BY DEF ViewRec
<1>2. \A m \in MatchRec : /\ m.in_sync \in {"UNMATCHED", "SYNC", "TLCATCHUP", "OUT_OF_SYNC"}
                         /\ m.end_of_tl_seq \in Nat /\ m.end_of_out_of_sync_seq \in Nat
                         /\ m.reorder \in ReorderRec
  BY Zenon DEF MatchRec
<1>3. \A ro \in ReorderRec : ro.next_seq \in Nat /\ ro.samples \in SUBSET Nat /\ ro.gaps \in SUBSET Nat
  BY Zenon DEF ReorderRec
<1> QED BY Zenon, <1>1, <1>2, <1>3

\* The shared buffer moves on from next to next2, S going into the queue.
LEMMA CaughtShared ==
  ASSUME NEW m \in MatchRec, NEW q, NEW S, NEW g, NEW next \in Nat, NEW next2 \in Nat,
         Caught(m, q, next, g), Covers(S \cup g, next, next2)
  PROVE  Caught(m, q \cup S, next2, g)
<1>1. m.end_of_out_of_sync_seq \in Nat BY Zenon, ViewFields
<1>2. \A k \in Nat : k..(next - 1) \subseteq q \cup g => k..(next2 - 1) \subseteq (q \cup S) \cup g
  <2> SUFFICES ASSUME NEW k \in Nat, k..(next - 1) \subseteq q \cup g, NEW x \in k..(next2 - 1)
               PROVE  x \in (q \cup S) \cup g
    BY Zenon
  <2>1. x \in k..(next - 1) \/ x \in next..(next2 - 1) OBVIOUS
  <2> QED BY Zenon, <2>1 DEF Covers
<1> QED BY <1>1, <1>2 DEF Caught

\* The reader's own buffer moves on, S going into the queue.
LEMMA CaughtOwn ==
  ASSUME NEW m \in MatchRec, NEW q, NEW S, NEW g, NEW next \in Nat,
         Caught(m, q, next, g), m.in_sync = "OUT_OF_SYNC", NEW ro \in ReorderRec,
         ro.gaps \subseteq g, m.reorder.next_seq..(ro.next_seq - 1) \subseteq S \cup g,
         NEW w \in MatchRec, w.in_sync = "OUT_OF_SYNC", w.reorder = ro,
         w.end_of_out_of_sync_seq = m.end_of_out_of_sync_seq
  PROVE  Caught(w, q \cup S, next, g)
<1>1. m.reorder.next_seq \in Nat /\ ro.next_seq \in Nat BY Zenon, ViewFields
<1>2. 1..(m.reorder.next_seq - 1) \subseteq q \cup g BY Zenon DEF Caught
<1>3. ASSUME NEW x \in 1..(ro.next_seq - 1) PROVE x \in (q \cup S) \cup g
  <2>1. x \in 1..(m.reorder.next_seq - 1) \/ x \in m.reorder.next_seq..(ro.next_seq - 1) BY <1>1
  <2> QED BY Zenon, <1>2, <2>1
<1> QED BY Zenon, <1>3 DEF Caught

\* Enqueueing for a reader leaves its match alone.
LEMMA EnqueueFields ==
  ASSUME NEW v \in ViewRec, NEW S \in SUBSET Nat
  PROVE  /\ Enqueue(v, S) \in ViewRec /\ Enqueue(v, S).m = v.m
         /\ Enqueue(v, S).queued = v.queued \cup S
<1>1. Enqueue(v, S) = [m |-> v.m, queued |-> v.queued \cup S, ahead |-> v.ahead]
  BY DEF Enqueue, ViewRec
<1> QED BY Zenon, <1>1, ViewFields DEF ViewRec

\* A match whose reorder buffer is replaced is a match.
LEMMA WithReorder ==
  ASSUME NEW v \in ViewRec, NEW ro \in ReorderRec, NEW w, w = [v EXCEPT !.m.reorder = ro]
  PROVE  /\ w \in ViewRec /\ w.queued = v.queued /\ w.m.reorder = ro
         /\ w.m.in_sync = v.m.in_sync /\ w.m.end_of_tl_seq = v.m.end_of_tl_seq
         /\ w.m.end_of_out_of_sync_seq = v.m.end_of_out_of_sync_seq
<1>1. w = [v EXCEPT !.m = [v.m EXCEPT !.reorder = ro]] BY Zenon
<1>2. PICK m : m = [v.m EXCEPT !.reorder = ro] BY Zenon
<1>3. v.m \in MatchRec BY Zenon, ViewFields
<1>4. /\ m \in MatchRec /\ m.reorder = ro /\ m.in_sync = v.m.in_sync /\ m.end_of_tl_seq = v.m.end_of_tl_seq
      /\ m.end_of_out_of_sync_seq = v.m.end_of_out_of_sync_seq
  BY Zenon, <1>2, <1>3 DEF MatchRec
<1>5. w = [v EXCEPT !.m = m] BY Zenon, <1>1, <1>2
<1>6. w \in ViewRec /\ w.m = m /\ w.queued = v.queued BY Zenon, <1>4, <1>5 DEF ViewRec
<1> QED BY Zenon, <1>4, <1>6

\* maybe_set_reader_in_sync changes the buffer that counts only when the
\* reader's own has reached the place where the shared one took over.
LEMMA SetInSync ==
  ASSUME NEW v \in ViewRec, NEW x, NEW w, w = maybe_set_reader_in_sync(v, x)
  PROVE  /\ w \in ViewRec /\ w.queued = v.queued /\ w.m.reorder = v.m.reorder
         /\ \A q, g : \A next \in Nat : Caught(v.m, q, next, g) => Caught(w.m, q, next, g)
<1>1. /\ v.m \in MatchRec /\ v.queued \in SUBSET Nat /\ v.m.reorder.next_seq \in Nat
      /\ v.m.end_of_out_of_sync_seq \in Nat
  BY Zenon, ViewFields
<1>2. CASE w = v BY Zenon, <1>2
<1>3. ASSUME NEW l \in {"SYNC", "TLCATCHUP"}, NEW a \in SUBSET Nat,
             w = [v EXCEPT !.m.in_sync = l, !.ahead = a],
             \/ v.m.in_sync = "TLCATCHUP"
             \/ v.m.in_sync = "OUT_OF_SYNC" /\ v.m.reorder.next_seq - 1 >= v.m.end_of_out_of_sync_seq
      PROVE  /\ w \in ViewRec /\ w.queued = v.queued /\ w.m.reorder = v.m.reorder
             /\ \A q, g : \A next \in Nat : Caught(v.m, q, next, g) => Caught(w.m, q, next, g)
  <2>1. PICK m : m = [v.m EXCEPT !.in_sync = l] BY Zenon
  <2>2. m \in MatchRec /\ m.in_sync = l /\ m.reorder = v.m.reorder BY Zenon, <1>1, <2>1 DEF MatchRec
  <2>3. w = [m |-> m, queued |-> v.queued, ahead |-> a] BY Zenon, <1>3, <2>1 DEF ViewRec
  <2>4. w \in ViewRec /\ w.m = m /\ w.queued = v.queued BY <1>1, <2>2, <2>3 DEF ViewRec
  <2>5. ASSUME NEW q, NEW g, NEW next \in Nat, Caught(v.m, q, next, g)
        PROVE  1..(next - 1) \subseteq q \cup g
    <3>1. CASE v.m.in_sync = "TLCATCHUP" BY Zenon, <2>5, <3>1 DEF Caught
    <3>2. CASE v.m.in_sync = "OUT_OF_SYNC" /\ v.m.reorder.next_seq - 1 >= v.m.end_of_out_of_sync_seq
      <4>1. /\ 1..(v.m.reorder.next_seq - 1) \subseteq q \cup g
            /\ (v.m.end_of_out_of_sync_seq + 1)..(next - 1) \subseteq q \cup g
        BY Zenon, <2>5, <3>2 DEF Caught
      <4> SUFFICES ASSUME NEW y \in 1..(next - 1) PROVE y \in q \cup g BY Zenon
      <4>2. y \in 1..(v.m.reorder.next_seq - 1) \/ y \in (v.m.end_of_out_of_sync_seq + 1)..(next - 1)
        BY <1>1, <3>2
      <4> QED BY Zenon, <4>1, <4>2
    <3> QED BY Zenon, <1>3, <3>1, <3>2
  <2> QED BY Zenon, <2>2, <2>4, <2>5 DEF Caught
<1>4. v = [v EXCEPT !.ahead = v.ahead] /\ v.ahead \in SUBSET Nat BY Zenon, ViewFields DEF ViewRec
<1>5. \/ w = v
      \/ /\ \/ v.m.in_sync = "TLCATCHUP"
            \/ v.m.in_sync = "OUT_OF_SYNC" /\ v.m.reorder.next_seq - 1 >= v.m.end_of_out_of_sync_seq
         /\ \/ w = [v EXCEPT !.m.in_sync = "SYNC", !.ahead = v.queued]
            \/ w = [v EXCEPT !.m.in_sync = "TLCATCHUP"]
  BY Zenon DEF maybe_set_reader_in_sync
<1>6. [v EXCEPT !.m.in_sync = "TLCATCHUP"] = [v EXCEPT !.m.in_sync = "TLCATCHUP", !.ahead = v.ahead]
  BY Zenon, <1>4 DEF ViewRec
<1> QED BY Zenon, <1>1, <1>2, <1>3, <1>4, <1>5, <1>6

\* handle_regular, for a sample that everyone gets.
LEMMA InSyncView ==
  ASSUME NEW n \in Nat, NEW v, ViewOK(v, n), NEW s, NEW out, out \subseteq 1..n,
         NEW w, w = InSyncDelivery(v, s, out)
  PROVE  /\ ViewOK(w, n)
         /\ \A g : \A next, next2 \in Nat :
              Caught(v.m, v.queued, next, g) /\ next..(next2 - 1) \subseteq out \cup g
                => Caught(w.m, w.queued, next2, g)
<1>1. /\ v \in ViewRec /\ v.m \in MatchRec /\ out \in SUBSET Nat /\ ReorderOK(v.m.reorder, n)
      /\ v.queued \subseteq 1..n
  BY ViewFields DEF ViewOK
<1>2. PICK e : e = Enqueue(v, out) BY Zenon
<1>3. e \in ViewRec /\ e.m = v.m /\ e.queued = v.queued \cup out BY Zenon, <1>1, <1>2, EnqueueFields
<1>4. ASSUME NEW g, NEW next \in Nat, NEW next2 \in Nat, Caught(v.m, v.queued, next, g),
             next..(next2 - 1) \subseteq out \cup g
      PROVE  Caught(e.m, e.queued, next2, g)
  <2>1. Covers(out \cup g, next, next2) BY Zenon, <1>4 DEF Covers
  <2>2. Caught(v.m, v.queued \cup out, next2, g) BY Zenon, <1>1, <1>4, <2>1, CaughtShared
  <2> QED BY Zenon, <1>3, <2>2
<1>5. CASE w = e BY Zenon, <1>1, <1>3, <1>4, <1>5 DEF ViewOK
<1>6. CASE w = maybe_set_reader_in_sync(e, s)
  <2>1. /\ w \in ViewRec /\ w.queued = e.queued /\ w.m.reorder = e.m.reorder
        /\ \A q, g : \A next \in Nat : Caught(e.m, q, next, g) => Caught(w.m, q, next, g)
    BY Zenon, <1>3, <1>6, SetInSync
  <2> QED BY Zenon, <1>1, <1>3, <1>4, <2>1 DEF ViewOK
<1> QED BY Zenon, <1>2, <1>5, <1>6 DEF InSyncDelivery

\* handle_regular, for a sample that only readers out of sync still need.
LEMMA OutOfSyncView ==
  ASSUME NEW n \in Nat, n < MAX_SEQ_NUMBER, MAX_SEQ_NUMBER \in Nat, NEW v, ViewOK(v, n),
         NEW s \in 1..n, NEW full, NEW w, w = OutOfSyncDelivery(v, s, full)
  PROVE  /\ ViewOK(w, n)
         /\ \A g : \A next \in Nat : Caught(v.m, v.queued, next, g) => Caught(w.m, w.queued, next, g)
<1>1. /\ v \in ViewRec /\ v.m \in MatchRec /\ ReorderOK(v.m.reorder, n) /\ v.queued \subseteq 1..n
  BY Zenon, ViewFields DEF ViewOK
<1>2. PICK o : o = nn_reorder_rsample(v.m.reorder, s, "NORMAL", full) BY Zenon
<1>3. /\ ReorderOK(o.reorder, n) /\ o.out \subseteq 1..n
      /\ o.res # "DELIVER" => o.reorder.next_seq = v.m.reorder.next_seq
      /\ o.reorder.gaps \subseteq v.m.reorder.gaps
      /\ v.m.reorder.next_seq..(o.reorder.next_seq - 1) \subseteq o.out \cup v.m.reorder.gaps
  BY <1>1, <1>2, RsampleMoves
<1>4. o.reorder \in ReorderRec /\ o.out \in SUBSET Nat BY <1>3 DEF ReorderOK
<1>5. PICK new : new = [v EXCEPT !.m.reorder = o.reorder] BY Zenon
<1>6. /\ new \in ViewRec /\ new.queued = v.queued /\ new.m.reorder = o.reorder
      /\ new.m.in_sync = v.m.in_sync /\ new.m \in MatchRec
      /\ new.m.end_of_out_of_sync_seq = v.m.end_of_out_of_sync_seq
  BY <1>1, <1>4, <1>5, WithReorder, ViewFields
<1>7. ASSUME v.m.in_sync = "OUT_OF_SYNC", NEW g, NEW next \in Nat, Caught(v.m, v.queued, next, g)
      PROVE  Caught(new.m, v.queued \cup o.out, next, g)
  <2>1. v.m.reorder.gaps \subseteq g BY Zenon, <1>7 DEF Caught
  <2> QED BY Zenon, <1>1, <1>3, <1>4, <1>6, <1>7, <2>1, CaughtOwn
<1>8. CASE w = v BY Zenon, <1>8
<1>9. CASE v.m.in_sync = "OUT_OF_SYNC" /\ o.res = "DELIVER" /\ w = Enqueue(maybe_set_reader_in_sync(new, s), o.out)
  <2>1. PICK x : x = maybe_set_reader_in_sync(new, s) BY Zenon
  <2>2. /\ x \in ViewRec /\ x.queued = v.queued /\ x.m.reorder = o.reorder
        /\ \A q, g : \A next \in Nat : Caught(new.m, q, next, g) => Caught(x.m, q, next, g)
    BY Zenon, <1>6, <2>1, SetInSync
  <2>3. w \in ViewRec /\ w.m = x.m /\ w.queued = v.queued \cup o.out
    BY <1>4, <1>9, <2>1, <2>2, EnqueueFields
  <2> QED BY Zenon, <1>1, <1>3, <1>7, <1>9, <2>2, <2>3 DEF ViewOK
<1>10. CASE v.m.in_sync = "OUT_OF_SYNC" /\ o.res # "DELIVER" /\ w = new
  <2>1. ASSUME NEW g, NEW next \in Nat, Caught(v.m, v.queued, next, g)
        PROVE  Caught(w.m, w.queued, next, g)
    <3>1. v.m.reorder.gaps \subseteq g /\ v.m.reorder.next_seq \in Nat
      BY Zenon, <1>1, <1>10, <2>1, ViewFields DEF Caught
    <3>2. v.m.reorder.next_seq..(o.reorder.next_seq - 1) = {} BY <1>3, <1>10, <3>1
    <3>3. Caught(new.m, v.queued \cup {}, next, g)
      BY Zenon, <1>1, <1>3, <1>4, <1>6, <1>10, <2>1, <3>1, <3>2, CaughtOwn
    <3>4. v.queued \cup {} = v.queued BY Zenon
    <3> QED BY Zenon, <1>6, <1>10, <3>3, <3>4
  <2> QED BY Zenon, <1>1, <1>3, <1>6, <1>10, <2>1 DEF ViewOK
<1> QED BY Zenon, <1>2, <1>5, <1>8, <1>9, <1>10 DEF OutOfSyncDelivery

\* A gap in the buffer of a reader that is out of sync.
LEMMA OwnGapView ==
  ASSUME NEW n \in Nat, n < MAX_SEQ_NUMBER, MAX_SEQ_NUMBER \in Nat, NEW v, ViewOK(v, n),
         NEW min \in 1..(n + 1), NEW maxp1 \in 1..(n + 1), v.m.in_sync = "OUT_OF_SYNC",
         NEW w, w = OwnGap(v, min, maxp1)
  PROVE  /\ ViewOK(w, n) /\ w.m.in_sync = "OUT_OF_SYNC"
         /\ \A g : \A next \in Nat :
              Caught(v.m, v.queued, next, g) /\ Covers(g, min, maxp1) => Caught(w.m, w.queued, next, g)
<1>1. /\ v \in ViewRec /\ v.m \in MatchRec /\ ReorderOK(v.m.reorder, n) /\ v.queued \subseteq 1..n
  BY Zenon, ViewFields DEF ViewOK
<1>2. PICK o : o = nn_reorder_gap(v.m.reorder, min, maxp1, "NORMAL") BY Zenon
<1>3. /\ ReorderOK(o.reorder, n) /\ o.out \subseteq 1..n
      /\ o.reorder.gaps \subseteq v.m.reorder.gaps \cup min..(maxp1 - 1)
      /\ v.m.reorder.next_seq..(o.reorder.next_seq - 1) \subseteq o.out \cup v.m.reorder.gaps \cup min..(maxp1 - 1)
  BY <1>1, <1>2, GapMoves
<1>4. o.reorder \in ReorderRec /\ o.out \in SUBSET Nat BY <1>3 DEF ReorderOK
<1>5. PICK new : new = [v EXCEPT !.m.reorder = o.reorder] BY Zenon
<1>6. /\ new \in ViewRec /\ new.queued = v.queued /\ new.m.reorder = o.reorder
      /\ new.m.in_sync = v.m.in_sync /\ new.m \in MatchRec
      /\ new.m.end_of_out_of_sync_seq = v.m.end_of_out_of_sync_seq
  BY <1>1, <1>4, <1>5, WithReorder, ViewFields
<1>7. w = Enqueue(new, o.out) BY Zenon, <1>2, <1>5 DEF OwnGap
<1>8. w \in ViewRec /\ w.m = new.m /\ w.queued = v.queued \cup o.out BY <1>4, <1>6, <1>7, EnqueueFields
<1>9. ASSUME NEW g, NEW next \in Nat, Caught(v.m, v.queued, next, g), Covers(g, min, maxp1)
      PROVE  Caught(w.m, w.queued, next, g)
  <2>1. v.m.reorder.gaps \subseteq g BY Zenon, <1>9 DEF Caught
  <2>2. o.reorder.gaps \subseteq g /\ v.m.reorder.next_seq..(o.reorder.next_seq - 1) \subseteq o.out \cup g
    BY Zenon, <1>3, <1>9, <2>1 DEF Covers
  <2>3. Caught(new.m, v.queued \cup o.out, next, g) BY Zenon, <1>1, <1>4, <1>6, <1>9, <2>2, CaughtOwn
  <2> QED BY Zenon, <1>8, <2>3
<1> QED BY Zenon, <1>1, <1>3, <1>6, <1>8, <1>9 DEF ViewOK

\* handle_Heartbeat, for a reader that is not in sync.
LEMMA HeartbeatView ==
  ASSUME NEW n \in Nat, n < MAX_SEQ_NUMBER, MAX_SEQ_NUMBER \in Nat, NEW v, ViewOK(v, n),
         NEW first \in 1..(n + 1), NEW last \in Nat, NEW k, NEW w, w = HeartbeatForReader(v, first, last, k)
  PROVE  /\ ViewOK(w, n)
         /\ \A g : \A next \in Nat :
              Caught(v.m, v.queued, next, g) /\ Covers(g, 1, first) => Caught(w.m, w.queued, next, g)
<1>1. 1 \in 1..(n + 1) OBVIOUS
<1>2. PICK y : y = IF v.m.in_sync = "OUT_OF_SYNC" THEN OwnGap(v, 1, first) ELSE v BY Zenon
<1>3. /\ ViewOK(y, n)
      /\ \A g : \A next \in Nat :
           Caught(v.m, v.queued, next, g) /\ Covers(g, 1, first) => Caught(y.m, y.queued, next, g)
  <2>1. CASE v.m.in_sync = "OUT_OF_SYNC" BY <1>1, <1>2, <2>1, OwnGapView
  <2>2. CASE v.m.in_sync # "OUT_OF_SYNC" BY Zenon, <1>2, <2>2
  <2> QED BY Zenon, <2>1, <2>2
<1>4. PICK x : x = IF y.m.end_of_tl_seq = MAX_SEQ_NUMBER THEN [y EXCEPT !.m.end_of_tl_seq = last] ELSE y
  BY Zenon
<1>5. /\ x \in ViewRec /\ x.queued = y.queued /\ x.m.reorder = y.m.reorder /\ x.m.in_sync = y.m.in_sync
      /\ x.m.end_of_out_of_sync_seq = y.m.end_of_out_of_sync_seq
  <2>1. y \in ViewRec /\ y.m \in MatchRec BY Zenon, <1>3, ViewFields DEF ViewOK
  <2>2. PICK m : m = [y.m EXCEPT !.end_of_tl_seq = last] BY Zenon
  <2>3. /\ m \in MatchRec /\ m.reorder = y.m.reorder /\ m.in_sync = y.m.in_sync
        /\ m.end_of_out_of_sync_seq = y.m.end_of_out_of_sync_seq
    BY Zenon, <2>1, <2>2 DEF MatchRec
  <2>4. x = [y EXCEPT !.m = m] \/ x = y BY Zenon, <1>4, <2>2
  <2>5. ASSUME x = [y EXCEPT !.m = m] PROVE x \in ViewRec /\ x.m = m /\ x.queued = y.queued
    BY Zenon, <2>1, <2>3, <2>5 DEF ViewRec
  <2> QED BY Zenon, <2>1, <2>3, <2>4, <2>5
<1>6. \A g : \A next \in Nat : Caught(y.m, y.queued, next, g) => Caught(x.m, x.queued, next, g)
  BY Zenon, <1>5 DEF Caught
<1>7. w = maybe_set_reader_in_sync(x, (IF v.m.in_sync = "OUT_OF_SYNC" THEN x.m.reorder.next_seq ELSE k) - 1)
  BY <1>2, <1>4 DEF HeartbeatForReader
<1>8. /\ w \in ViewRec /\ w.queued = x.queued /\ w.m.reorder = x.m.reorder
      /\ \A q, g : \A next \in Nat : Caught(x.m, q, next, g) => Caught(w.m, q, next, g)
  BY <1>5, <1>7, SetInSync
<1> QED BY Zenon, <1>3, <1>5, <1>6, <1>8 DEF ViewOK

\* handle_Gap, for the reader the gap is for.
LEMMA GapView ==
  ASSUME NEW n \in Nat, n < MAX_SEQ_NUMBER, MAX_SEQ_NUMBER \in Nat, NEW v, ViewOK(v, n),
         NEW a \in 1..(n + 1), NEW b \in 1..(n + 1), NEW w, w = GapForReader(v, a, b)
  PROVE  /\ ViewOK(w, n)
         /\ \A g : \A next \in Nat :
              Caught(v.m, v.queued, next, g) /\ Covers(g, a, b) => Caught(w.m, w.queued, next, g)
<1>1. CASE w = v BY Zenon, <1>1
<1>2. ASSUME NEW y, y = v \/ (v.m.in_sync = "OUT_OF_SYNC" /\ y = OwnGap(v, a, b)),
             w = maybe_set_reader_in_sync(y, b - 1)
      PROVE  /\ ViewOK(w, n)
             /\ \A g : \A next \in Nat :
                  Caught(v.m, v.queued, next, g) /\ Covers(g, a, b) => Caught(w.m, w.queued, next, g)
  <2>1. /\ ViewOK(y, n)
        /\ \A g : \A next \in Nat :
             Caught(v.m, v.queued, next, g) /\ Covers(g, a, b) => Caught(y.m, y.queued, next, g)
    <3>1. CASE y = v BY Zenon, <3>1
    <3>2. CASE v.m.in_sync = "OUT_OF_SYNC" /\ y = OwnGap(v, a, b)
      BY Zenon, <3>2, OwnGapView
    <3> QED BY Zenon, <1>2, <3>1, <3>2
  <2>2. /\ w \in ViewRec /\ w.queued = y.queued /\ w.m.reorder = y.m.reorder
        /\ \A q, g : \A next \in Nat : Caught(y.m, q, next, g) => Caught(w.m, q, next, g)
    BY <1>2, <2>1, SetInSync DEF ViewOK
  <2> QED BY Zenon, <2>1, <2>2 DEF ViewOK
<1> QED BY Zenon, <1>1, <1>2 DEF GapForReader

---------------------------------------------------------------------------
(* The steps. *)

\* What is known of the instance.
LEMMA SetupFacts ==
  ASSUME Known
  PROVE  /\ seq \in Nat /\ seq < MAX_SEQ_NUMBER /\ MAX_SEQ_NUMBER \in Nat
         /\ setup.reliable \in BOOLEAN /\ setup.max_seq \in Nat /\ setup.max_samples \in Nat \ {0}
         /\ setup.overwritten \subseteq 1..(setup.max_seq - 1)
BY ProxyWriterAssumption DEF Known

\* A buffer for samples up to n is one for samples up to a later m.
LEMMA ReorderGrows ==
  ASSUME NEW n \in Nat, NEW m \in Nat, n <= m, NEW ro, ReorderOK(ro, n)
  PROVE  ReorderOK(ro, m)
<1>1. ro.next_seq \in Nat BY DEF ReorderOK
<1> QED BY <1>1 DEF ReorderOK

\* A reader that is caught up stays so when more is gone.
LEMMA CaughtGrows ==
  ASSUME NEW m, NEW q, NEW next, NEW g, NEW h, g \subseteq h, Caught(m, q, next, g)
  PROVE  Caught(m, q, next, h)
BY Zenon DEF Caught

\* A buffer as nn_reorder_new makes it is right.
LEMMA NewBuffer ==
  ASSUME NEW n \in Nat
  PROVE  /\ ReorderOK(nn_reorder_new, n) /\ nn_reorder_new \in ReorderRec
         /\ Unmatched \in MatchRec /\ Unmatched.reorder = nn_reorder_new /\ Unmatched.in_sync = "UNMATCHED"
         /\ ViewOK(View(Unmatched, {}, NotNotified), n)
         /\ \A q, next, g : Caught(Unmatched, q, next, g)
<1>1. ReorderOK(nn_reorder_new, n) /\ nn_reorder_new \in ReorderRec
  BY DEF ReorderOK, nn_reorder_new, ReorderRec, Held
<1>2. Unmatched \in MatchRec /\ Unmatched.reorder = nn_reorder_new /\ Unmatched.in_sync = "UNMATCHED"
  BY Zenon, <1>1 DEF Unmatched, MatchRec
<1>3. PICK v : v = View(Unmatched, {}, NotNotified) BY Zenon
<1>4. v.m = Unmatched /\ v.queued = {} /\ v.ahead = {0} /\ v \in ViewRec
  BY <1>2, <1>3 DEF View, NotNotified, ViewRec
<1>5. ViewOK(v, n) BY Zenon, <1>1, <1>2, <1>4 DEF ViewOK
<1>6. \A q, next, g : Caught(Unmatched, q, next, g) BY Zenon, <1>2 DEF Caught
<1> QED BY Zenon, <1>1, <1>2, <1>3, <1>5, <1>6

\* The view of a reader before a step.
LEMMA ViewBefore ==
  ASSUME ReadersOK, seq \in Nat, NEW r \in Reader, NEW v, v = View(readers[r], queued[r], ahead[r])
  PROVE  /\ ViewOK(v, seq) /\ v.m = readers[r] /\ v.queued = queued[r]
         /\ setup.reliable /\ r \in TLReader => Caught(v.m, v.queued, reorder.next_seq, gone)
<1>1. v.m = readers[r] /\ v.queued = queued[r] /\ v.ahead = ahead[r] BY Zenon DEF View
<1>2. v \in ViewRec BY DEF View, ViewRec, ReadersOK
<1>3. v.queued \subseteq 1..seq /\ ReorderOK(v.m.reorder, seq) BY Zenon, <1>1 DEF ReadersOK
<1> QED BY Zenon, <1>1, <1>2, <1>3 DEF ViewOK, ReadersOK

\* ForReaders has made next the views of the readers.
Applied(next) ==
  /\ readers' = [r \in Reader |-> next[r].m]
  /\ queued' = [r \in Reader |-> IF r \in TLReader THEN next[r].queued ELSE {}]
  /\ ahead' = [r \in Reader |-> IF r \in TLReader THEN next[r].ahead ELSE NotNotified]

\* A step that treats every reader well keeps the readers right.
LEMMA ReadersStep ==
  ASSUME seq \in Nat, UNCHANGED <<setup, seq, gone>>, NEW next, Applied(next),
         \A r \in Reader : ViewOK(next[r], seq),
         setup.reliable => \A r \in TLReader : Caught(next[r].m, next[r].queued, reorder'.next_seq, gone)
  PROVE  ReadersOK'
<1>1. \A r \in Reader : /\ next[r].m \in MatchRec /\ next[r].queued \in SUBSET (1..seq)
                         /\ next[r].ahead \in SUBSET Nat /\ ReorderOK(next[r].m.reorder, seq)
  BY Zenon, ViewFields DEF ViewOK
<1>2. NotNotified \in SUBSET Nat BY DEF NotNotified
<1>3. readers' \in [Reader -> MatchRec] BY Zenon, <1>1 DEF Applied
<1>4. queued' \in [Reader -> SUBSET (1..seq')] BY Zenon, <1>1 DEF Applied
<1>5. ahead' \in [Reader -> SUBSET Nat] BY Zenon, <1>1, <1>2 DEF Applied
<1>6. \A r \in Reader : ReorderOK(readers'[r].reorder, seq') BY Zenon, <1>1 DEF Applied
<1>7. setup'.reliable => \A r \in TLReader : Caught(readers'[r], queued'[r], reorder'.next_seq, gone')
  BY Zenon, ProxyWriterAssumption DEF Applied
<1> QED BY Zenon, <1>3, <1>4, <1>5, <1>6, <1>7 DEF ReadersOK

\* The primary reorder buffer; where it is forced to move on there is no
\* reliable reader.
LEMMA PrimaryMoves ==
  ASSUME Known, ReorderOK(reorder, seq), setup.reliable => reorder.gaps \subseteq gone,
         NEW s \in 1..seq, NEW o, o = PrimaryReorder(s)
  PROVE  /\ ReorderOK(o.reorder, seq) /\ o.out \subseteq 1..seq
         /\ o.res # "DELIVER" => o.reorder.next_seq = reorder.next_seq
         /\ setup.reliable => o.reorder.gaps \subseteq gone
         /\ setup.reliable /\ Matched \cap ReliableReader # {} =>
              reorder.next_seq..(o.reorder.next_seq - 1) \subseteq o.out \cup gone
<1>1. seq \in Nat /\ seq < MAX_SEQ_NUMBER /\ MAX_SEQ_NUMBER \in Nat BY Zenon, SetupFacts
<1>2. PICK mode, full : mode = Mode /\ full = FALSE BY Zenon
<1>3. PICK r : r = nn_reorder_rsample(reorder, s, mode, full) BY Zenon
<1>4. /\ ReorderOK(r.reorder, seq)
      /\ r.reorder.next_seq >= reorder.next_seq
      /\ r.out \subseteq 1..seq
      /\ r.res # "DELIVER" => r.reorder.next_seq = reorder.next_seq
      /\ r.res = "ACCEPT" => /\ s \in r.reorder.samples /\ r.reorder.gaps = reorder.gaps
                             /\ s > reorder.next_seq /\ mode # "MONOTONICALLY_INCREASING"
      /\ mode = "NORMAL" => /\ r.reorder.gaps \subseteq reorder.gaps
                            /\ reorder.next_seq..(r.reorder.next_seq - 1) \subseteq r.out \cup reorder.gaps
  BY <1>1, <1>3, RsampleMoves
<1>5. setup.reliable => mode = "NORMAL" BY Zenon, <1>2 DEF Mode
<1>6. CASE r.res = "ACCEPT" /\ Matched \cap ReliableReader = {}
  <2>1. PICK g : g = nn_reorder_gap(r.reorder, 1, s, mode) BY Zenon
  <2>2. 1 \in 1..(seq + 1) /\ s \in 1..(seq + 1) BY <1>1
  <2>3. /\ ReorderOK(g.reorder, seq) /\ g.out \subseteq 1..seq
        /\ mode = "NORMAL" /\ 1 <= r.reorder.next_seq /\ s \in r.reorder.samples =>
             g.reorder.gaps \subseteq r.reorder.gaps
    BY <1>1, <1>4, <2>1, <2>2, GapMoves
  <2>4. o = [g EXCEPT !.res = "DELIVER"] BY Zenon, <1>2, <1>3, <1>6, <2>1 DEF PrimaryReorder
  <2>5. g = [reorder |-> g.reorder, out |-> g.out, res |-> g.res] BY Zenon, <2>1 DEF nn_reorder_gap, Res
  <2>6. o.reorder = g.reorder /\ o.out = g.out /\ o.res = "DELIVER" BY Zenon, <2>4, <2>5
  <2>7. 1 <= r.reorder.next_seq BY <1>1, <1>4 DEF ReorderOK
  <2> QED BY Zenon, <1>4, <1>5, <1>6, <2>3, <2>6, <2>7
<1>7. CASE ~(r.res = "ACCEPT" /\ Matched \cap ReliableReader = {})
  <2>1. o = r BY Zenon, <1>2, <1>3, <1>7 DEF PrimaryReorder
  <2> QED BY Zenon, <1>4, <1>5, <2>1
<1> QED BY Zenon, <1>6, <1>7

\* A reader that is not matched needs nothing; a transient-local reader that
\* is matched is a reliable one.
LEMMA UnmatchedView ==
  ASSUME NEW n \in Nat, NEW v, v = View(Unmatched, {}, NotNotified)
  PROVE  ViewOK(v, n) /\ \A next, g : Caught(v.m, v.queued, next, g)
<1>1. v.m = Unmatched BY Zenon DEF View
<1> QED BY Zenon, <1>1, NewBuffer

\* A matched transient-local reader is a reliable one.
LEMMA MatchedReliable ==
  ASSUME NEW r \in TLReader, readers[r].in_sync # "UNMATCHED"
  PROVE  Matched \cap ReliableReader # {}
BY Zenon, ProxyWriterAssumption DEF Matched

\* A complete sample goes to the primary reorder buffer, and what comes out of
\* it or was too old for it to the readers.
LEMMA CompleteStep ==
  ASSUME Known, ReorderOK(reorder, seq), setup.reliable => reorder.gaps \subseteq gone, ReadersOK,
         NEW s \in 1..seq, NEW full, Complete(s, full), UNCHANGED <<setup, seq, gone>>
  PROVE  ReorderOK(reorder', seq) /\ (setup.reliable => reorder'.gaps \subseteq gone) /\ ReadersOK'
<1>1. seq \in Nat /\ seq < MAX_SEQ_NUMBER /\ MAX_SEQ_NUMBER \in Nat BY Zenon, SetupFacts
<1>2. PICK o : /\ o = PrimaryReorder(s)
               /\ reorder' = o.reorder
               /\ \/ o.res = "DELIVER" /\ DeliverToAll(s, o.out)
                  \/ o.res # "DELIVER" /\ DeliverToOutOfSync(s, full)
                  \/ o.res # "DELIVER" /\ UNCHANGED <<readers, queued, ahead>>
  BY Zenon DEF Complete
<1>3. /\ ReorderOK(o.reorder, seq) /\ o.out \subseteq 1..seq
      /\ o.res # "DELIVER" => o.reorder.next_seq = reorder.next_seq
      /\ setup.reliable => o.reorder.gaps \subseteq gone
      /\ setup.reliable /\ Matched \cap ReliableReader # {} =>
           reorder.next_seq..(o.reorder.next_seq - 1) \subseteq o.out \cup gone
  BY Zenon, <1>2, PrimaryMoves
<1>4. reorder.next_seq \in Nat /\ o.reorder.next_seq \in Nat BY <1>1, <1>3 DEF ReorderOK
<1>5. CASE o.res = "DELIVER" /\ DeliverToAll(s, o.out)
  <2>1. PICK next : /\ Applied(next)
                    /\ \A r \in Reader :
                         next[r] = IF readers[r].in_sync = "UNMATCHED" THEN View(Unmatched, {}, NotNotified)
                                   ELSE InSyncDelivery(View(readers[r], queued[r], ahead[r]), s, o.out)
    BY <1>5 DEF DeliverToAll, ForReaders, Applied
  <2>2. ASSUME NEW r \in Reader
        PROVE  /\ ViewOK(next[r], seq)
               /\ setup.reliable /\ r \in TLReader =>
                    Caught(next[r].m, next[r].queued, o.reorder.next_seq, gone)
    <3>1. CASE readers[r].in_sync = "UNMATCHED"
      <4>1. next[r] = View(Unmatched, {}, NotNotified) BY Zenon, <2>1, <3>1
      <4> QED BY Zenon, <1>1, <4>1, UnmatchedView
    <3>2. CASE readers[r].in_sync # "UNMATCHED"
      <4>1. PICK v : v = View(readers[r], queued[r], ahead[r]) BY Zenon
      <4>2. next[r] = InSyncDelivery(v, s, o.out) BY Zenon, <2>1, <3>2, <4>1
      <4>3. /\ ViewOK(v, seq)
            /\ setup.reliable /\ r \in TLReader => Caught(v.m, v.queued, reorder.next_seq, gone)
        BY Zenon, <1>1, <4>1, ViewBefore
      <4>4. PICK w, out : w = InSyncDelivery(v, s, out) /\ out = o.out BY Zenon
      <4>5. /\ ViewOK(w, seq)
            /\ \A g : \A n, n2 \in Nat :
                 Caught(v.m, v.queued, n, g) /\ n..(n2 - 1) \subseteq out \cup g => Caught(w.m, w.queued, n2, g)
        <5>1. out \subseteq 1..seq BY Zenon, <1>3, <4>4
        <5> QED BY <1>1, <4>3, <4>4, <5>1, InSyncView
      <4>6. ASSUME setup.reliable, r \in TLReader PROVE Caught(w.m, w.queued, o.reorder.next_seq, gone)
        <5>1. reorder.next_seq..(o.reorder.next_seq - 1) \subseteq out \cup gone
          BY Zenon, <1>3, <3>2, <4>4, <4>6, MatchedReliable
        <5> QED BY Zenon, <1>4, <4>3, <4>5, <4>6, <5>1
      <4> QED BY Zenon, <4>2, <4>4, <4>5, <4>6
    <3> QED BY Zenon, <3>1, <3>2
  <2>3. setup.reliable => \A r \in TLReader : Caught(next[r].m, next[r].queued, reorder'.next_seq, gone)
    BY Zenon, <1>2, <2>2, ProxyWriterAssumption
  <2>4. ReadersOK' BY Zenon, <1>1, <2>1, <2>2, <2>3, ReadersStep
  <2> QED BY Zenon, <1>2, <1>3, <2>4
<1>6. CASE o.res # "DELIVER" /\ DeliverToOutOfSync(s, full)
  <2>1. PICK next : /\ Applied(next)
                    /\ \A r \in Reader :
                         next[r] = IF readers[r].in_sync = "UNMATCHED" THEN View(Unmatched, {}, NotNotified)
                                   ELSE OutOfSyncDelivery(View(readers[r], queued[r], ahead[r]), s, full)
    BY <1>6 DEF DeliverToOutOfSync, ForReaders, Applied
  <2>2. ASSUME NEW r \in Reader
        PROVE  /\ ViewOK(next[r], seq)
               /\ setup.reliable /\ r \in TLReader =>
                    Caught(next[r].m, next[r].queued, reorder.next_seq, gone)
    <3>1. CASE readers[r].in_sync = "UNMATCHED"
      <4>1. next[r] = View(Unmatched, {}, NotNotified) BY Zenon, <2>1, <3>1
      <4> QED BY Zenon, <1>1, <4>1, UnmatchedView
    <3>2. CASE readers[r].in_sync # "UNMATCHED"
      <4>1. PICK v : v = View(readers[r], queued[r], ahead[r]) BY Zenon
      <4>2. PICK w : w = OutOfSyncDelivery(v, s, full) BY Zenon
      <4>3. next[r] = w BY Zenon, <2>1, <3>2, <4>1, <4>2
      <4>4. /\ ViewOK(v, seq)
            /\ setup.reliable /\ r \in TLReader => Caught(v.m, v.queued, reorder.next_seq, gone)
        BY Zenon, <1>1, <4>1, ViewBefore
      <4>5. /\ ViewOK(w, seq)
            /\ \A g : \A n \in Nat : Caught(v.m, v.queued, n, g) => Caught(w.m, w.queued, n, g)
        BY Zenon, <1>1, <4>2, <4>4, OutOfSyncView
      <4> QED BY Zenon, <1>4, <4>3, <4>4, <4>5
    <3> QED BY Zenon, <3>1, <3>2
  <2>3. setup.reliable => \A r \in TLReader : Caught(next[r].m, next[r].queued, reorder'.next_seq, gone)
    BY Zenon, <1>2, <1>3, <1>6, <2>2, ProxyWriterAssumption
  <2>4. ReadersOK' BY Zenon, <1>1, <2>1, <2>2, <2>3, ReadersStep
  <2> QED BY Zenon, <1>2, <1>3, <2>4
<1>7. CASE o.res # "DELIVER" /\ UNCHANGED <<readers, queued, ahead>>
  <2>1. ReadersOK' BY Zenon, <1>2, <1>3, <1>7 DEF ReadersOK
  <2> QED BY Zenon, <1>2, <1>3, <2>1
<1> QED BY Zenon, <1>2, <1>5, <1>6, <1>7

\* A gap that the writer has announced, in the primary reorder buffer.
LEMMA SharedGap ==
  ASSUME Known, ReorderOK(reorder, seq), setup.reliable, reorder.gaps \subseteq gone,
         NEW min \in 1..(seq + 1), NEW maxp1 \in 1..(seq + 1), Covers(gone, min, maxp1),
         NEW o, o = nn_reorder_gap(reorder, min, maxp1, Mode)
  PROVE  /\ ReorderOK(o.reorder, seq) /\ o.out \subseteq 1..seq /\ o.reorder.gaps \subseteq gone
         /\ reorder.next_seq \in Nat /\ o.reorder.next_seq \in Nat
         /\ reorder.next_seq..(o.reorder.next_seq - 1) \subseteq o.out \cup gone
<1>1. seq \in Nat /\ seq < MAX_SEQ_NUMBER /\ MAX_SEQ_NUMBER \in Nat BY Zenon, SetupFacts
<1>2. PICK mode : mode = Mode BY Zenon
<1>3. o = nn_reorder_gap(reorder, min, maxp1, mode) BY Zenon, <1>2
<1>4. /\ ReorderOK(o.reorder, seq) /\ o.out \subseteq 1..seq
      /\ o.reorder.gaps \subseteq reorder.gaps \cup min..(maxp1 - 1)
      /\ reorder.next_seq..(o.reorder.next_seq - 1) \subseteq o.out \cup reorder.gaps \cup min..(maxp1 - 1)
  BY Zenon, <1>1, <1>3, GapMoves
<1>5. min..(maxp1 - 1) \subseteq gone BY Zenon DEF Covers
<1>6. reorder.next_seq \in Nat /\ o.reorder.next_seq \in Nat BY <1>1, <1>4 DEF ReorderOK
<1> QED BY Zenon, <1>4, <1>5, <1>6

\* What a reader has when samples are enqueued for it.
LEMMA EnqueuedView ==
  ASSUME NEW n \in Nat, NEW v, ViewOK(v, n), NEW out, out \subseteq 1..n, NEW w, w = Enqueue(v, out),
         NEW g, NEW next \in Nat, NEW next2 \in Nat, Covers(out \cup g, next, next2)
  PROVE  /\ ViewOK(w, n) /\ w.m = v.m
         /\ Caught(v.m, v.queued, next, g) => Caught(w.m, w.queued, next2, g)
<1>1. /\ v \in ViewRec /\ v.m \in MatchRec /\ out \in SUBSET Nat /\ ReorderOK(v.m.reorder, n)
      /\ v.queued \subseteq 1..n
  BY ViewFields DEF ViewOK
<1>2. w \in ViewRec /\ w.m = v.m /\ w.queued = v.queued \cup out BY Zenon, <1>1, EnqueueFields
<1>3. ViewOK(w, n) BY Zenon, <1>1, <1>2 DEF ViewOK
<1>4. ASSUME Caught(v.m, v.queued, next, g) PROVE Caught(w.m, w.queued, next2, g)
  <2>1. Caught(v.m, v.queued \cup out, next2, g) BY Zenon, <1>1, <1>4, CaughtShared
  <2> QED BY Zenon, <1>2, <2>1
<1> QED BY Zenon, <1>2, <1>3, <1>4

\* A heartbeat, for the readers.
LEMMA HeartbeatStep ==
  ASSUME Known, SharedOK, ReadersOK, setup.reliable, NEW first \in 1..(setup.max_seq + 1), NEW last \in 0..setup.max_seq,
         handle_Heartbeat(first, last)
  PROVE  ReorderOK(reorder', seq) /\ reorder'.gaps \subseteq gone /\ ReadersOK'
<1>1. Known /\ ReorderOK(reorder, seq) /\ reorder.gaps \subseteq gone /\ ReadersOK BY Zenon DEF SharedOK
<1>2. seq \in Nat /\ seq < MAX_SEQ_NUMBER /\ MAX_SEQ_NUMBER \in Nat /\ setup.max_seq \in Nat
  BY Zenon, <1>1, SetupFacts
<1>3. PICK o : o = nn_reorder_gap(reorder, 1, first, Mode) BY Zenon
<1>4. /\ first <= last + 1 /\ last <= seq /\ 1..(first - 1) \subseteq gone
      /\ reorder' = o.reorder /\ UNCHANGED <<setup, seq, gone>>
  BY Zenon, <1>3 DEF handle_Heartbeat
<1>5. PICK next : /\ Applied(next)
                  /\ \A r \in Reader :
                       next[r] = IF readers[r].in_sync = "UNMATCHED" THEN View(Unmatched, {}, NotNotified)
                                 ELSE IF View(readers[r], queued[r], ahead[r]).m.in_sync = "SYNC"
                                 THEN Enqueue(View(readers[r], queued[r], ahead[r]), o.out)
                                 ELSE HeartbeatForReader(Enqueue(View(readers[r], queued[r], ahead[r]), o.out),
                                                         first, last, o.reorder.next_seq)
  BY <1>3 DEF handle_Heartbeat, ForReaders, Applied
<1>6. 1 \in 1..(seq + 1) /\ first \in 1..(seq + 1) /\ last \in Nat /\ Covers(gone, 1, first)
  BY <1>2, <1>4 DEF Covers
<1>7. /\ ReorderOK(o.reorder, seq) /\ o.out \subseteq 1..seq /\ o.reorder.gaps \subseteq gone
      /\ reorder.next_seq \in Nat /\ o.reorder.next_seq \in Nat
      /\ reorder.next_seq..(o.reorder.next_seq - 1) \subseteq o.out \cup gone
  BY Zenon, <1>1, <1>3, <1>6, SharedGap
<1>8. ASSUME NEW r \in Reader
      PROVE  /\ ViewOK(next[r], seq)
             /\ r \in TLReader => Caught(next[r].m, next[r].queued, o.reorder.next_seq, gone)
  <2>1. CASE readers[r].in_sync = "UNMATCHED"
    <3>1. next[r] = View(Unmatched, {}, NotNotified) BY Zenon, <1>5, <2>1
    <3> QED BY Zenon, <1>2, <3>1, UnmatchedView
  <2>2. CASE readers[r].in_sync # "UNMATCHED"
    <3>1. PICK v, out, k, n : /\ v = View(readers[r], queued[r], ahead[r]) /\ out = o.out
                              /\ k = o.reorder.next_seq /\ n = reorder.next_seq
      BY Zenon
    <3>2. PICK e : e = Enqueue(v, out) BY Zenon
    <3>3. ViewOK(v, seq) /\ (r \in TLReader => Caught(v.m, v.queued, n, gone))
      BY Zenon, <1>1, <1>2, <3>1, ViewBefore
    <3>4. out \subseteq 1..seq /\ k \in Nat /\ n \in Nat /\ Covers(out \cup gone, n, k)
      BY Zenon, <1>7, <3>1 DEF Covers
    <3>5. ViewOK(e, seq) /\ (Caught(v.m, v.queued, n, gone) => Caught(e.m, e.queued, k, gone))
      BY Zenon, <1>2, <3>2, <3>3, <3>4, EnqueuedView
    <3>6. CASE next[r] = e BY Zenon, <3>1, <3>3, <3>5, <3>6
    <3>7. CASE next[r] = HeartbeatForReader(e, first, last, k)
      <4>1. PICK w : w = HeartbeatForReader(e, first, last, k) BY Zenon
      <4>2. /\ ViewOK(w, seq)
            /\ \A g : \A j \in Nat :
                 Caught(e.m, e.queued, j, g) /\ Covers(g, 1, first) => Caught(w.m, w.queued, j, g)
        BY Zenon, <1>2, <1>6, <3>5, <4>1, HeartbeatView
      <4> QED BY Zenon, <1>6, <3>1, <3>3, <3>4, <3>5, <3>7, <4>1, <4>2
    <3> QED BY Zenon, <1>5, <2>2, <3>1, <3>2, <3>6, <3>7
  <2> QED BY Zenon, <2>1, <2>2
<1>9. setup.reliable => \A r \in TLReader : Caught(next[r].m, next[r].queued, reorder'.next_seq, gone)
  BY Zenon, <1>4, <1>8, ProxyWriterAssumption
<1>10. ReadersOK' BY Zenon, <1>2, <1>4, <1>5, <1>8, <1>9, ReadersStep
<1> QED BY Zenon, <1>4, <1>7, <1>10

\* A gap, for the readers.
LEMMA GapStep ==
  ASSUME Known, SharedOK, ReadersOK, setup.reliable, NEW dst \in Reader, NEW a \in Seqs, NEW b \in 2..(setup.max_seq + 1),
         handle_Gap(dst, a, b)
  PROVE  ReorderOK(reorder', seq) /\ reorder'.gaps \subseteq gone /\ ReadersOK' /\ b - 1 \in 0..seq
<1>1. Known /\ ReorderOK(reorder, seq) /\ reorder.gaps \subseteq gone /\ ReadersOK BY Zenon DEF SharedOK
<1>2. /\ seq \in Nat /\ seq < MAX_SEQ_NUMBER /\ MAX_SEQ_NUMBER \in Nat /\ setup.max_seq \in Nat
      /\ gone \subseteq 1..seq
  BY Zenon, <1>1, SetupFacts DEF Known
<1>3. PICK o : o = nn_reorder_gap(reorder, a, b, Mode) BY Zenon
<1>4. a < b /\ a..(b - 1) \subseteq gone /\ reorder' = o.reorder /\ UNCHANGED <<setup, seq, gone>>
  BY Zenon, <1>3 DEF handle_Gap
<1>5. PICK next : /\ Applied(next)
                  /\ \A r \in Reader :
                       next[r] = IF readers[r].in_sync = "UNMATCHED" THEN View(Unmatched, {}, NotNotified)
                                 ELSE IF r = dst
                                 THEN GapForReader(Enqueue(View(readers[r], queued[r], ahead[r]), o.out), a, b)
                                 ELSE Enqueue(View(readers[r], queued[r], ahead[r]), o.out)
  BY <1>3 DEF handle_Gap, ForReaders, Applied
<1>6. a \in 1..(seq + 1) /\ b \in 1..(seq + 1) /\ b - 1 \in 0..seq /\ Covers(gone, a, b)
  <2>1. a \in Nat /\ b \in Nat /\ a >= 1 BY <1>2 DEF Seqs
  <2>2. b - 1 \in a..(b - 1) BY <1>4, <2>1
  <2>3. b - 1 \in 1..seq BY Zenon, <1>2, <1>4, <2>2
  <2> QED BY <1>2, <1>4, <2>1, <2>3 DEF Covers
<1>7. /\ ReorderOK(o.reorder, seq) /\ o.out \subseteq 1..seq /\ o.reorder.gaps \subseteq gone
      /\ reorder.next_seq \in Nat /\ o.reorder.next_seq \in Nat
      /\ reorder.next_seq..(o.reorder.next_seq - 1) \subseteq o.out \cup gone
  BY Zenon, <1>1, <1>3, <1>6, SharedGap
<1>8. ASSUME NEW r \in Reader
      PROVE  /\ ViewOK(next[r], seq)
             /\ r \in TLReader => Caught(next[r].m, next[r].queued, o.reorder.next_seq, gone)
  <2>1. CASE readers[r].in_sync = "UNMATCHED"
    <3>1. next[r] = View(Unmatched, {}, NotNotified) BY Zenon, <1>5, <2>1
    <3> QED BY Zenon, <1>2, <3>1, UnmatchedView
  <2>2. CASE readers[r].in_sync # "UNMATCHED"
    <3>1. PICK v, out, k, n : /\ v = View(readers[r], queued[r], ahead[r]) /\ out = o.out
                              /\ k = o.reorder.next_seq /\ n = reorder.next_seq
      BY Zenon
    <3>2. PICK e : e = Enqueue(v, out) BY Zenon
    <3>3. ViewOK(v, seq) /\ (r \in TLReader => Caught(v.m, v.queued, n, gone))
      BY Zenon, <1>1, <1>2, <3>1, ViewBefore
    <3>4. out \subseteq 1..seq /\ k \in Nat /\ n \in Nat /\ Covers(out \cup gone, n, k)
      BY Zenon, <1>7, <3>1 DEF Covers
    <3>5. ViewOK(e, seq) /\ (Caught(v.m, v.queued, n, gone) => Caught(e.m, e.queued, k, gone))
      BY Zenon, <1>2, <3>2, <3>3, <3>4, EnqueuedView
    <3>6. CASE next[r] = e BY Zenon, <3>1, <3>3, <3>5, <3>6
    <3>7. CASE next[r] = GapForReader(e, a, b)
      <4>1. PICK w : w = GapForReader(e, a, b) BY Zenon
      <4>2. /\ ViewOK(w, seq)
            /\ \A g : \A j \in Nat :
                 Caught(e.m, e.queued, j, g) /\ Covers(g, a, b) => Caught(w.m, w.queued, j, g)
        BY Zenon, <1>2, <1>6, <3>5, <4>1, GapView
      <4> QED BY Zenon, <1>6, <3>1, <3>3, <3>4, <3>5, <3>7, <4>1, <4>2
    <3> QED BY Zenon, <1>5, <2>2, <3>1, <3>2, <3>6, <3>7
  <2> QED BY Zenon, <2>1, <2>2
<1>9. setup.reliable => \A r \in TLReader : Caught(next[r].m, next[r].queued, reorder'.next_seq, gone)
  BY Zenon, <1>4, <1>8, ProxyWriterAssumption
<1>10. ReadersOK' BY Zenon, <1>2, <1>4, <1>5, <1>8, <1>9, ReadersStep
<1> QED BY Zenon, <1>4, <1>6, <1>7, <1>10

PInv ==
  /\ Known
  /\ DefragOK(defrag, setup.info, seq)
  /\ defrag.max_samples = setup.max_samples
  /\ defrag.drop_mode = IF setup.reliable THEN "DROP_LATEST" ELSE "DROP_OLDEST"
  /\ ReorderOK(reorder, seq)
  /\ setup.reliable => reorder.gaps \subseteq gone
  /\ ReadersOK

---------------------------------------------------------------------------
(* The steps. *)

\* Samples and fragments are not empty.
LEMMA SetupInfo ==
  ASSUME Known
  PROVE  InfoOK(setup.info)
BY Zenon, ProxyWriterAssumption DEF Known, InfoOK

\* What the network delivers are fragments of the sample.
LEMMA FragmentIs ==
  ASSUME InfoOK(setup.info), NEW i \in 0..(NFrags - 1), NEW j \in i..(NFrags - 1)
  PROVE  IsFragments(Fragments(i, j), setup.info)
<1>1. PICK a \in Nat, b \in Nat : a = setup.info.size /\ b = setup.info.fragsize /\ b > 0 BY DEF InfoOK
<1>2. PICK q \in Int : q = (a + b - 1) \div b BY <1>1
<1>3. i \in 0..(q - 1) BY Zenon, <1>1, <1>2 DEF NFrags
<1>4. i \in Nat /\ i + 1 <= q BY ONLY <1>3, q \in Int
<1>5. b * q <= a + b - 1 BY <1>1, <1>2
<1>6. b * (i + 1) <= b * q BY ONLY <1>1, <1>4, q \in Int, b \in Nat
<1>7. b * (i + 1) = i * b + b BY ONLY <1>4, b \in Nat
<1>8. i * b < a
  <2>1. PICK x \in Int, y \in Int : x = i * b /\ y = b * q BY <1>4
  <2> QED BY <1>1, <1>5, <1>6, <1>7, <2>1
<1>9. j \in Nat /\ i <= j
  <2>1. j \in i..(q - 1) BY Zenon, <1>1, <1>2 DEF NFrags
  <2> QED BY ONLY <1>4, <2>1, q \in Int
<1>10. i \in Nat /\ Fragments(i, j) = Iv(i * b, Min({(j + 1) * b, a})) BY Zenon, <1>1, <1>4 DEF Fragments
<1> QED BY Zenon, <1>1, <1>8, <1>9, <1>10 DEF IsFragments

\* The invariant implies the types.
LEMMA TypeFrom ==
  ASSUME PInv
  PROVE  TypeOK
<1>1. \A r \in Reader : queued[r] \subseteq 1..seq BY Zenon DEF PInv, ReadersOK
<1> QED BY Zenon, <1>1 DEF PInv, Known, ReorderOK, DefragOK, TypeOK

\* last_seq and last_fragnum after a fragment stay within what was written.
LEMMA NoteLastOK ==
  ASSUME Known, NEW s \in 1..seq, NEW fragnum \in (0..(NFrags - 1)) \cup {ALL_FRAGS}, NoteLast(s, fragnum),
         UNCHANGED <<setup, seq, gone>>
  PROVE  Known'
<1>1. NFrags' = NFrags BY Zenon DEF NFrags
<1>2. seq \in Nat BY Zenon, SetupFacts
<1>3. CASE last_seq' = s /\ last_fragnum' = fragnum /\ last_fragnum_reset' = FALSE
  <2>1. last_seq' \in 0..seq' BY <1>2, <1>3
  <2>2. last_fragnum' \in (0..(NFrags' - 1)) \cup {ALL_FRAGS} BY Zenon, <1>1, <1>3
  <2>3. last_fragnum_reset' \in BOOLEAN /\ ~last_fragnum_reset' BY Zenon, <1>3
  <2> QED BY Zenon, <2>1, <2>2, <2>3 DEF Known
<1>4. CASE UNCHANGED <<last_seq, last_fragnum, last_fragnum_reset>> BY Zenon, <1>1, <1>4 DEF Known
<1> QED BY Zenon, <1>3, <1>4 DEF NoteLast

\* last_seq and last_fragnum after a heartbeat stay within what was written.
LEMMA NoteHeartbeatOK ==
  ASSUME Known, NEW last \in 0..seq, NoteHeartbeat(last), UNCHANGED <<setup, seq, gone>>
  PROVE  Known'
<1>1. NFrags' = NFrags BY Zenon DEF NFrags
<1>2. seq \in Nat BY Zenon, SetupFacts
<1>3. CASE last_seq' = last /\ last_fragnum' = ALL_FRAGS /\ last_fragnum_reset' = FALSE
  BY Zenon, <1>1, <1>2, <1>3 DEF Known
<1>4. CASE /\ last_fragnum # ALL_FRAGS
           /\ last_fragnum' = IF last_fragnum_reset THEN ALL_FRAGS ELSE last_fragnum
           /\ last_fragnum_reset' = ~last_fragnum_reset
           /\ UNCHANGED last_seq
  <2>1. last_fragnum_reset' \in BOOLEAN /\ (last_fragnum_reset' => last_fragnum' # ALL_FRAGS) BY Zenon, <1>4
  <2>2. last_fragnum' \in (0..(NFrags - 1)) \cup {ALL_FRAGS} BY Zenon, <1>4 DEF Known
  <2> QED BY Zenon, <1>1, <1>4, <2>1, <2>2 DEF Known
<1>5. CASE UNCHANGED <<last_seq, last_fragnum, last_fragnum_reset>> BY Zenon, <1>1, <1>5 DEF Known
<1> QED BY Zenon, <1>3, <1>4, <1>5 DEF NoteHeartbeat

\* The conjuncts of PInv about the defragmenter.
DefragInv ==
  /\ DefragOK(defrag, setup.info, seq)
  /\ defrag.max_samples = setup.max_samples
  /\ defrag.drop_mode = IF setup.reliable THEN "DROP_LATEST" ELSE "DROP_OLDEST"

\* The invariant is of four parts, most actions leave three of them alone.
LEMMA PInvParts == PInv <=> Known /\ DefragInv /\ SharedOK /\ ReadersOK
BY Zenon DEF PInv, DefragInv, SharedOK

\* A gap in the defragmenter.
LEMMA DefragGap ==
  ASSUME Known, DefragInv, NEW a, NEW b, defrag' = nn_defrag_notegap(defrag, a, b), UNCHANGED <<setup, seq>>
  PROVE  DefragInv'
<1>1. seq \in Nat BY Zenon, SetupFacts
<1>2. PICK e : e = nn_defrag_notegap(defrag, a, b) BY Zenon
<1>3. DefragOK(e, setup.info, seq) /\ SameLimits(defrag, e) BY Zenon, <1>1, <1>2, NotegapKeeps DEF DefragInv
<1> QED BY Zenon, <1>2, <1>3 DEF DefragInv, SameLimits

\* clean_defrag gives up samples that no reader needs any more.
LEMMA CleanOK ==
  ASSUME Known, DefragInv, NEW e, e = clean_defrag
  PROVE  DefragOK(e, setup.info, seq) /\ SameLimits(defrag, e)
<1>1. seq \in Nat BY Zenon, SetupFacts
<1>2. e = nn_defrag_notegap(defrag, 1, LowestNeeded) BY Zenon DEF clean_defrag
<1> QED BY Zenon, <1>1, <1>2, NotegapKeeps DEF DefragInv

\* Fragments in the defragmenter, which is cleaned first.
LEMMA DefragFragment ==
  ASSUME Known, DefragInv, NEW s \in 1..seq, NEW i \in 0..(NFrags - 1), NEW j \in i..(NFrags - 1),
         defrag' = nn_defrag_rsample(clean_defrag, s, Fragments(i, j), setup.info).defrag, UNCHANGED <<setup, seq>>
  PROVE  DefragInv'
<1>1. seq \in Nat /\ InfoOK(setup.info) BY Zenon, SetupFacts, SetupInfo
<1>2. PICK e : e = clean_defrag BY Zenon
<1>3. DefragOK(e, setup.info, seq) /\ SameLimits(defrag, e) BY Zenon, <1>2, CleanOK
<1>4. e.drop_mode \in {"DROP_LATEST", "DROP_OLDEST"} BY Zenon, <1>3 DEF DefragInv, SameLimits
<1>5. PICK f : f = Fragments(i, j) BY Zenon
<1>6. IsFragments(f, setup.info) BY Zenon, <1>1, <1>5, FragmentIs
<1>7. PICK o : o = nn_defrag_rsample(e, s, f, setup.info) BY Zenon
<1>8. DefragOK(o.defrag, setup.info, seq) BY Zenon, <1>1, <1>3, <1>4, <1>6, <1>7, RsampleOK
<1>9. SameLimits(e, o.defrag) BY Zenon, <1>1, <1>3, <1>4, <1>6, <1>7, RsampleKeeps
<1>10. defrag' = o.defrag BY Zenon, <1>2, <1>5, <1>7
<1> QED BY Zenon, <1>3, <1>8, <1>9, <1>10 DEF DefragInv, SameLimits

\* handle_regular, as a whole.
LEMMA RegularStep ==
  ASSUME PInv, NEW s \in Seqs, NEW i \in 0..(NFrags - 1), NEW j \in i..(NFrags - 1), NEW full \in BOOLEAN,
         handle_regular(s, i, j, full)
  PROVE  PInv'
<1>1. Known /\ DefragInv /\ SharedOK /\ ReadersOK BY Zenon, PInvParts
<1>2. s \in 1..seq /\ UNCHANGED <<setup, seq, gone>> /\ Receive(s, Fragments(i, j), full)
  <2>1. s <= seq BY Zenon DEF handle_regular
  <2>2. seq \in Nat /\ setup.max_seq \in Nat BY Zenon, <1>1, SetupFacts
  <2> QED BY <2>1, <2>2 DEF Seqs, handle_regular
<1>3. Known'
  <2>1. j \in 0..(NFrags - 1)
    <3>1. InfoOK(setup.info) BY Zenon, <1>1, SetupInfo
    <3>2. NFrags \in Int BY <3>1 DEF InfoOK, NFrags
    <3> QED BY <3>2
  <2>2. PICK k \in (0..(NFrags - 1)) \cup {ALL_FRAGS} : NoteLast(s, k) BY Zenon, <2>1 DEF handle_regular
  <2> QED BY Zenon, <1>1, <1>2, <2>2, NoteLastOK
<1>4. DefragInv'
  <2>1. defrag' = nn_defrag_rsample(clean_defrag, s, Fragments(i, j), setup.info).defrag
    BY Zenon, <1>2 DEF Receive
  <2> QED BY Zenon, <1>1, <1>2, <2>1, DefragFragment
<1>5. SharedOK' /\ ReadersOK'
  <2>1. CASE Complete(s, full)
    <3>1. ReorderOK(reorder', seq) /\ (setup.reliable => reorder'.gaps \subseteq gone) /\ ReadersOK'
      BY Zenon, <1>1, <1>2, <2>1, CompleteStep DEF SharedOK
    <3> QED BY Zenon, <1>2, <3>1 DEF SharedOK
  <2>2. CASE UNCHANGED <<reorder, readers, queued, ahead>> BY Zenon, <1>1, <1>2, <2>2 DEF SharedOK, ReadersOK
  <2> QED BY Zenon, <1>2, <2>1, <2>2 DEF Receive
<1>6. (Known /\ DefragInv /\ SharedOK /\ ReadersOK)' BY Zenon, <1>3, <1>4, <1>5
<1> QED BY <1>6, PInvParts, PTL

\* The remote writer writes.
LEMMA WriteStep ==
  ASSUME PInv, write_sample
  PROVE  PInv'
<1>1. Known /\ DefragInv /\ SharedOK /\ ReadersOK BY Zenon, PInvParts
<1>2. /\ seq < setup.max_seq /\ seq' = seq + 1
      /\ UNCHANGED <<setup, gone, defrag, reorder, last_seq, last_fragnum, last_fragnum_reset, readers, queued, ahead>>
  BY Zenon DEF write_sample, pwr
<1>3. seq \in Nat /\ setup.max_seq \in Nat /\ seq' \in Nat /\ seq <= seq' BY <1>1, <1>2, SetupFacts
<1>4. Known'
  <2>1. NFrags' = NFrags BY Zenon, <1>2 DEF NFrags
  <2>2. seq' \in 0..setup.max_seq /\ gone \subseteq 1..seq' /\ last_seq \in 0..seq'
    BY <1>1, <1>2, <1>3 DEF Known
  <2> QED BY Zenon, <1>1, <1>2, <2>1, <2>2 DEF Known
<1>5. DefragInv'
  <2>1. DefragOK(defrag, setup.info, seq') BY Zenon, <1>1, <1>3, DefragGrows DEF DefragInv
  <2> QED BY Zenon, <1>1, <1>2, <2>1 DEF DefragInv
<1>6. SharedOK'
  <2>1. ReorderOK(reorder, seq') BY Zenon, <1>1, <1>3, ReorderGrows DEF SharedOK
  <2> QED BY Zenon, <1>1, <1>2, <2>1 DEF SharedOK
<1>7. ReadersOK'
  <2>1. \A r \in Reader : ReorderOK(readers[r].reorder, seq') BY Zenon, <1>1, <1>3, ReorderGrows DEF ReadersOK
  <2>2. 1..seq \subseteq 1..seq' BY <1>3
  <2>3. queued \in [Reader -> SUBSET (1..seq')] BY Zenon, <1>1, <2>2 DEF ReadersOK
  <2> QED BY Zenon, <1>1, <1>2, <2>1, <2>3 DEF ReadersOK
<1>8. (Known /\ DefragInv /\ SharedOK /\ ReadersOK)' BY Zenon, <1>4, <1>5, <1>6, <1>7
<1> QED BY <1>8, PInvParts, PTL

\* The remote writer drops a sample.
LEMMA OverwriteStep ==
  ASSUME PInv, NEW s \in Seqs, overwrite(s)
  PROVE  PInv'
<1>1. Known /\ DefragInv /\ SharedOK /\ ReadersOK BY Zenon, PInvParts
<1>2. /\ s < seq /\ gone' = gone \cup {s}
      /\ UNCHANGED <<setup, seq, defrag, reorder, last_seq, last_fragnum, last_fragnum_reset, readers, queued, ahead>>
  BY Zenon DEF overwrite, pwr
<1>3. seq \in Nat /\ setup.max_seq \in Nat BY Zenon, <1>1, SetupFacts
<1>4. Known'
  <2>1. NFrags' = NFrags BY Zenon, <1>2 DEF NFrags
  <2>2. s \in 1..seq BY <1>2, <1>3 DEF Seqs
  <2> QED BY Zenon, <1>1, <1>2, <2>1, <2>2 DEF Known
<1>5. DefragInv' /\ SharedOK' BY Zenon, <1>1, <1>2 DEF DefragInv, SharedOK
<1>6. ReadersOK'
  <2>1. \A r \in Reader : \A next : Caught(readers[r], queued[r], next, gone) => Caught(readers[r], queued[r], next, gone')
    BY Zenon, <1>2, CaughtGrows
  <2>2. setup.reliable => \A r \in TLReader : Caught(readers[r], queued[r], reorder.next_seq, gone')
    BY Zenon, <1>1, <2>1, ProxyWriterAssumption DEF ReadersOK
  <2> QED BY Zenon, <1>1, <1>2, <2>2 DEF ReadersOK
<1>7. (Known /\ DefragInv /\ SharedOK /\ ReadersOK)' BY Zenon, <1>4, <1>5, <1>6
<1> QED BY <1>7, PInvParts, PTL

\* Where a reader that is matched now begins: what was delivered before it
\* came is for its own buffer, what comes next for the shared one.
LEMMA AddStep ==
  ASSUME PInv, NEW r \in Reader, proxy_writer_add_connection(r)
  PROVE  PInv'
<1>1. Known /\ DefragInv /\ SharedOK /\ ReadersOK BY Zenon, PInvParts
<1>2. UNCHANGED <<setup, seq, gone, defrag, reorder, last_seq, last_fragnum, last_fragnum_reset, queued, ahead>>
  BY Zenon DEF proxy_writer_add_connection, pwr
<1>3. seq \in Nat /\ MAX_SEQ_NUMBER \in Nat /\ last_seq \in Nat BY <1>1, SetupFacts DEF Known
<1>4. reorder.next_seq \in Nat /\ reorder.next_seq >= 1 BY <1>1, <1>3 DEF SharedOK, ReorderOK
<1>5. PICK m : /\ readers' = [readers EXCEPT ![r] = m]
               /\ \/ r \notin TLReader /\ m = [Unmatched EXCEPT !.in_sync = "SYNC"]
                  \/ /\ reorder.next_seq - 1 = 0
                     /\ m = [Unmatched EXCEPT !.in_sync = "TLCATCHUP", !.end_of_tl_seq = MAX_SEQ_NUMBER]
                  \/ m = [Unmatched EXCEPT !.in_sync = "OUT_OF_SYNC", !.end_of_tl_seq = last_seq,
                                           !.end_of_out_of_sync_seq = reorder.next_seq - 1]
  BY Zenon DEF proxy_writer_add_connection
<1>6. nn_reorder_new \in ReorderRec /\ ReorderOK(nn_reorder_new, seq) BY Zenon, <1>3, NewBuffer
<1>7. Unmatched = [in_sync |-> "UNMATCHED", end_of_tl_seq |-> 0, end_of_out_of_sync_seq |-> 0, reorder |-> nn_reorder_new]
  BY Zenon DEF Unmatched
<1>8. /\ m \in MatchRec /\ m.reorder = nn_reorder_new
      /\ \/ r \notin TLReader
         \/ m.in_sync = "TLCATCHUP" /\ reorder.next_seq = 1
         \/ m.in_sync = "OUT_OF_SYNC" /\ m.end_of_out_of_sync_seq = reorder.next_seq - 1
  <2>1. CASE r \notin TLReader /\ m = [Unmatched EXCEPT !.in_sync = "SYNC"]
    BY Zenon, <1>6, <1>7, <2>1 DEF MatchRec
  <2>2. CASE /\ reorder.next_seq - 1 = 0
             /\ m = [Unmatched EXCEPT !.in_sync = "TLCATCHUP", !.end_of_tl_seq = MAX_SEQ_NUMBER]
    <3>1. m = [in_sync |-> "TLCATCHUP", end_of_tl_seq |-> MAX_SEQ_NUMBER, end_of_out_of_sync_seq |-> 0,
               reorder |-> nn_reorder_new]
      BY Zenon, <1>7, <2>2
    <3>2. m \in MatchRec /\ m.reorder = nn_reorder_new /\ m.in_sync = "TLCATCHUP"
      BY Zenon, <1>3, <1>6, <3>1 DEF MatchRec
    <3>3. reorder.next_seq = 1 BY <1>4, <2>2
    <3> QED BY Zenon, <3>2, <3>3
  <2>3. CASE m = [Unmatched EXCEPT !.in_sync = "OUT_OF_SYNC", !.end_of_tl_seq = last_seq,
                                   !.end_of_out_of_sync_seq = reorder.next_seq - 1]
    <3>1. PICK k \in Nat : k = reorder.next_seq - 1
      <4>1. reorder.next_seq - 1 \in Nat BY <1>4
      <4> QED BY Zenon, <4>1
    <3>2. m = [in_sync |-> "OUT_OF_SYNC", end_of_tl_seq |-> last_seq, end_of_out_of_sync_seq |-> k,
               reorder |-> nn_reorder_new]
      BY Zenon, <1>7, <2>3, <3>1
    <3>3. /\ m \in MatchRec /\ m.reorder = nn_reorder_new /\ m.in_sync = "OUT_OF_SYNC"
          /\ m.end_of_out_of_sync_seq = k
      BY Zenon, <1>3, <1>6, <3>2 DEF MatchRec
    <3> QED BY Zenon, <3>1, <3>3
  <2> QED BY Zenon, <1>5, <2>1, <2>2, <2>3
<1>9. r \in TLReader => Caught(m, queued[r], reorder.next_seq, gone)
  <2> SUFFICES ASSUME r \in TLReader PROVE Caught(m, queued[r], reorder.next_seq, gone) BY Zenon
  <2>1. m.reorder.next_seq = 1 /\ m.reorder.gaps = {} BY <1>8 DEF nn_reorder_new
  <2>2. CASE m.in_sync = "TLCATCHUP" /\ reorder.next_seq = 1 BY <2>2 DEF Caught
  <2>3. CASE m.in_sync = "OUT_OF_SYNC" /\ m.end_of_out_of_sync_seq = reorder.next_seq - 1
    BY <1>4, <2>1, <2>3 DEF Caught
  <2> QED BY Zenon, <1>8, <2>2, <2>3
<1>10. ReadersOK'
  <2>1. readers' \in [Reader -> MatchRec] BY Zenon, <1>1, <1>5, <1>8 DEF ReadersOK
  <2>2. \A q \in Reader : readers'[q] = IF q = r THEN m ELSE readers[q] BY Zenon, <1>1, <1>5 DEF ReadersOK
  <2>3. \A q \in Reader : ReorderOK(readers'[q].reorder, seq) BY Zenon, <1>1, <1>6, <1>8, <2>2 DEF ReadersOK
  <2>4. setup.reliable => \A q \in TLReader : Caught(readers'[q], queued[q], reorder.next_seq, gone)
    BY Zenon, <1>1, <1>9, <2>2, ProxyWriterAssumption DEF ReadersOK
  <2> QED BY Zenon, <1>1, <1>2, <2>1, <2>3, <2>4 DEF ReadersOK
<1>11. Known'
  <2>1. NFrags' = NFrags BY Zenon, <1>2 DEF NFrags
  <2> QED BY Zenon, <1>1, <1>2, <2>1 DEF Known
<1>12. DefragInv' /\ SharedOK' BY Zenon, <1>1, <1>2 DEF DefragInv, SharedOK
<1>13. (Known /\ DefragInv /\ SharedOK /\ ReadersOK)' BY Zenon, <1>10, <1>11, <1>12
<1> QED BY <1>13, PInvParts, PTL

\* proxy_writer_drop_connection keeps the invariant.
LEMMA DropStep ==
  ASSUME PInv, NEW r \in Reader, proxy_writer_drop_connection(r)
  PROVE  PInv'
<1>1. Known /\ DefragInv /\ SharedOK /\ ReadersOK BY Zenon, PInvParts
<1>2. /\ UNCHANGED <<setup, seq, gone, defrag, reorder, last_seq, last_fragnum, last_fragnum_reset>>
      /\ readers' = [readers EXCEPT ![r] = Unmatched]
      /\ queued' = [queued EXCEPT ![r] = {}] /\ ahead' = [ahead EXCEPT ![r] = NotNotified]
  BY Zenon DEF proxy_writer_drop_connection, pwr
<1>3. seq \in Nat BY Zenon, <1>1, SetupFacts
<1>4. /\ Unmatched \in MatchRec /\ ReorderOK(Unmatched.reorder, seq)
      /\ \A q, next, g : Caught(Unmatched, q, next, g)
  BY Zenon, <1>3, NewBuffer
<1>5. ReadersOK'
  <2>1. readers' \in [Reader -> MatchRec] BY Zenon, <1>1, <1>2, <1>4 DEF ReadersOK
  <2>2. queued' \in [Reader -> SUBSET (1..seq)] BY Zenon, <1>1, <1>2 DEF ReadersOK
  <2>3. ahead' \in [Reader -> SUBSET Nat] BY <1>1, <1>2 DEF ReadersOK, NotNotified
  <2>4. ASSUME NEW q \in Reader
        PROVE  /\ ReorderOK(readers'[q].reorder, seq)
               /\ setup.reliable /\ q \in TLReader => Caught(readers'[q], queued'[q], reorder.next_seq, gone)
    <3>1. CASE q = r
      <4>1. readers'[q] = Unmatched BY Zenon, <1>1, <1>2, <3>1 DEF ReadersOK
      <4> QED BY Zenon, <1>4, <4>1
    <3>2. CASE q # r
      <4>1. readers'[q] = readers[q] /\ queued'[q] = queued[q] BY Zenon, <1>1, <1>2, <3>2 DEF ReadersOK
      <4> QED BY Zenon, <1>1, <4>1 DEF ReadersOK
    <3> QED BY Zenon, <3>1, <3>2
  <2>5. setup.reliable => \A q \in TLReader : Caught(readers'[q], queued'[q], reorder.next_seq, gone)
    BY Zenon, <2>4, ProxyWriterAssumption
  <2> QED BY Zenon, <1>1, <1>2, <2>1, <2>2, <2>3, <2>4, <2>5 DEF ReadersOK
<1>6. Known'
  <2>1. NFrags' = NFrags BY Zenon, <1>2 DEF NFrags
  <2> QED BY Zenon, <1>1, <1>2, <2>1 DEF Known
<1>7. DefragInv' /\ SharedOK' BY Zenon, <1>1, <1>2 DEF DefragInv, SharedOK
<1>8. (Known /\ DefragInv /\ SharedOK /\ ReadersOK)' BY Zenon, <1>5, <1>6, <1>7
<1> QED BY <1>8, PInvParts, PTL

\* handle_Heartbeat keeps the invariant.
LEMMA HeartbeatKeeps ==
  ASSUME PInv, setup.reliable, NEW first \in 1..(setup.max_seq + 1), NEW last \in 0..setup.max_seq,
         handle_Heartbeat(first, last)
  PROVE  PInv'
<1>1. Known /\ DefragInv /\ SharedOK /\ ReadersOK BY Zenon, PInvParts
<1>2. /\ last <= seq /\ NoteHeartbeat(last) /\ defrag' = nn_defrag_notegap(defrag, 1, first)
      /\ UNCHANGED <<setup, seq, gone>>
  BY Zenon DEF handle_Heartbeat
<1>3. last \in 0..seq
  <2>1. seq \in Nat /\ setup.max_seq \in Nat BY Zenon, <1>1, SetupFacts
  <2> QED BY <1>2, <2>1
<1>4. Known' BY Zenon, <1>1, <1>2, <1>3, NoteHeartbeatOK
<1>5. DefragInv' BY Zenon, <1>1, <1>2, DefragGap
<1>6. ReorderOK(reorder', seq) /\ reorder'.gaps \subseteq gone /\ ReadersOK' BY Zenon, <1>1, HeartbeatStep
<1>7. SharedOK' BY Zenon, <1>2, <1>6 DEF SharedOK
<1>8. (Known /\ DefragInv /\ SharedOK /\ ReadersOK)' BY Zenon, <1>4, <1>5, <1>6, <1>7
<1> QED BY <1>8, PInvParts, PTL

\* handle_HeartbeatFrag keeps the invariant.
LEMMA HeartbeatFragKeeps ==
  ASSUME PInv, NEW s \in Seqs, NEW i \in 0..(NFrags - 1), handle_HeartbeatFrag(s, i)
  PROVE  PInv'
<1>1. Known /\ DefragInv /\ SharedOK /\ ReadersOK BY Zenon, PInvParts
<1>2. /\ s <= seq /\ NoteLast(s, i)
      /\ UNCHANGED <<setup, seq, gone, defrag, reorder, readers, queued, ahead>>
  BY Zenon DEF handle_HeartbeatFrag
<1>3. s \in 1..seq
  <2>1. seq \in Nat /\ setup.max_seq \in Nat BY Zenon, <1>1, SetupFacts
  <2> QED BY <1>2, <2>1 DEF Seqs
<1>4. PICK k \in (0..(NFrags - 1)) \cup {ALL_FRAGS} : k = i BY Zenon
<1>5. Known' BY Zenon, <1>1, <1>2, <1>3, <1>4, NoteLastOK
<1>6. DefragInv' /\ SharedOK' /\ ReadersOK' BY Zenon, <1>1, <1>2 DEF DefragInv, SharedOK, ReadersOK
<1>7. (Known /\ DefragInv /\ SharedOK /\ ReadersOK)' BY Zenon, <1>5, <1>6
<1> QED BY <1>7, PInvParts, PTL

\* handle_Gap keeps the invariant.
LEMMA GapKeeps ==
  ASSUME PInv, setup.reliable, NEW dst \in Reader, NEW a \in Seqs, NEW b \in 2..(setup.max_seq + 1),
         handle_Gap(dst, a, b)
  PROVE  PInv'
<1>1. Known /\ DefragInv /\ SharedOK /\ ReadersOK BY Zenon, PInvParts
<1>2. defrag' = nn_defrag_notegap(defrag, a, b) /\ UNCHANGED <<setup, seq, gone>> BY Zenon DEF handle_Gap
<1>3. ReorderOK(reorder', seq) /\ reorder'.gaps \subseteq gone /\ ReadersOK' /\ b - 1 \in 0..seq
  BY Zenon, <1>1, GapStep
<1>4. Known'
  <2>1. NFrags' = NFrags BY Zenon, <1>2 DEF NFrags
  <2>2. CASE last_seq' = b - 1 /\ last_fragnum' = ALL_FRAGS /\ last_fragnum_reset' = FALSE
    BY Zenon, <1>1, <1>2, <1>3, <2>1, <2>2 DEF Known
  <2>3. CASE UNCHANGED <<last_seq, last_fragnum, last_fragnum_reset>>
    BY Zenon, <1>1, <1>2, <2>1, <2>3 DEF Known
  <2> QED BY Zenon, <2>2, <2>3 DEF handle_Gap
<1>5. DefragInv' BY Zenon, <1>1, <1>2, DefragGap
<1>6. SharedOK' BY Zenon, <1>2, <1>3 DEF SharedOK
<1>7. (Known /\ DefragInv /\ SharedOK /\ ReadersOK)' BY Zenon, <1>3, <1>4, <1>5, <1>6
<1> QED BY <1>7, PInvParts, PTL

\* The invariant holds initially.
LEMMA PInvInit == Init => PInv
<1> SUFFICES ASSUME Init PROVE PInv BY Zenon
<1>1. /\ setup \in Setups /\ seq = 0 /\ gone = {} /\ reorder = nn_reorder_new
      /\ last_seq = 0 /\ last_fragnum = ALL_FRAGS /\ last_fragnum_reset = FALSE
      /\ readers = [r \in Reader |-> Unmatched]
      /\ queued = [r \in Reader |-> {}] /\ ahead = [r \in Reader |-> NotNotified]
  BY Zenon DEF Init
<1>2. setup.max_seq \in Nat /\ setup.max_samples \in Nat \ {0} BY <1>1, ProxyWriterAssumption
<1>3. Known
  <2>1. seq \in 0..setup.max_seq /\ gone \subseteq 1..seq /\ last_seq \in 0..seq BY <1>1, <1>2
  <2>2. last_fragnum \in (0..(NFrags - 1)) \cup {ALL_FRAGS} BY Zenon, <1>1
  <2>3. last_fragnum_reset \in BOOLEAN /\ ~last_fragnum_reset BY Zenon, <1>1
  <2> QED BY Zenon, <1>1, <2>1, <2>2, <2>3 DEF Known
<1>4. DefragInv
  <2>1. PICK mode : mode = IF setup.reliable THEN "DROP_LATEST" ELSE "DROP_OLDEST" BY Zenon
  <2>2. defrag = [sampletree |-> << >>, max_sample |-> 0, n_samples |-> 0,
                  max_samples |-> setup.max_samples, drop_mode |-> mode]
    BY Zenon, <2>1 DEF Init, nn_defrag_new
  <2>3. DOMAIN << >> = {} /\ << >> = [s \in {} |-> << >>[s]] OBVIOUS
  <2>4. MaxOr0({}) = 0 /\ Cardinality({}) = 0 BY Zenon, FS_EmptySet DEF MaxOr0
  <2>5. DefragOK(defrag, setup.info, seq) BY <1>1, <1>2, <2>2, <2>3, <2>4 DEF DefragOK
  <2> QED BY Zenon, <2>1, <2>2, <2>5 DEF DefragInv
<1>5. 0 \in Nat BY Zenon
<1>6. /\ ReorderOK(nn_reorder_new, 0) /\ Unmatched \in MatchRec /\ Unmatched.reorder = nn_reorder_new
      /\ \A q, next, g : Caught(Unmatched, q, next, g)
  BY Zenon, <1>5, NewBuffer
<1>7. SharedOK BY Zenon, <1>1, <1>6 DEF SharedOK, nn_reorder_new
<1>8. ReadersOK
  <2>1. \A r \in Reader : readers[r] = Unmatched BY Zenon, <1>1
  <2>2. readers \in [Reader -> MatchRec] BY Zenon, <1>1, <1>6
  <2>3. queued \in [Reader -> SUBSET (1..seq)] /\ ahead \in [Reader -> SUBSET Nat] BY <1>1 DEF NotNotified
  <2>4. \A r \in Reader : ReorderOK(readers[r].reorder, seq) BY Zenon, <1>1, <1>6, <2>1
  <2>5. \A r \in TLReader : Caught(readers[r], queued[r], reorder.next_seq, gone)
    BY Zenon, <1>6, <2>1, ProxyWriterAssumption
  <2> QED BY Zenon, <2>2, <2>3, <2>4, <2>5 DEF ReadersOK
<1> QED BY Zenon, <1>3, <1>4, <1>7, <1>8, PInvParts

\* Every action keeps the invariant.
LEMMA PInvNext == PInv /\ [Next]_vars => PInv'
<1> SUFFICES ASSUME PInv, [Next]_vars PROVE PInv' BY Zenon
<1>1. CASE write_sample BY Zenon, <1>1, WriteStep
<1>2. ASSUME NEW s \in Seqs, overwrite(s) PROVE PInv' BY Zenon, <1>2, OverwriteStep
<1>3. ASSUME NEW r \in Reader, proxy_writer_add_connection(r) PROVE PInv' BY Zenon, <1>3, AddStep
<1>4. ASSUME NEW r \in Reader, proxy_writer_drop_connection(r) PROVE PInv' BY Zenon, <1>4, DropStep
<1>5. ASSUME NEW s \in Seqs, NEW i \in 0..(NFrags - 1), NEW j \in i..(NFrags - 1), NEW full \in BOOLEAN,
             handle_regular(s, i, j, full)
      PROVE  PInv'
  BY Zenon, <1>5, RegularStep
<1>6. ASSUME setup.reliable, NEW first \in 1..(setup.max_seq + 1), NEW last \in 0..setup.max_seq,
             handle_Heartbeat(first, last)
      PROVE  PInv'
  BY Zenon, <1>6, HeartbeatKeeps
<1>7. ASSUME NEW s \in Seqs, NEW i \in 0..(NFrags - 1), handle_HeartbeatFrag(s, i) PROVE PInv'
  BY Zenon, <1>7, HeartbeatFragKeeps
<1>8. ASSUME setup.reliable, NEW r \in Reader, NEW a \in Seqs, NEW b \in 2..(setup.max_seq + 1),
             handle_Gap(r, a, b)
      PROVE  PInv'
  BY Zenon, <1>8, GapKeeps
<1>9. CASE UNCHANGED vars
  <2>1. Known /\ DefragInv /\ SharedOK /\ ReadersOK BY Zenon, PInvParts
  <2>2. NFrags' = NFrags BY Zenon, <1>9 DEF vars, NFrags
  <2>3. Known' BY Zenon, <1>9, <2>1, <2>2 DEF vars, Known
  <2>4. DefragInv' /\ SharedOK' /\ ReadersOK' BY Zenon, <1>9, <2>1 DEF vars, DefragInv, SharedOK, ReadersOK
  <2>5. (Known /\ DefragInv /\ SharedOK /\ ReadersOK)' BY Zenon, <2>3, <2>4
  <2> QED BY <2>5, PInvParts, PTL
<1> QED BY Zenon, <1>1, <1>2, <1>3, <1>4, <1>5, <1>6, <1>7, <1>8, <1>9 DEF Next

\* The invariant holds of every state.
LEMMA Invariant == Spec => []PInv
BY PInvInit, PInvNext, PTL DEF Spec

---------------------------------------------------------------------------
(* The properties. *)

\* The sets of bytes that the properties speak of, as the bytes covered.
LEMMA BytesAre ==
  ASSUME NEW info, InfoOK(info), NEW n \in Nat, NEW d, DefragOK(d, info, n), NEW s
  PROVE  /\ BytesOf(d, s) \subseteq 0..(info.size - 1)
         /\ \A b \in Nat : b \in BytesOf(d, s) <=> HasByte(d, s, b)
<1>1. CASE s \notin DOMAIN d.sampletree BY Zenon, <1>1 DEF BytesOf, HasByte
<1>2. CASE s \in DOMAIN d.sampletree
  <2>1. PICK T : T = d.sampletree[s].fragtree BY Zenon
  <2>2. TreeShape(T, info) BY Zenon, <1>2, <2>1 DEF DefragOK, SampleOK, TreeOK
  <2>3. \A i \in T : i.min \in Nat /\ i.maxp1 \in Nat /\ i.maxp1 <= info.size BY Zenon, <2>2, TreeFields
  <2>4. BytesOf(d, s) = UNION {i.min..(i.maxp1 - 1) : i \in T} BY Zenon, <1>2, <2>1 DEF BytesOf, Bytes
  <2>5. info.size \in Nat BY Zenon DEF InfoOK
  <2>6. \A i \in T : i.min..(i.maxp1 - 1) \subseteq 0..(info.size - 1) BY <2>3, <2>5
  <2>7. ASSUME NEW b \in Nat PROVE b \in BytesOf(d, s) <=> HasByte(d, s, b)
    <3>1. b \in BytesOf(d, s) <=> \E i \in T : b \in i.min..(i.maxp1 - 1) BY Zenon, <2>4
    <3>2. \A i \in T : b \in i.min..(i.maxp1 - 1) <=> i.min <= b /\ b < i.maxp1 BY <2>3
    <3> QED BY Zenon, <1>2, <2>1, <3>1, <3>2 DEF HasByte, Covered
  <2> QED BY Zenon, <2>4, <2>6, <2>7
<1> QED BY Zenon, <1>1, <1>2

\* A sample in the defragmenter lacks some byte.
LEMMA PartialSample ==
  ASSUME NEW info, InfoOK(info), NEW n \in Nat, NEW d, DefragOK(d, info, n), NEW s \in DOMAIN d.sampletree
  PROVE  Bytes(d.sampletree[s]) # 0..(info.size - 1)
<1>1. PICK T : T = d.sampletree[s].fragtree BY Zenon
<1>2. TreeOK(T, info) /\ TreeShape(T, info) BY Zenon, <1>1 DEF DefragOK, SampleOK, TreeOK
<1>3. PICK i \in T : i.min = 0 /\ i.maxp1 < info.size BY Zenon, <1>2 DEF TreeOK, TreeShape
<1>4. ~Covered(T, i.maxp1) BY Zenon, <1>2, <1>3, GapAfter
<1>5. i.maxp1 \in Nat /\ info.size \in Nat BY Zenon, <1>2, <1>3, TreeFields DEF InfoOK
<1>6. i.maxp1 \notin BytesOf(d, s) BY Zenon, <1>1, <1>4, <1>5, BytesAre DEF HasByte
<1>7. i.maxp1 \in 0..(info.size - 1) BY <1>3, <1>5
<1>8. Bytes(d.sampletree[s]) = BytesOf(d, s) BY Zenon DEF BytesOf
<1> QED BY Zenon, <1>6, <1>7, <1>8

\* The asserts and cached fields of the defragmenter.
LEMMA ExactFromInv == PInv => DefragExact
<1> SUFFICES ASSUME PInv PROVE DefragExact BY Zenon
<1>1. Known /\ DefragOK(defrag, setup.info, seq) BY Zenon DEF PInv
<1>2. InfoOK(setup.info) /\ seq \in Nat BY Zenon, <1>1, SetupFacts, SetupInfo
<1>3. PICK tree : tree = defrag.sampletree BY Zenon
<1>4. /\ defrag.n_samples = Cardinality(DOMAIN tree) /\ defrag.n_samples <= defrag.max_samples
      /\ defrag.max_sample = MaxOr0(DOMAIN tree)
  BY Zenon, <1>1, <1>3 DEF DefragOK
<1>5. ASSUME NEW s \in DOMAIN tree
      PROVE  /\ \E i \in tree[s].fragtree : i.min = 0
             /\ \A i, j \in tree[s].fragtree : i.min < j.min => i.maxp1 < j.min
             /\ tree[s].lastfrag = LastIv(tree[s].fragtree).min
             /\ Bytes(tree[s]) # AllBytes
  <2>1. PICK T, l : T = tree[s].fragtree /\ l = tree[s].lastfrag BY Zenon
  <2>2. TreeShape(T, setup.info) /\ IsLast(T, l) BY Zenon, <1>1, <1>3, <2>1 DEF DefragOK, SampleOK, TreeOK
  <2>3. l = LastIv(T).min
    <3>1. T \in SUBSET IvRec(setup.info.size) /\ T # {} /\ setup.info.size \in Nat
      BY Zenon, <1>2, <2>2 DEF TreeShape, InfoOK
    <3>2. LastIv(T) \in T /\ \A j \in T : LastIv(T).min >= j.min BY Zenon, <3>1, FirstLast
    <3>3. PICK k : k = LastIv(T) BY Zenon
    <3>4. PICK i \in T : i.min = l BY Zenon, <2>2 DEF IsLast
    <3>5. k \in T /\ k.min >= i.min /\ k.min <= l BY Zenon, <2>2, <3>2, <3>3, <3>4 DEF IsLast
    <3>6. k.min \in Nat /\ i.min \in Nat BY Zenon, <1>2, <2>2, <3>4, <3>5, TreeFields
    <3> QED BY <3>3, <3>4, <3>5, <3>6
  <2>4. Bytes(tree[s]) # AllBytes BY Zenon, <1>1, <1>2, <1>3, PartialSample DEF AllBytes
  <2>5. \E i \in T : i.min = 0 BY Zenon, <2>2 DEF TreeShape
  <2>6. \A i, j \in T : i.min < j.min => i.maxp1 < j.min BY Zenon, <2>2 DEF TreeShape
  <2> QED BY Zenon, <2>1, <2>3, <2>4, <2>5, <2>6
<1> QED BY Zenon, <1>3, <1>4, <1>5 DEF DefragExact

\* What the next fragments add.
LEMMA AddUpFromInv == PInv => FragmentsAddUp
<1> SUFFICES ASSUME PInv, NEW s \in 1..seq, NEW i \in 0..(NFrags - 1), NEW j \in i..(NFrags - 1),
                    NEW f, f = Fragments(i, j)
             PROVE  AddUp(s, f)
  BY Zenon DEF FragmentsAddUp
<1> DEFINE o == nn_defrag_rsample(defrag, s, f, setup.info)
           full == defrag.n_samples = defrag.max_samples /\ s # defrag.max_sample
           dropped == IF full /\ Admits(defrag, s) THEN {SampleToDrop(defrag)} ELSE {}
           had == IF s \in dropped THEN {} ELSE BytesOf(defrag, s)
           has == had \cup f.min..(f.maxp1 - 1)
           got == BytesOf(o.defrag, s)
           exact == s \in dropped \/ ~Swallows(defrag, s, f)
           Handed == /\ o.complete => has = AllBytes /\ got = {}
                     /\ exact /\ has = AllBytes => o.complete
           Stays == IF full /\ ~Admits(defrag, s) THEN got = had
                    ELSE /\ had \subseteq got /\ got \subseteq has
                         /\ got = had => has = had
                         /\ exact => got = has
           Others == \A t \in (1..seq) \ {s} :
                       BytesOf(o.defrag, t) = IF t \in dropped THEN {} ELSE BytesOf(defrag, t)
<1> SUFFICES IF f = Iv(0, setup.info.size) THEN o = Out(defrag, TRUE)
             ELSE Handed /\ (~o.complete => Stays) /\ Others
  BY Zenon DEF AddUp
<1>0. /\ f = Fragments(i, j) /\ o = nn_defrag_rsample(defrag, s, f, setup.info)
      /\ full <=> defrag.n_samples = defrag.max_samples /\ s # defrag.max_sample
      /\ dropped = IF full /\ Admits(defrag, s) THEN {SampleToDrop(defrag)} ELSE {}
      /\ had = IF s \in dropped THEN {} ELSE BytesOf(defrag, s)
      /\ has = had \cup f.min..(f.maxp1 - 1)
      /\ got = BytesOf(o.defrag, s)
      /\ exact <=> s \in dropped \/ ~Swallows(defrag, s, f)
  BY Zenon
<1> HIDE DEF o, full, dropped, had, has, got, exact, Handed, Stays, Others
<1>1. PICK d, info, n : d = defrag /\ info = setup.info /\ n = seq BY Zenon
<1>2. Known /\ DefragOK(d, info, n) /\ d.drop_mode \in {"DROP_LATEST", "DROP_OLDEST"} BY Zenon, <1>1 DEF PInv
<1>3. InfoOK(info) /\ n \in Nat /\ info.size \in Nat BY Zenon, <1>1, <1>2, SetupFacts, SetupInfo DEF InfoOK
<1>4. IsFragments(f, info) /\ s \in 1..n BY Zenon, <1>0, <1>1, <1>3, FragmentIs
<1>5. f.min \in Nat /\ f.maxp1 \in Nat /\ f.min < f.maxp1 /\ f.maxp1 <= info.size /\ f = Iv(f.min, f.maxp1)
  BY Zenon, <1>3, <1>4, FragmentCut
<1>6. o = nn_defrag_rsample(d, s, f, info) BY Zenon, <1>0, <1>1
<1>7. (full <=> Full(d, s)) /\ dropped = Dropped(d, s) BY Zenon, <1>0, <1>1 DEF Full, Dropped
<1>8. DefragOK(o.defrag, info, n) /\ Rsampled(d, s, f, o, info)
  BY Zenon, <1>2, <1>3, <1>4, <1>6, RsampleOK
<1>9. \A t : /\ BytesOf(d, t) \subseteq 0..(info.size - 1)
             /\ \A b \in Nat : b \in BytesOf(d, t) <=> HasByte(d, t, b)
  BY Zenon, <1>2, <1>3, BytesAre
<1>10. \A t : /\ BytesOf(o.defrag, t) \subseteq 0..(info.size - 1)
              /\ \A b \in Nat : b \in BytesOf(o.defrag, t) <=> HasByte(o.defrag, t, b)
  BY Zenon, <1>3, <1>8, BytesAre
<1>11. had \subseteq 0..(info.size - 1) /\ has \subseteq 0..(info.size - 1) /\ 0..(info.size - 1) \subseteq Nat
  <2>1. had \subseteq 0..(info.size - 1) BY Zenon, <1>0, <1>1, <1>9
  <2>2. f.min..(f.maxp1 - 1) \subseteq 0..(info.size - 1) BY ONLY <1>3, <1>5
  <2>3. 0..(info.size - 1) \subseteq Nat BY ONLY <1>3
  <2> QED BY Zenon, <1>0, <2>1, <2>2, <2>3
<1>12. \A b \in Nat : b \in has <=> (b \in had \/ InIv(f, b))
  <2>1. \A b \in Nat : b \in f.min..(f.maxp1 - 1) <=> InIv(f, b) BY ONLY <1>5 DEF InIv
  <2> QED BY Zenon, <1>0, <2>1
<1>13. ASSUME f = Iv(0, setup.info.size) PROVE o = Out(defrag, TRUE)
  <2>1. f.min = 0 /\ f.maxp1 = info.size BY ONLY <1>1, <1>13 DEF Iv
  <2>2. ~nn_rdata_is_fragment(f, info) BY Zenon, <2>1 DEF nn_rdata_is_fragment
  <2> QED BY Zenon, <1>0, <1>1, <2>2 DEF nn_defrag_rsample
<1>14. ASSUME f # Iv(0, setup.info.size) PROVE nn_rdata_is_fragment(f, info)
  BY Zenon, <1>1, <1>5, <1>14 DEF nn_rdata_is_fragment
<1>15. CASE /\ Full(d, s) /\ ~Admits(d, s) /\ o.defrag = d /\ o.complete = FALSE
            /\ s \notin DOMAIN d.sampletree /\ ~AllHere(d, s, f, info)
  <2>1. dropped = {} /\ had = BytesOf(d, s) BY Zenon, <1>0, <1>1, <1>7, <1>15 DEF Dropped
  <2>2. has # AllBytes
    <3> SUFFICES ASSUME has = 0..(info.size - 1) PROVE FALSE BY Zenon, <1>1 DEF AllBytes
    <3>1. \A b \in 0..(info.size - 1) : HasByte(d, s, b) \/ InIv(f, b) BY Zenon, <1>9, <1>11, <1>12, <2>1
    <3> QED BY Zenon, <1>15, <3>1 DEF AllHere
  <2>3. Handed BY Zenon, <1>15, <2>2 DEF Handed
  <2>4. Stays BY Zenon, <1>0, <1>1, <1>7, <1>15, <2>1 DEF Stays
  <2>5. Others BY Zenon, <1>1, <1>15, <2>1 DEF Others
  <2> QED BY Zenon, <1>13, <1>14, <2>3, <2>4, <2>5
<1>16. ASSUME NEW c, Kept(d, c, Dropped(d, s)), WithFragment(c, s, f, o, info), ~(Full(d, s) /\ ~Admits(d, s))
       PROVE  Handed /\ (~o.complete => Stays) /\ Others
  <2>1. \A b \in Nat : HasByte(c, s, b) <=> b \in had
    <3>1. CASE s \in dropped BY Zenon, <1>0, <1>7, <1>16, <3>1 DEF Kept, HasByte
    <3>2. CASE s \notin dropped BY Zenon, <1>0, <1>1, <1>7, <1>9, <1>16, <3>2 DEF Kept, HasByte
    <3> QED BY Zenon, <3>1, <3>2
  <2>2. exact <=> ~Over(c, s, f)
    <3>1. s \in DOMAIN c.sampletree <=> s \in DOMAIN d.sampletree /\ s \notin dropped
      BY Zenon, <1>7, <1>16 DEF Kept
    <3>2. s \in DOMAIN c.sampletree => c.sampletree[s] = d.sampletree[s] BY Zenon, <1>16 DEF Kept
    <3>3. Over(c, s, f) <=> s \notin dropped /\ Swallows(d, s, f)
      BY Zenon, <3>1, <3>2 DEF Over, Swallows, NoneInside
    <3> QED BY Zenon, <1>0, <1>1, <3>3
  <2>3. Handed
    <3>1. AllHere(c, s, f, info) <=> \A b \in 0..(info.size - 1) : b \in has
      BY Zenon, <1>11, <1>12, <2>1 DEF AllHere
    <3>2. (\A b \in 0..(info.size - 1) : b \in has) <=> has = AllBytes BY Zenon, <1>1, <1>11 DEF AllBytes
    <3>3. o.complete => got = {} BY Zenon, <1>0, <1>16 DEF WithFragment, BytesOf
    <3> QED BY Zenon, <1>16, <2>2, <3>1, <3>2, <3>3 DEF WithFragment, Handed
  <2>4. ASSUME ~o.complete PROVE Stays
    <3>1. HasMore(c, s, f, o.defrag) BY Zenon, <1>16, <2>4 DEF WithFragment
    <3>2. got \subseteq 0..(info.size - 1) /\ \A b \in Nat : b \in got <=> HasByte(o.defrag, s, b)
      BY Zenon, <1>0, <1>10
    <3>3. had \subseteq got BY Zenon, <1>11, <2>1, <3>1, <3>2 DEF HasMore
    <3>4. got \subseteq has BY Zenon, <1>11, <1>12, <2>1, <3>1, <3>2 DEF HasMore
    <3>5. ASSUME exact PROVE got = has
      <4>1. \A b \in Nat : InIv(f, b) => b \in got BY Zenon, <2>2, <3>1, <3>2, <3>5 DEF HasMore
      <4> QED BY Zenon, <1>11, <1>12, <3>3, <3>4, <4>1
    <3>6. ASSUME got = had PROVE has = had
      <4>1. \A b \in Nat : InIv(f, b) => b \in had BY Zenon, <2>1, <3>1, <3>2, <3>6 DEF HasMore
      <4> QED BY Zenon, <1>11, <1>12, <4>1
    <3> QED BY Zenon, <1>1, <1>7, <1>16, <3>3, <3>4, <3>5, <3>6 DEF Stays
  <2>5. ASSUME NEW t \in (1..seq) \ {s}
        PROVE  BytesOf(o.defrag, t) = IF t \in dropped THEN {} ELSE BytesOf(defrag, t)
    <3>1. PICK D, E : D = d.sampletree /\ E = o.defrag.sampletree BY Zenon
    <3>2. t # s BY Zenon
    <3>3. t \in DOMAIN E <=> t \in DOMAIN c.sampletree
      BY Zenon, <1>16, <3>1, <3>2 DEF WithFragment, OthersKept
    <3>4. t \in DOMAIN c.sampletree <=> t \in DOMAIN D /\ t \notin dropped
      BY Zenon, <1>7, <1>16, <3>1 DEF Kept
    <3>5. t \in DOMAIN E => E[t] = D[t]
      BY Zenon, <1>16, <3>1, <3>2, <3>3 DEF WithFragment, OthersKept, Kept
    <3> QED BY Zenon, <1>1, <3>1, <3>3, <3>4, <3>5 DEF BytesOf
  <2>6. Others BY Zenon, <2>5 DEF Others
  <2> QED BY Zenon, <2>3, <2>4, <2>6
<1> QED BY ZenonT(40), <1>8, <1>13, <1>14, <1>15, <1>16 DEF Rsampled

\* What the next fragments leave of earlier samples.
LEMMA KeptFromInv == PInv => EarlierSamplesKept
<1> SUFFICES ASSUME PInv, setup.reliable, NEW s \in 1..seq, NEW i \in 0..(NFrags - 1), NEW j \in i..(NFrags - 1),
                    NEW o, o = nn_defrag_rsample(defrag, s, Fragments(i, j), setup.info)
             PROVE  /\ \A t \in 1..(s - 1) : BytesOf(o.defrag, t) = BytesOf(defrag, t)
                    /\ o.defrag = defrag => \/ o.complete \/ s \in DOMAIN defrag.sampletree
                                            \/ \A t \in DOMAIN defrag.sampletree : t < s
  BY DEF EarlierSamplesKept
<1>1. PICK d, info, n, f : d = defrag /\ info = setup.info /\ n = seq /\ f = Fragments(i, j) BY Zenon
<1>2. Known /\ DefragOK(d, info, n) /\ d.drop_mode = "DROP_LATEST" BY Zenon, <1>1 DEF PInv
<1>3. InfoOK(info) /\ n \in Nat /\ s \in 1..n /\ IsFragments(f, info)
  BY Zenon, <1>1, <1>2, SetupFacts, SetupInfo, FragmentIs
<1>4. o = nn_defrag_rsample(d, s, f, info) /\ d.drop_mode \in {"DROP_LATEST", "DROP_OLDEST"} BY Zenon, <1>1, <1>2
<1>5. Rsampled(d, s, f, o, info) BY Zenon, <1>2, <1>3, <1>4, RsampleOK
<1>6. CASE Full(d, s) /\ ~Admits(d, s) /\ o.defrag = d
  <2>1. \A t \in DOMAIN d.sampletree : t < s BY Zenon, <1>2, <1>3, <1>6, RefusedIsNew
  <2> QED BY Zenon, <1>1, <1>6, <2>1
<1>7. ASSUME NEW c, Kept(d, c, Dropped(d, s)), WithFragment(c, s, f, o, info)
      PROVE  /\ \A t \in 1..(s - 1) : BytesOf(o.defrag, t) = BytesOf(d, t)
             /\ o.defrag = d => o.complete \/ s \in DOMAIN d.sampletree
  <2>1. \A t \in Dropped(d, s) : t > s
    <3>1. PICK D, x, z : D = DOMAIN d.sampletree /\ x = MaxOr0(D) /\ z = Min(D) BY Zenon
    <3>2. D \subseteq 1..n /\ d.max_sample = x /\ d.max_samples \in Nat BY Zenon, <1>2, <3>1 DEF DefragOK
    <3>3. x \in 0..n BY Zenon, <1>3, <3>1, <3>2, Extremes
    <3>4. Full(d, s) /\ Admits(d, s) => x > s
      BY <1>2, <1>3, <3>2, <3>3 DEF Full, Admits
    <3> QED BY Zenon, <1>2, <3>2, <3>4 DEF Dropped, SampleToDrop
  <2>2. ASSUME NEW t \in 1..(s - 1) PROVE BytesOf(o.defrag, t) = BytesOf(d, t)
    <3>1. t # s /\ t \notin Dropped(d, s) BY <1>3, <2>1
    <3>2. t \in DOMAIN o.defrag.sampletree <=> t \in DOMAIN c.sampletree
      BY Zenon, <1>7, <3>1 DEF WithFragment, OthersKept
    <3>3. t \in DOMAIN c.sampletree <=> t \in DOMAIN d.sampletree BY Zenon, <1>7, <3>1 DEF Kept
    <3>4. t \in DOMAIN c.sampletree => o.defrag.sampletree[t] = d.sampletree[t]
      BY Zenon, <1>7, <3>1, <3>2 DEF WithFragment, OthersKept, Kept
    <3> QED BY Zenon, <3>2, <3>3, <3>4 DEF BytesOf
  <2>3. ~o.complete => s \in DOMAIN o.defrag.sampletree BY Zenon, <1>7 DEF WithFragment, HasMore
  <2> QED BY Zenon, <2>2, <2>3
<1>8. PassesBy(d, o) => o.defrag = d /\ o.complete = TRUE BY DEF PassesBy, Out
<1> QED BY Zenon, <1>1, <1>5, <1>6, <1>7, <1>8 DEF Rsampled

\* What the next NackFrag asks for.
LEMMA NackFromInv == PInv => NackFragExact
<1> SUFFICES ASSUME PInv PROVE NackFragExact BY Zenon
<1> USE DEF NackFragExact
<1> TAKE s \in DOMAIN defrag.sampletree, maxfragnum \in (0..(NFrags - 1)) \cup {ALL_FRAGS}, maxsz \in {1, 256}
<1> DEFINE has == BytesOf(defrag, s)
           m == nn_defrag_nackmap(defrag, s, maxfragnum, maxsz, setup.info)
           got == {i \in 0..(NFrags - 1) : Fragment(i).min \in has}
           top == Max({Min({maxfragnum, NFrags - 1})} \cup got)
           missing == (0..top) \ got
<1> SUFFICES m.bits = IF missing = {} THEN {} ELSE missing \cap Min(missing)..(Min(missing) + maxsz - 1)
  BY Zenon
<1>0. /\ has = BytesOf(defrag, s) /\ m = nn_defrag_nackmap(defrag, s, maxfragnum, maxsz, setup.info)
      /\ got = {i \in 0..(NFrags - 1) : Fragment(i).min \in has}
      /\ top = Max({Min({maxfragnum, NFrags - 1})} \cup got)
      /\ missing = (0..top) \ got
  BY Zenon
<1> HIDE DEF NackFragExact, has, m, got, top, missing
<1>1. PICK d, info, n, x, T : d = defrag /\ info = setup.info /\ n = seq /\ x = d.sampletree[s] /\ T = x.fragtree
  OBVIOUS
<1>2. PICK N : N = NFragsOf(info) BY Zenon
<1>3. Known /\ DefragOK(d, info, n) BY Zenon, <1>1 DEF PInv
<1>4. InfoOK(info) /\ n \in Nat BY Zenon, <1>1, <1>3, SetupFacts, SetupInfo
<1>5. SampleOK(x, info) BY Zenon, <1>1, <1>3 DEF DefragOK
<1>6. NFrags = N /\ N \in Nat /\ N > 0
  <2>1. NFrags = N BY Zenon, <1>1, <1>2 DEF NFrags, NFragsOf
  <2> QED BY Zenon, <1>2, <1>4, <2>1, StartFacts
<1>7. PICK mf : mf = Min({maxfragnum, N - 1}) BY Zenon
<1>8. mf \in 0..(N - 1)
  <2>1. PICK S : S = {maxfragnum, N - 1} BY Zenon
  <2>2. maxfragnum \in Nat /\ N - 1 \in Nat BY <1>6 DEF ALL_FRAGS
  <2>3. S \in SUBSET Nat /\ S # {} BY Zenon, <2>1, <2>2
  <2>4. mf \in S /\ \A y \in S : mf <= y BY Zenon, <1>7, <2>1, <2>3, Minimum
  <2>5. mf \in Nat /\ mf <= N - 1 BY Zenon, <2>1, <2>2, <2>4
  <2> QED BY <1>6, <2>5
<1>9. PICK base : base = FragOf(FirstIv(T).maxp1, info) BY Zenon
<1>10. m = KnownMap(x, base, mf, maxsz, info)
  BY Zenon, <1>0, <1>1, <1>2, <1>7, <1>9 DEF nn_defrag_nackmap, FragOf, NFragsOf
<1>11. got = Got(T, N, info)
  <2>1. ASSUME NEW i \in 0..(N - 1) PROVE Fragment(i).min \in has <=> Covered(T, Start(i, info))
    <3>1. Fragment(i).min = Start(i, info) BY Zenon, <1>1 DEF Fragment, Fragments, Iv, Start
    <3>2. i \in Nat BY <1>6
    <3>3. Start(i, info) \in Nat BY Zenon, <1>2, <1>4, <3>2, StartFacts
    <3>4. Start(i, info) \in BytesOf(d, s) <=> HasByte(d, s, Start(i, info))
      BY Zenon, <1>3, <1>4, <3>3, BytesAre
    <3> QED BY Zenon, <1>0, <1>1, <3>1, <3>4 DEF HasByte
  <2> QED BY <1>0, <1>6, <2>1 DEF Got
<1>12. top = Max({mf} \cup got) BY Zenon, <1>0, <1>6, <1>7
<1>13. missing = (0..top) \ got /\ maxsz \in Nat /\ maxsz > 0 BY <1>0
<1>14. NackCase(info, x, T, N, mf, maxsz, base, m, got, missing)
  BY Zenon, <1>1, <1>2, <1>4, <1>5, <1>8, <1>9, <1>10, <1>11, <1>12, <1>13 DEF NackCase
<1>15. MapIs(m.bits, missing, maxsz) BY <1>14, NackMap
<1> QED BY ZenonT(40), <1>15 DEF MapIs

\* What the readers acknowledge.
LEMMA AckFromInv == PInv => AcknowledgedIsQueued
<1> SUFFICES ASSUME PInv, NEW r \in TLReader \cap Matched, setup.reliable
             PROVE  1..(RefReorder(r).next_seq - 1) \subseteq queued[r] \cup gone
  BY Zenon DEF AcknowledgedIsQueued
<1>1. r \in Reader /\ readers \in [Reader -> MatchRec] /\ Caught(readers[r], queued[r], reorder.next_seq, gone)
  BY Zenon, ProxyWriterAssumption DEF PInv, ReadersOK
<1>2. readers[r].in_sync \in {"SYNC", "TLCATCHUP", "OUT_OF_SYNC"} BY Zenon, <1>1 DEF MatchRec, Matched
<1> QED BY Zenon, <1>1, <1>2 DEF Caught, RefReorder

---------------------------------------------------------------------------
(* The theorems. *)

\* The variables have their types: what is known of the writer, what is in the
\* defragmenter and what the reorder buffers hold agree with the samples that
\* the writer wrote.
THEOREM TypeCorrect == Spec => []TypeOK
BY Invariant, TypeFrom, PTL

\* A transient-local reader of a reliable writer acknowledges (add_AckNack,
\* from its own reorder buffer while it is out of sync and from the proxy
\* writer's otherwise) only samples that are in the delivery queue for it or
\* that the writer no longer has.
THEOREM AckSound == Spec => []AcknowledgedIsQueued
BY Invariant, AckFromInv, PTL

\* The defragmenter's counts, its cached last sample and each sample's cached
\* last interval are what its trees say; intervals are apart, the first one
\* starts at 0, and no complete sample stays.
THEOREM DefragCorrect == Spec => []DefragExact
BY Invariant, ExactFromInv, PTL

\* nn_defrag_rsample in any state the proxy writer can be in, for one fragment
\* or several that overlap what is there: their sample keeps its bytes, gets
\* only bytes that came and at least one new one if there is any, and is
\* returned only when all its bytes are there.  All bytes are taken, and the
\* sample is returned at once, unless the fragments reach over both ends of
\* an interval.  At most one other sample changes, dropped to make room.
THEOREM DefragAddsUp == Spec => []FragmentsAddUp
BY Invariant, AddUpFromInv, PTL

\* A reliable writer's defragmenter never gives up what it has of an earlier
\* sample for a later one, and refuses only what comes after all it has.
THEOREM EarlierFirst == Spec => []EarlierSamplesKept
BY Invariant, KeptFromInv, PTL

\* nn_defrag_nackmap, for any sample the defragmenter has: a NackFrag asks for
\* exactly the fragments that are missing of those published, from the first
\* one on and as far as its bitmap reaches.
THEOREM NackFragsRight == Spec => []NackFragExact
BY Invariant, NackFromInv, PTL
=============================================================================
