------------------------------ MODULE Reorder ------------------------------
(***************************************************************************)
(* The reorder buffer of q_radmin.c (struct nn_reorder): samples that      *)
(* arrive ahead of next_seq wait in a tree of disjoint, non-contiguous     *)
(* intervals until the gap before them is closed, by data or by the        *)
(* writer saying (in a Gap or a Heartbeat) that it has no such samples.    *)
(*                                                                         *)
(*   reorder    struct nn_reorder.  An interval is [min, maxp1, sc], sc    *)
(*              its rsample chain, a sequence of sequence numbers with 0   *)
(*              for an element that stands for a gap (sampleinfo = NULL);  *)
(*              the interval's n_samples is Len(sc).  max_sampleiv is the  *)
(*              min of the interval pointed at, 0 for NULL.                *)
(*   delivered  ghost: the chains returned for delivery, one after the     *)
(*              other                                                      *)
(*   declared   ghost: the sequence numbers ever passed to nn_reorder_gap  *)
(*                                                                         *)
(* The operations run under the proxy writer's lock, hence are atomic.     *)
(***************************************************************************)
EXTENDS Integers, FiniteSets, Sequences, FiniteSetsExt

CONSTANTS
  MaxSeq,      \* samples 1..MaxSeq exist
  Buffers,     \* the [mode, max_samples, late_ack_mode] considered
  GapMins(_),  \* where the declared gaps start, for a buffer of that many samples
  MaxDelivered \* bound on Len(delivered) in mode ALWAYS_DELIVER

ASSUME ReorderAssumption ==
  /\ MaxSeq \in Nat \ {0} /\ MaxDelivered \in Nat
  /\ \A b \in Buffers : GapMins(b.max_samples) \subseteq 1..MaxSeq
  /\ Buffers \subseteq [mode : {"NORMAL", "MONOTONICALLY_INCREASING", "ALWAYS_DELIVER"},
                        max_samples : Nat, late_ack_mode : BOOLEAN]

VARIABLES reorder, delivered, declared

vars == <<reorder, delivered, declared>>

Interval(min, maxp1, sc) == [min |-> min, maxp1 |-> maxp1, sc |-> sc]
NoIv == Interval(0, 0, << >>)

nn_reorder_new(b) ==
  [mode |-> b.mode, max_samples |-> b.max_samples, late_ack_mode |-> b.late_ack_mode,
   sampleivtree |-> {}, max_sampleiv |-> 0, next_seq |-> 1, n_samples |-> 0]

Init ==
  /\ \E b \in Buffers : reorder = nn_reorder_new(b)
  /\ delivered = << >>
  /\ declared = {}

---------------------------------------------------------------------------
(* The interval tree. *)

Lowest(ivs) == IF ivs = {} THEN NoIv ELSE CHOOSE i \in ivs : \A j \in ivs : i.min <= j.min
Highest(ivs) == IF ivs = {} THEN NoIv ELSE CHOOSE i \in ivs : \A j \in ivs : i.min >= j.min
LookupPredEq(r, s) == Highest({i \in r.sampleivtree : i.min <= s})
MaxIv(r) == Highest({i \in r.sampleivtree : i.min = r.max_sampleiv})

\* The elements of the chains of some intervals, each with its place.
Elements(ivs) == UNION {{i} \X DOMAIN i.sc : i \in ivs}

append_rsample_interval(a, b) == Interval(a.min, b.maxp1, a.sc \o b.sc)

\* Mutant of delete_last_sample: the first sample goes instead of the last.
delete_last_sample_First(r) ==
  LET first == Lowest(r.sampleivtree)
      rest == r.sampleivtree \ {first}
  IN  IF Len(first.sc) = 1
      THEN [r EXCEPT !.sampleivtree = rest]
      ELSE [r EXCEPT !.sampleivtree = rest \cup {Interval(first.min + 1, first.maxp1, Tail(first.sc))}]

\* Removes the last sample of the last interval to make room for an earlier
\* one; the interval shrinks by one.
delete_last_sample(r) ==
  LET last == MaxIv(r)
      rest == r.sampleivtree \ {last}
  IN  IF Len(last.sc) = 1
      THEN [r EXCEPT !.sampleivtree = rest, !.max_sampleiv = Highest(rest).min]
      ELSE [r EXCEPT !.sampleivtree = rest \cup {Interval(last.min, last.maxp1 - 1, SubSeq(last.sc, 1, Len(last.sc) - 1))}]

\* Mutant of CountOrEvict: the new sample is not counted.
CountOrEvict_NotCounted(r) == IF r.n_samples < r.max_samples THEN r ELSE delete_last_sample(r)

CountOrEvict(r) ==
  IF r.n_samples < r.max_samples THEN [r EXCEPT !.n_samples = @ + 1] ELSE delete_last_sample(r)

---------------------------------------------------------------------------
(* A sample arrives. *)

Deliverable(r, s) ==
  \/ s = r.next_seq
  \/ s > r.next_seq /\ r.mode = "MONOTONICALLY_INCREASING"
  \/ r.mode = "ALWAYS_DELIVER"

\* Mutant of DeliverSample: joins the first interval over a missing sample.
DeliverSample_OffByOne(s) ==
  LET first == Lowest(reorder.sampleivtree)
      joined == first # NoIv /\ s + 2 >= first.min
      out == IF joined THEN append_rsample_interval(Interval(s, s + 1, <<s>>), first)
             ELSE Interval(s, s + 1, <<s>>)
  IN  /\ reorder' = [reorder EXCEPT
                       !.sampleivtree = IF joined THEN @ \ {first} ELSE @,
                       !.max_sampleiv = IF joined /\ first.min = @ THEN 0 ELSE @,
                       !.next_seq = out.maxp1,
                       !.n_samples = @ - (Len(out.sc) - 1)]
      /\ delivered' = delivered \o out.sc

\* The sample, with the first interval when that now follows it.
DeliverSample(s) ==
  LET first == Lowest(reorder.sampleivtree)
      joined == first # NoIv /\ s + 1 >= first.min
      out == IF joined THEN append_rsample_interval(Interval(s, s + 1, <<s>>), first)
             ELSE Interval(s, s + 1, <<s>>)
  IN  /\ reorder' = [reorder EXCEPT
                       !.sampleivtree = IF joined THEN @ \ {first} ELSE @,
                       !.max_sampleiv = IF joined /\ first.min = @ THEN 0 ELSE @,
                       !.next_seq = out.maxp1,
                       !.n_samples = @ - (Len(out.sc) - 1)]
      /\ delivered' = delivered \o out.sc

\* At the end of the tree: grow the last interval or start a new one.
AppendSample(s) ==
  LET last == MaxIv(reorder)
      grown == append_rsample_interval(last, Interval(s, s + 1, <<s>>))
  IN  reorder' = IF last # NoIv /\ s = last.maxp1
                 THEN [reorder EXCEPT !.sampleivtree = (@ \ {last}) \cup {grown},
                                      !.n_samples = @ + 1]
                 ELSE [reorder EXCEPT !.sampleivtree = @ \cup {Interval(s, s + 1, <<s>>)},
                                      !.max_sampleiv = s,
                                      !.n_samples = @ + 1]

\* Mutant of InsertSample: max_sampleiv is left on the interval that was
\* absorbed.
InsertSample_StaleMax(s) ==
  LET predeq == LookupPredEq(reorder, s)
      immsucc == Highest({i \in reorder.sampleivtree : i.min = s + 1})
      new == Interval(s, s + 1, <<s>>)
      left == IF predeq # NoIv /\ predeq.maxp1 = s THEN predeq ELSE NoIv
      grown == IF left = NoIv THEN new ELSE append_rsample_interval(left, new)
      joined == IF immsucc = NoIv THEN grown ELSE append_rsample_interval(grown, immsucc)
  IN  reorder' = [reorder EXCEPT !.sampleivtree = (@ \ {left, immsucc}) \cup {joined},
                                 !.n_samples = Min({@ + 1, reorder.max_samples})]

\* In the middle: extend predeq, and perhaps join it with immsucc; or extend
\* immsucc; or start a new interval.  Then evict when over max_samples.
InsertSample(s) ==
  LET predeq == LookupPredEq(reorder, s)
      immsucc == Highest({i \in reorder.sampleivtree : i.min = s + 1})
      new == Interval(s, s + 1, <<s>>)
      left == IF predeq # NoIv /\ predeq.maxp1 = s THEN predeq ELSE NoIv
      grown == IF left = NoIv THEN new ELSE append_rsample_interval(left, new)
      joined == IF immsucc = NoIv THEN grown ELSE append_rsample_interval(grown, immsucc)
      r1 == [reorder EXCEPT
               !.sampleivtree = (@ \ {left, immsucc}) \cup {joined},
               !.max_sampleiv = IF immsucc # NoIv /\ @ = immsucc.min THEN joined.min ELSE @]
  IN  reorder' = CountOrEvict(r1)

\* Whether a sample that cannot be delivered yet is refused: it is too old,
\* present already, or there is no room for it here or behind this buffer.
Refused(r, s, full) ==
  LET last == MaxIv(r)
      predeq == LookupPredEq(r, s)
  IN  \/ s < r.next_seq
      \/ last = NoIv /\ r.max_samples = 0
      \/ last # NoIv /\ s >= last.maxp1 /\ (full \/ r.n_samples >= r.max_samples)
      \/ last # NoIv /\ s < last.maxp1 /\ ((r.late_ack_mode /\ full) \/ s < predeq.maxp1)

nn_reorder_rsample(s, full) ==
  /\ \/ Deliverable(reorder, s) /\ ~full /\ DeliverSample(s)
     \/ Deliverable(reorder, s) /\ full /\ UNCHANGED <<reorder, delivered>>
     \/ /\ ~Deliverable(reorder, s)
        /\ Refused(reorder, s, full)
        /\ UNCHANGED <<reorder, delivered>>
     \/ /\ ~Deliverable(reorder, s)
        /\ ~Refused(reorder, s, full)
        /\ IF s >= MaxIv(reorder).maxp1 THEN AppendSample(s) ELSE InsertSample(s)
        /\ UNCHANGED delivered
  /\ UNCHANGED declared

---------------------------------------------------------------------------
(* The writer declares [min, maxp1) unavailable. *)

\* The chains of the intervals one after the other, as append_rsample_interval
\* makes it when it is called for each of them in turn.
Chained(ivs) ==
  LET before(i) == Cardinality(Elements({j \in ivs : j.min < i.min}))
      at(p) == CHOOSE i \in ivs : p - before(i) \in DOMAIN i.sc
  IN  [p \in 1..Cardinality(Elements(ivs)) |-> at(p).sc[p - before(at(p))]]

Touching(r, min, maxp1) == {i \in r.sampleivtree : i.maxp1 >= min /\ i.min <= maxp1}

\* Mutant of coalesce_intervals_touching_range: the range is one too long.
coalesce_OffByOne(r, min, maxp1) ==
  LET ivs == Touching(r, min, maxp1)
  IN  IF ivs = {} THEN NoIv
      ELSE Interval(Min({min} \cup {i.min : i \in ivs}), Max({maxp1 + 1} \cup {i.maxp1 : i \in ivs}),
                    Chained(ivs))

\* All intervals that overlap or touch the range become one that covers it.
coalesce_intervals_touching_range(r, min, maxp1) ==
  LET ivs == Touching(r, min, maxp1)
  IN  IF ivs = {} THEN NoIv
      ELSE Interval(Min({min} \cup {i.min : i \in ivs}), Max({maxp1} \cup {i.maxp1 : i \in ivs}),
                    Chained(ivs))

RefreshMax(r) == [r EXCEPT !.max_sampleiv = Highest(r.sampleivtree).min]

\* No interval touches the gap: move next_seq, or store the gap as an
\* interval of its own unless the buffer is full and it would be the last.
GapAlone(min, maxp1) ==
  LET new == [reorder EXCEPT !.sampleivtree = @ \cup {Interval(min, maxp1, <<0>>)}]
      last == MaxIv(reorder)
  IN  /\ reorder' = IF min <= reorder.next_seq
                    THEN [reorder EXCEPT !.next_seq = maxp1]
                    ELSE IF /\ reorder.n_samples = reorder.max_samples
                            /\ (last = NoIv \/ min > last.maxp1)
                    THEN reorder
                    ELSE RefreshMax(CountOrEvict(new))
      /\ UNCHANGED delivered

\* The gap joins intervals: they are delivered when it starts at next_seq.
GapJoins(min, maxp1, all) ==
  LET rest == reorder.sampleivtree \ Touching(reorder, min, maxp1)
  IN  IF all.min <= reorder.next_seq
      THEN /\ reorder' = RefreshMax([reorder EXCEPT !.sampleivtree = rest,
                                                    !.next_seq = all.maxp1,
                                                    !.n_samples = @ - Len(all.sc)])
           /\ delivered' = delivered \o all.sc
      ELSE /\ reorder' = RefreshMax([reorder EXCEPT !.sampleivtree = rest \cup {all}])
           /\ UNCHANGED delivered

nn_reorder_gap(min, maxp1) ==
  LET all == coalesce_intervals_touching_range(reorder, min, maxp1)
  IN  /\ declared' = declared \cup min..(maxp1 - 1)
      /\ IF maxp1 <= reorder.next_seq \/ reorder.mode # "NORMAL"
         THEN UNCHANGED <<reorder, delivered>>
         ELSE IF all = NoIv THEN GapAlone(min, maxp1) ELSE GapJoins(min, maxp1, all)

Next ==
  \/ /\ reorder.mode = "ALWAYS_DELIVER" => Len(delivered) < MaxDelivered
     /\ \E s \in 1..MaxSeq, full \in BOOLEAN : nn_reorder_rsample(s, full)
  \/ \E min \in GapMins(reorder.max_samples), maxp1 \in 2..(MaxSeq + 1) : min < maxp1 /\ nn_reorder_gap(min, maxp1)

Spec == Init /\ [][Next]_vars

---------------------------------------------------------------------------
(* Queries the acknowledgements are made from. *)

nn_reorder_wantsample(r, s) ==
  s >= r.next_seq /\ LET i == LookupPredEq(r, s) IN i = NoIv \/ i.maxp1 <= s

\* Mutant of nn_reorder_nackmap: asks for the last sample of an interval.
nackmap_OffByOne(r, base, maxseq, maxsz, notail) ==
  LET numbits == Min({maxseq + 1 - base, maxsz, r.max_samples})
  IN  [numbits |-> numbits,
       bits |-> {s \in base..(base + numbits - 1) :
                   \A i \in r.sampleivtree : s < i.min \/ s >= i.maxp1 - 1}]

\* The bitmap of an AckNack: its length, and the sequence numbers asked for.
\* notail: do not ask for what lies beyond the last sample received.
nn_reorder_nackmap(r, base, maxseq, maxsz, notail) ==
  LET lim == Min({maxseq + 1 - base, maxsz, r.max_samples})
      tail == IF r.sampleivtree = {} THEN base ELSE Highest(r.sampleivtree).maxp1
      numbits == IF notail /\ tail < base + lim THEN tail - base ELSE lim
  IN  [numbits |-> numbits,
       bits |-> {s \in base..(base + numbits - 1) :
                   \A i \in r.sampleivtree : s < i.min \/ s >= i.maxp1}]

---------------------------------------------------------------------------
(* Properties. *)

Stored(r) == UNION {{i.sc[x] : x \in DOMAIN i.sc} \ {0} : i \in r.sampleivtree}

\* The buffer and the history variables have their types; n_samples, unsigned
\* in the code, does not wrap below zero.
TypeOK ==
  /\ reorder.next_seq \in 1..(MaxSeq + 1)
  /\ reorder.n_samples \in Nat /\ reorder.max_sampleiv \in 0..MaxSeq
  /\ \A i \in reorder.sampleivtree :
       i.min \in 1..MaxSeq /\ i.maxp1 \in 2..(MaxSeq + 1) /\ i.sc \in Seq(0..MaxSeq)
  /\ delivered \in Seq(0..MaxSeq)
  /\ declared \subseteq 1..MaxSeq

\* The comment above struct nn_reorder and the asserts on entry of
\* nn_reorder_rsample: disjoint, non-consecutive intervals beyond next_seq,
\* max_sampleiv the last of them, never more than max_samples elements, and
\* in each interval the chain in sequence number order.
TreeExact ==
  LET ivs == reorder.sampleivtree
  IN  /\ \A i \in ivs : reorder.next_seq < i.min /\ i.min + Len(i.sc) <= i.maxp1
      /\ \A i, j \in ivs : i # j => i.maxp1 < j.min \/ j.maxp1 < i.min
      /\ reorder.max_sampleiv = Highest(ivs).min
      /\ reorder.n_samples = Cardinality(Elements(ivs))
      /\ reorder.n_samples <= reorder.max_samples
      /\ \A i \in ivs : \A x \in DOMAIN i.sc : i.sc[x] # 0 =>
           /\ i.min <= i.sc[x] /\ i.sc[x] < i.maxp1
           /\ \A y \in DOMAIN i.sc : x < y /\ i.sc[y] # 0 => i.sc[x] < i.sc[y]

\* An interval stands for samples that are in its chain or that the writer
\* declared unavailable: when it is returned for delivery, "the chain of
\* consecutive samples ready for delivery" (nn_reorder_rsample) is complete.
IntervalsBacked ==
  \A i \in reorder.sampleivtree :
    \A s \in i.min..(i.maxp1 - 1) : s \in declared \/ \E x \in DOMAIN i.sc : i.sc[x] = s

\* Every sample passed over was delivered or declared unavailable.  Holds
\* when the buffer never fills up; see the small-buffer runs for when not.
NothingSkipped ==
  reorder.mode = "NORMAL" =>
    \A s \in 1..(reorder.next_seq - 1) :
      s \in declared \/ \E x \in DOMAIN delivered : delivered[x] = s

\* An AckNack asks only for samples that are missing, for no more than the
\* buffer can hold, and always for the next one needed if the writer has it:
\* otherwise nothing would ever close the gap.
NackmapExact ==
  \A maxseq \in (reorder.next_seq - 1)..MaxSeq, maxsz \in {1, MaxSeq}, notail \in BOOLEAN :
    LET m == nn_reorder_nackmap(reorder, reorder.next_seq, maxseq, maxsz, notail)
    IN  /\ m.numbits <= reorder.max_samples
        /\ \A s \in m.bits : nn_reorder_wantsample(reorder, s) /\ s <= maxseq
        /\ \/ maxseq < reorder.next_seq \/ reorder.max_samples = 0
           \/ notail /\ reorder.sampleivtree = {}
           \/ reorder.next_seq \in m.bits

\* "The policy is to prefer the lowest sequence numbers": a stored sample is
\* given up, without being delivered, only in favour of earlier ones.
PreferLowest ==
  [][\A s \in Stored(reorder) \ Stored(reorder') :
        \/ \E x \in DOMAIN delivered' : delivered'[x] = s
        \/ \A t \in Stored(reorder') : t < s]_vars

Promise == CASE reorder.mode = "NORMAL" -> "reliable"
             [] reorder.mode = "MONOTONICALLY_INCREASING" -> "ordered"
             [] OTHER -> "none"

IOD == INSTANCE InOrderDelivery WITH next_seq <- reorder.next_seq, promise <- Promise

\* Whatever order, duplicates and losses the network inflicts, the buffer
\* delivers in order, once, and skips only what was declared unavailable.
ImplementsInOrderDelivery == IOD!Spec
=============================================================================
