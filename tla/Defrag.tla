------------------------------- MODULE Defrag -------------------------------
(***************************************************************************)
(* The defragmenter of q_radmin.c (struct nn_defrag): fragments of samples *)
(* arrive in any order and more than once; a sample leaves it when all its *)
(* bytes have arrived.  At most max_samples are put together at a time.    *)
(*                                                                         *)
(* A defragmenter is a record                                              *)
(*   sampletree   the samples, by sequence number                          *)
(*   max_sample   the highest of them (a cache), 0 for none                *)
(*   n_samples, max_samples, drop_mode                                     *)
(* and a sample is the set of its fragment intervals [min, maxp1) with the *)
(* min of the last one (lastfrag, a cache).  Offsets are in bytes; a byte  *)
(* is what the properties tell apart, and samples here have few of them.   *)
(* Every sample has the size and the fragment size in info.  Left out: the *)
(* chains of received packets and their reference counts, and a receive    *)
(* buffer without room for another interval.                               *)
(***************************************************************************)
EXTENDS Integers, FiniteSets, FiniteSetsExt

Iv(min, maxp1) == [min |-> min, maxp1 |-> maxp1]
Sentinel == Iv(0, 0)
FirstIv(ivs) == CHOOSE i \in ivs : \A j \in ivs : i.min <= j.min
LastIv(ivs) == CHOOSE i \in ivs : \A j \in ivs : i.min >= j.min
FindSucc(ivs, iv) == FirstIv({j \in ivs : j.min > iv.min})
Lastfrag(sample) == CHOOSE i \in sample.fragtree : i.min = sample.lastfrag
MaxOr0(S) == IF S = {} THEN 0 ELSE Max(S)

nn_defrag_new(mode, max_samples) ==
  [sampletree |-> << >>, max_sample |-> 0, n_samples |-> 0,
   max_samples |-> max_samples, drop_mode |-> mode]

---------------------------------------------------------------------------
(* One sample. *)

\* The sentinel stands in for the first bytes until they arrive.
defrag_rsample_new(f) ==
  [fragtree |-> IF f.min > 0 THEN {Sentinel, f} ELSE {f}, lastfrag |-> f.min]

\* Mutant: lastfrag stays on the interval that was absorbed.
defrag_try_merge_with_succ_StaleLast(sample, node) ==
  IF node.min = sample.lastfrag \/ FindSucc(sample.fragtree, node).min > node.maxp1
  THEN sample
  ELSE LET succ == FindSucc(sample.fragtree, node)
       IN  [sample EXCEPT !.fragtree = (@ \ {node, succ}) \cup {Iv(node.min, succ.maxp1)}]

\* The successor is absorbed if there is no gap before it; the interval then
\* ends where the successor ended.  The code's loop around this never goes
\* round a second time, for it ends when node->maxp1 > succ_maxp1 is false
\* and node->maxp1 has just been made equal to succ_maxp1.
defrag_try_merge_with_succ(sample, node) ==
  IF node.min = sample.lastfrag \/ FindSucc(sample.fragtree, node).min > node.maxp1
  THEN sample
  ELSE LET succ == FindSucc(sample.fragtree, node)
       IN  [fragtree |-> (sample.fragtree \ {node, succ}) \cup {Iv(node.min, succ.maxp1)},
            lastfrag |-> IF sample.lastfrag = succ.min THEN node.min ELSE sample.lastfrag]

\* Mutant: the gap to the successor is not looked at.
GrowPredeq_NoMerge(sample, predeq, f) ==
  [sample EXCEPT !.fragtree = (@ \ {predeq}) \cup {Iv(predeq.min, f.maxp1)}]

GrowPredeq(sample, predeq, f) ==
  LET grown == Iv(predeq.min, f.maxp1)
  IN  defrag_try_merge_with_succ(
        [sample EXCEPT !.fragtree = (@ \ {predeq}) \cup {grown}], grown)

ExtendSucc(sample, succ, f) ==
  LET low == Iv(f.min, IF f.maxp1 > succ.maxp1 THEN f.maxp1 ELSE succ.maxp1)
      extended == [fragtree |-> (sample.fragtree \ {succ}) \cup {low},
                   lastfrag |-> IF sample.lastfrag = succ.min THEN f.min ELSE sample.lastfrag]
  IN  IF f.maxp1 > succ.maxp1 THEN defrag_try_merge_with_succ(extended, low) ELSE extended

defrag_rsample_addiv(sample, f) ==
  [fragtree |-> sample.fragtree \cup {f},
   lastfrag |-> IF f.min > sample.lastfrag THEN f.min ELSE sample.lastfrag]

Predeq(sample, f) ==
  IF f.min >= sample.lastfrag THEN Lastfrag(sample)
  ELSE LastIv({i \in sample.fragtree : i.min <= f.min})

Appends(predeq, f) == predeq.maxp1 < f.maxp1 /\ f.min <= predeq.maxp1

TouchesSucc(sample, predeq, f) ==
  predeq.min # sample.lastfrag /\ FindSucc(sample.fragtree, predeq).min <= f.maxp1

defrag_add_fragment(sample, predeq, f) ==
  IF predeq.maxp1 >= f.maxp1 THEN sample
  ELSE IF f.min <= predeq.maxp1 THEN GrowPredeq(sample, predeq, f)
  ELSE IF TouchesSucc(sample, predeq, f)
       THEN ExtendSucc(sample, FindSucc(sample.fragtree, predeq), f)
  ELSE defrag_rsample_addiv(sample, f)

is_complete(sample, info) == \E i \in sample.fragtree : i.min = 0 /\ i.maxp1 >= info.size

---------------------------------------------------------------------------
(* The samples. *)

WithSample(d, s, sample) ==
  [d EXCEPT !.sampletree = [t \in DOMAIN @ \cup {s} |-> IF t = s THEN sample ELSE @[t]]]

defrag_rsample_drop(d, S) ==
  [d EXCEPT !.sampletree = [t \in DOMAIN @ \ S |-> @[t]],
            !.n_samples = @ - Cardinality(S)]

RefreshMaxSample(d) == [d EXCEPT !.max_sample = MaxOr0(DOMAIN d.sampletree)]

\* At the limit: which sample is given up, and whether the fragment may come
\* in at all.
SampleToDrop(d) == IF d.drop_mode = "DROP_LATEST" THEN d.max_sample ELSE Min(DOMAIN d.sampletree)

\* Mutant: the latest is dropped for a sample that is later still.
Admits_Latest(d, s) == TRUE

Admits(d, s) ==
  \/ d.n_samples < d.max_samples
  \/ d.drop_mode = "DROP_LATEST" /\ s <= d.max_sample
  \/ d.drop_mode = "DROP_OLDEST" /\ s >= SampleToDrop(d)

\* Called for every fragment that is not of max_sample, also when its sample
\* is known and no room is needed.
defrag_limit_samples(d) ==
  IF d.n_samples < d.max_samples THEN d
  ELSE LET dropped == defrag_rsample_drop(d, {SampleToDrop(d)})
       IN  IF SampleToDrop(d) = d.max_sample THEN RefreshMaxSample(dropped) ELSE dropped

nn_rdata_is_fragment(f, info) == ~(f.min = 0 /\ f.maxp1 = info.size)

Out(d, complete) == [defrag |-> d, complete |-> complete]

\* The sample with the fragment goes back into the tree, or leaves it.
AddTo(d, s, f, info) ==
  LET predeq == Predeq(d.sampletree[s], f)
      sample == defrag_add_fragment(d.sampletree[s], predeq, f)
      complete == Appends(predeq, f) /\ is_complete(sample, info)
      removed == defrag_rsample_drop(d, {s})
  IN  Out(IF ~complete THEN WithSample(d, s, sample)
          ELSE IF s = d.max_sample THEN RefreshMaxSample(removed) ELSE removed,
          complete)

AddNew(d, s, f) ==
  [WithSample(d, s, defrag_rsample_new(f)) EXCEPT
     !.n_samples = @ + 1,
     !.max_sample = IF s > @ THEN s ELSE @]

AddToOrNew(d, s, f, info) ==
  IF s \in DOMAIN d.sampletree THEN AddTo(d, s, f, info) ELSE Out(AddNew(d, s, f), FALSE)

\* Fragment f of sample s arrives.
nn_defrag_rsample(d, s, f, info) ==
  IF ~nn_rdata_is_fragment(f, info) THEN Out(d, TRUE)
  ELSE IF s = d.max_sample THEN AddTo(d, s, f, info)
  ELSE IF ~Admits(d, s) THEN Out(d, FALSE)
  ELSE AddToOrNew(defrag_limit_samples(d), s, f, info)

\* The samples in [min, maxp1) will not come.
nn_defrag_notegap(d, min, maxp1) ==
  RefreshMaxSample(defrag_rsample_drop(d, {s \in DOMAIN d.sampletree : min <= s /\ s < maxp1}))

---------------------------------------------------------------------------
(* Which fragments of a sample to ask for, given that those up to          *)
(* maxfragnum (from 0; ALL_FRAGS if unknown) have been published.          *)

\* Stands for ~0u, which is beyond every fragment number.
ALL_FRAGS == 1000

\* Mutant: the short last fragment does not count as received.
MapEnd_ShortLast(sample, mf, info) ==
  LET liv == Lastfrag(sample)
  IN  IF liv.maxp1 < (mf + 1) * info.fragsize THEN mf
      ELSE IF liv.min > 0 THEN (liv.min - 1) \div info.fragsize ELSE 0

\* The last missing fragment of what has been published.
MapEnd(sample, mf, info) ==
  LET liv == Lastfrag(sample)
  IN  IF liv.maxp1 < (mf + 1) * info.fragsize /\ liv.maxp1 < info.size THEN mf
      ELSE IF liv.min > 0 THEN (liv.min - 1) \div info.fragsize ELSE 0

\* A fragment lies in the gap after interval p if it starts in or after the
\* byte p ends with, and the next interval begins beyond it.
InGapAfter(sample, p, i, info) ==
  /\ i >= p.maxp1 \div info.fragsize
  /\ \A q \in sample.fragtree : q.min > p.min => i * info.fragsize < q.min

Map(known, base, numbits, bits) ==
  [known |-> known, base |-> base, numbits |-> numbits, bits |-> bits]

KnownMap(sample, base, mf, maxsz, info) ==
  LET end == MapEnd(sample, mf, info)
      numbits == IF end < base THEN 0 ELSE Min({end - base + 1, maxsz})
  IN  Map(TRUE, base, numbits,
          {i \in base..(base + numbits - 1) :
             \E p \in sample.fragtree : InGapAfter(sample, p, i, info)})

nn_defrag_nackmap(d, s, maxfragnum, maxsz, info) ==
  IF s \notin DOMAIN d.sampletree
  THEN IF maxfragnum = ALL_FRAGS THEN Map(FALSE, 0, 0, {})
       ELSE LET numbits == Min({maxfragnum + 1, maxsz})
            IN  Map(TRUE, 0, numbits, 0..(numbits - 1))
  ELSE LET nfrags == (info.size + info.fragsize - 1) \div info.fragsize
       IN  KnownMap(d.sampletree[s], FirstIv(d.sampletree[s].fragtree).maxp1 \div info.fragsize,
                    Min({maxfragnum, nfrags - 1}), maxsz, info)
=============================================================================
