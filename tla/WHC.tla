-------------------------------- MODULE WHC --------------------------------
(***************************************************************************)
(* The writer history cache, struct whc of q_whc.c: the samples a writer   *)
(* keeps for retransmission and for late joining transient-local readers.  *)
(* The operators take the cache as a record with the fields of struct whc  *)
(* and return the cache the C function leaves behind:                      *)
(*                                                                         *)
(*   nodes       seq_hash: sequence number -> whc_node.  A node's idxnode  *)
(*               is the key of its index node, or None.                    *)
(*   seq         the interval tree, a set of records [min, maxp1); the     *)
(*               first and last pointers are min and maxp1 - 1             *)
(*   open_intv   the interval where the next sample goes                   *)
(*   maxseq_node the highest sequence number stored, 0 when there is none  *)
(*   idx_hash    key -> whc_idxnode, a ring of the last idxdepth samples   *)
(*   asserts     TRUE as long as every assert () on the way has held       *)
(*                                                                         *)
(* A sample is [key, kind]: kind "write" is an ordinary update, "unreg" an *)
(* unregister, "empty" a message without payload (a commit message).  Its  *)
(* size stands for whcn_size, payload plus per-fragment overhead.          *)
(***************************************************************************)
EXTENDS Integers, FiniteSets, Sequences, SequencesExt, FiniteSetsExt, Functions

CONSTANTS
  Key,             \* instance keys
  Size,            \* Size[kind]: whcn_size of a sample of that kind
  MAX_SEQ_NUMBER,  \* os_int64 maximum; writing stops short of it
  None             \* the null pointer

ASSUME WHCAssumption ==
  /\ MAX_SEQ_NUMBER \in Nat \ {0}
  /\ None \notin Key
  /\ Size \in [{"write", "unreg", "empty"} -> Nat \ {0}]

Kinds == {"write", "unreg", "empty"}
EmptySample == [key |-> None, kind |-> "empty"]
Sample == [key : Key, kind : Kinds \ {"empty"}] \cup {EmptySample}

Intv(min, maxp1) == [min |-> min, maxp1 |-> maxp1]
EmptyIntv(i) == i.min = i.maxp1

whcn_size(sample) == Size[sample.kind]

whc_new(is_transient_local, hdepth, tldepth) ==
  [ is_transient_local |-> is_transient_local,
    hdepth        |-> hdepth,
    tldepth       |-> tldepth,
    idxdepth      |-> Max({hdepth, tldepth}),
    seq_size      |-> 0,
    max_drop_seq  |-> 0,
    unacked_bytes |-> 0,
    nodes         |-> << >>,
    idx_hash      |-> << >>,
    seq           |-> {Intv(1, 1)},
    open_intv     |-> Intv(1, 1),
    maxseq_node   |-> 0,
    asserts       |-> hdepth = 0 \/ tldepth <= hdepth \/ is_transient_local ]

Assert_(w, cond) == [w EXCEPT !.asserts = @ /\ cond]

---------------------------------------------------------------------------
(* Queries. *)

whc_empty(w) == w.seq_size = 0
whc_findseq(w, s) == s \in DOMAIN w.nodes
whc_min_seq(w) == Min({i.min : i \in w.seq})
whc_max_seq(w) == w.maxseq_node

\* The smallest stored sequence number above s: by interval when s is not
\* stored, by the list of samples when it is.
find_nextseq_intv(w, s) ==
  IF ~whc_findseq(w, s)
  THEN LET succ == {i \in w.seq : i.min >= s}
           i == CHOOSE x \in succ : \A y \in succ : x.min <= y.min
       IN  IF succ = {} \/ EmptyIntv(i) THEN None ELSE i.min
  ELSE LET above == {t \in DOMAIN w.nodes : t > s}
       IN  IF above = {} THEN None ELSE Min(above)

whc_next_seq(w, s) ==
  LET n == find_nextseq_intv(w, s) IN IF n = None THEN MAX_SEQ_NUMBER ELSE n

whc_findmax_procedurally(w) ==
  LET pred == {i \in w.seq : i.min < w.open_intv.min}
  IN  IF w.seq_size = 0 THEN 0
      ELSE IF ~EmptyIntv(w.open_intv) THEN w.open_intv.maxp1 - 1
      ELSE (CHOOSE x \in pred : \A y \in pred : x.min >= y.min).maxp1 - 1

\* The distance of ring slot pos behind the head of the instance's history.
Age(w, k, pos) ==
  LET head == w.idx_hash[k].headidx
  IN  head + (IF pos > head THEN w.idxdepth ELSE 0) - pos

whcn_in_tlidx(w, s) ==
  LET n == w.nodes[s] IN n.idxnode # None /\ Age(w, n.idxnode, n.idxnode_pos) < w.tldepth

\* The cheap consistency check the code makes on entry of every operation.
check_whc(w) ==
  /\ w.open_intv \in w.seq
  /\ \A i \in w.seq : i.min <= w.open_intv.min
  /\ ~EmptyIntv(w.open_intv) => w.maxseq_node + 1 = w.open_intv.maxp1
  /\ w.maxseq_node = whc_findmax_procedurally(w)

---------------------------------------------------------------------------
(* Deletion. *)

\* Deleting the head of a history frees the index node: nothing else may be
\* left in it.
delete_one_sample_from_idx(w, s) ==
  LET n == w.nodes[s]
      x == w.idx_hash[n.idxnode]
      w1 == Assert_(w, x.hist[x.headidx] # 0 /\ x.hist[n.idxnode_pos] = s)
  IN  IF n.idxnode_pos # x.headidx
      THEN [w1 EXCEPT !.idx_hash[n.idxnode].hist[n.idxnode_pos] = 0,
                      !.nodes[s].idxnode = None]
      ELSE [Assert_(w1, \A i \in DOMAIN x.hist \ {x.headidx} : x.hist[i] = 0)
              EXCEPT !.idx_hash = Restrict(@, DOMAIN @ \ {n.idxnode}),
                     !.nodes[s].idxnode = None]

\* Mutant of RemoveFromIntv: after a split the new interval starts one too
\* early.
RemoveFromIntv_SplitAtDeleted(w, s) ==
  LET i == CHOOSE x \in w.seq : x.min <= s /\ s < x.maxp1
      isopen == i = w.open_intv
      j == IF s = i.min THEN Intv(s + 1, i.maxp1) ELSE Intv(s, i.maxp1)
      left == IF s = i.min THEN {} ELSE {Intv(i.min, s)}
  IN  [w EXCEPT !.seq = (@ \ {i}) \cup left \cup
                          (IF EmptyIntv(j) /\ ~isopen THEN {} ELSE {j}),
                !.open_intv = IF isopen THEN j ELSE @]

\* Shrink, delete or split the interval that holds s.
RemoveFromIntv(w, s) ==
  LET i == CHOOSE x \in w.seq : x.min <= s /\ s < x.maxp1
      isopen == i = w.open_intv
      replace(new) == (w.seq \ {i}) \cup new
  IN  IF s = i.min
      THEN IF s = i.maxp1 - 1 /\ ~isopen
           THEN [w EXCEPT !.seq = replace({})]
           ELSE LET j == Intv(i.min + 1, i.maxp1)
                IN  [w EXCEPT !.seq = replace({j}),
                              !.open_intv = IF isopen THEN j ELSE @]
      ELSE IF s = i.maxp1 - 1
      THEN LET j == Intv(i.min, i.maxp1 - 1)
           IN  [w EXCEPT !.seq = replace({j}),
                         !.open_intv = IF isopen THEN j ELSE @]
      ELSE LET j == Intv(s + 1, i.maxp1)
           IN  [w EXCEPT !.seq = replace({Intv(i.min, s), j}),
                         !.open_intv = IF isopen THEN j ELSE @]

Unindex(w, s) == IF w.nodes[s].idxnode # None THEN delete_one_sample_from_idx(w, s) ELSE w

UncountBytes(w, s) ==
  LET size == whcn_size(w.nodes[s].serdata)
  IN  IF w.nodes[s].unacked
      THEN [Assert_(w, w.unacked_bytes >= size) EXCEPT !.unacked_bytes = @ - size]
      ELSE w

\* Mutant of whc_delete_one_intv: an unacknowledged sample that is
\* overwritten stays counted in unacked_bytes.
whc_delete_one_intv_KeepBytes(w, s) ==
  [RemoveFromIntv(Unindex(w, s), s) EXCEPT !.nodes = Restrict(@, DOMAIN @ \ {s})]

\* Takes s out of the index, the byte count, the hash and the intervals; the
\* caller adjusts seq_size and maxseq_node.
whc_delete_one_intv(w, s) ==
  [RemoveFromIntv(UncountBytes(Unindex(w, s), s), s)
     EXCEPT !.nodes = Restrict(@, DOMAIN @ \ {s})]

whc_delete_one(w, s) == [whc_delete_one_intv(w, s) EXCEPT !.seq_size = @ - 1]

\* The instance loses its index node; of its samples the acknowledged ones
\* are deleted, the others stay until they are acknowledged.
delete_one_instance_from_idx(w, max_drop_seq, k) ==
  LET hist == w.idx_hash[k].hist
      slots == SetToSortSeq({i \in DOMAIN hist : hist[i] # 0}, <)
      w1 == [w EXCEPT !.idx_hash = Restrict(@, DOMAIN @ \ {k})]
      freeone(v, i) ==
        LET u == [v EXCEPT !.nodes[hist[i]].idxnode = None]
        IN  IF hist[i] <= max_drop_seq
            THEN whc_delete_one(Assert_(u, hist[i] # u.maxseq_node), hist[i])
            ELSE u
  IN  FoldLeft(freeone, w1, slots)

---------------------------------------------------------------------------
(* Dropping acknowledged samples. *)

\* Mutant of DropOrAck: the unacked flag is not cleared.
DropOrAck_FlagKept(w, s) ==
  IF ~whcn_in_tlidx(w, s) THEN whc_delete_one_intv(w, s) ELSE UncountBytes(w, s)

\* Pass 1: what is not transient-local goes, the rest stops counting as
\* unacknowledged.
DropOrAck(w, s) ==
  IF ~whcn_in_tlidx(w, s)
  THEN whc_delete_one_intv(w, s)
  ELSE [UncountBytes(w, s) EXCEPT !.nodes[s].unacked = FALSE]

\* Pass 2: the samples of the instance of s that fell out of the
\* transient-local part of its history.
PruneInstance(w, s, max_drop_seq) ==
  LET k == w.nodes[s].idxnode
      x == w.idx_hash[k]
      cnt == w.idxdepth - w.tldepth
      w1 == Assert_(w, whcn_in_tlidx(w, s) /\ x.prune_seq <= max_drop_seq)
      w2 == [w1 EXCEPT !.idx_hash[k].prune_seq = max_drop_seq]
      prune(v, d) ==
        LET old == x.hist[(x.headidx + d) % w.idxdepth]
        IN  IF old = 0 THEN v
            ELSE LET u == whc_delete_one(Assert_(v, old < s), old)
                 IN  Assert_(u, k \in DOMAIN u.idx_hash)
  IN  IF x.prune_seq = max_drop_seq THEN w1
      ELSE FoldLeft(prune, w2, [d \in 1..cnt |-> d])

\* The samples that have come to be acknowledged, in order.
NewlyAcked(w, max_drop_seq) ==
  SelectSeq([s \in 1..max_drop_seq |-> s],
            LAMBDA s : s > w.max_drop_seq /\ s \in DOMAIN w.nodes)

PruneInstances(w, max_drop_seq) ==
  IF w.tldepth > 0 /\ w.idxdepth > w.tldepth
  THEN FoldLeft(LAMBDA v, s : PruneInstance(v, s, max_drop_seq),
                Assert_(w, w.hdepth = w.idxdepth), NewlyAcked(w, max_drop_seq))
  ELSE w

\* Mutant of SettleDropped: maxseq_node is not recomputed.
SettleDropped_StaleMax(w, ndropped, max_drop_seq) ==
  [Assert_(w, ndropped <= w.seq_size)
     EXCEPT !.seq_size = @ - ndropped, !.max_drop_seq = max_drop_seq]

\* The end: the count, the cached maximum and the new level.
SettleDropped(w, ndropped, max_drop_seq) ==
  LET w1 == [Assert_(w, ndropped <= w.seq_size) EXCEPT !.seq_size = @ - ndropped]
  IN  [w1 EXCEPT !.maxseq_node = whc_findmax_procedurally(w1), !.max_drop_seq = max_drop_seq]

\* After pass 1; before is how many samples there were.
PruneAndSettle(w, before, max_drop_seq) ==
  SettleDropped(PruneInstances(w, max_drop_seq), before - Cardinality(DOMAIN w.nodes), max_drop_seq)

whc_remove_acked_messages(w, max_drop_seq) ==
  LET w0 == Assert_(w, /\ max_drop_seq < MAX_SEQ_NUMBER
                       /\ max_drop_seq >= w.max_drop_seq
                       /\ check_whc(w))
  IN  IF w.is_transient_local /\ w.tldepth = 0
      THEN w0
      ELSE PruneAndSettle(FoldLeft(DropOrAck, w0, NewlyAcked(w, max_drop_seq)),
                          Cardinality(DOMAIN w.nodes), max_drop_seq)

\* End of start-up mode.  With hdepth = 0 the index only served the
\* transient-local history and goes too; max_drop_seq is rewound so that
\* every sample is looked at again.
whc_downgrade_to_volatile(w) ==
  LET w0 == Assert_(w, check_whc(w) /\ ~w.is_transient_local
                       /\ (w.tldepth > 0 => w.hdepth = 0 \/ w.tldepth <= w.hdepth))
      w1 == IF w.tldepth = 0 THEN w0
            ELSE IF w.hdepth > 0 THEN [w0 EXCEPT !.tldepth = 0]
            ELSE [FoldLeft(LAMBDA v, k : delete_one_instance_from_idx(v, 0, k),
                           w0, SetToSeq(DOMAIN w.idx_hash))
                    EXCEPT !.tldepth = 0, !.idxdepth = 0]
      w2 == whc_remove_acked_messages([w1 EXCEPT !.max_drop_seq = 0], w.max_drop_seq)
  IN  Assert_(w2, w2.max_drop_seq = w.max_drop_seq)

---------------------------------------------------------------------------
(* Insertion. *)

whc_insert_seq(w, max_drop_seq, s, sample) ==
  LET unacked == s > max_drop_seq
      node == [serdata |-> sample, unacked |-> unacked, idxnode |-> None, idxnode_pos |-> 0]
      i == IF EmptyIntv(w.open_intv) THEN Intv(s, s + 1)          \* reset
           ELSE IF w.open_intv.maxp1 = s THEN Intv(w.open_intv.min, s + 1)  \* append
           ELSE Intv(s, s + 1)                                    \* gap: a new one
      old == IF EmptyIntv(w.open_intv) \/ w.open_intv.maxp1 = s THEN {w.open_intv} ELSE {}
  IN  [w EXCEPT !.nodes = [t \in DOMAIN @ \cup {s} |-> IF t = s THEN node ELSE @[t]],
                !.unacked_bytes = @ + (IF unacked THEN whcn_size(sample) ELSE 0),
                !.maxseq_node = s,
                !.seq = (@ \ old) \cup {i},
                !.open_intv = i,
                !.seq_size = @ + 1]

\* An unregister that is acknowledged by lack of readers is not kept.
DropAckedUnregister(w, max_drop_seq, s) ==
  LET prev == {t \in DOMAIN w.nodes : t < s}
  IN  IF s <= max_drop_seq
      THEN [whc_delete_one(w, s) EXCEPT !.maxseq_node = IF prev = {} THEN 0 ELSE Max(prev)]
      ELSE w

\* The sample becomes the head of its instance's history, in the slot of the
\* oldest one.
PushHead(w, s, k, head) ==
  [w EXCEPT !.idx_hash[k] = [@ EXCEPT !.headidx = head, !.hist[head] = s],
            !.nodes[s] = [@ EXCEPT !.idxnode = k, !.idxnode_pos = head]]

\* Mutant of DropOldest: the overwritten sample keeps pointing at the index.
DropOldest_DanglingIndex(w, max_drop_seq, oldn) ==
  IF oldn # 0 /\ (w.hdepth > 0 \/ oldn <= max_drop_seq) THEN whc_delete_one(w, oldn) ELSE w

\* The oldest one leaves the history, and the cache unless it is needed.
DropOldest(w, max_drop_seq, oldn) ==
  IF oldn = 0 THEN w
  ELSE LET w1 == [w EXCEPT !.nodes[oldn].idxnode = None]
       IN  IF w.hdepth > 0 \/ oldn <= max_drop_seq
           THEN whc_delete_one(Assert_(w1, oldn # w.maxseq_node), oldn)
           ELSE w1

\* With nobody to wait for, so does the one that fell out of its
\* transient-local part.
DropPast(w, max_drop_seq, s, k) ==
  LET pos == (w.idx_hash[k].headidx + w.idxdepth - w.tldepth) % w.idxdepth
      past == w.idx_hash[k].hist[pos]
  IN  IF s <= max_drop_seq /\ w.tldepth > 0 /\ w.idxdepth > w.tldepth /\ past # 0
      THEN whc_delete_one(Assert_(w, past # w.maxseq_node), past)
      ELSE w

\* The instance is known.
AddToHistory(w, max_drop_seq, s, k) ==
  LET head == (w.idx_hash[k].headidx + 1) % w.idxdepth
  IN  DropPast(DropOldest(PushHead(w, s, k, head), max_drop_seq, w.idx_hash[k].hist[head]),
               max_drop_seq, s, k)

NewInstance(w, s, k) ==
  LET x == [prune_seq |-> 0, headidx |-> 0,
            hist |-> [i \in 0..(w.idxdepth - 1) |-> IF i = 0 THEN s ELSE 0]]
  IN  [w EXCEPT !.idx_hash = [j \in DOMAIN @ \cup {k} |-> IF j = k THEN x ELSE @[j]],
                !.nodes[s].idxnode = k]

\* What inserting the sample means for its instance.
InsertInIdx(w, max_drop_seq, s, sample) ==
  LET k == sample.key
      known == k \in DOMAIN w.idx_hash
  IN  IF sample.kind = "empty" \/ w.idxdepth = 0 THEN w
      ELSE IF sample.kind = "unreg"
      THEN DropAckedUnregister(
             IF known THEN delete_one_instance_from_idx(w, max_drop_seq, k) ELSE w, max_drop_seq, s)
      ELSE IF known THEN AddToHistory(w, max_drop_seq, s, k)
      ELSE NewInstance(w, s, k)

whc_insert(w, max_drop_seq, s, sample) ==
  LET w0 == Assert_(w, /\ check_whc(w)
                       /\ max_drop_seq < MAX_SEQ_NUMBER
                       /\ max_drop_seq >= w.max_drop_seq
                       /\ whc_empty(w) \/ s > whc_max_seq(w))
  IN  InsertInIdx(whc_insert_seq(w0, max_drop_seq, s, sample), max_drop_seq, s, sample)
=============================================================================
