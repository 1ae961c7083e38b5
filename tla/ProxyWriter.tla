---------------------------- MODULE ProxyWriter ----------------------------
(***************************************************************************)
(* A proxy writer (q_entity.c, q_receive.c): what a node keeps for a       *)
(* remote writer, with the local readers matched to it.  Fragments are put *)
(* together (Defrag) and samples put in order (Reorder, here two sets of   *)
(* sequence numbers) once for all readers.  A transient-local reader that  *)
(* is matched when samples have been delivered already is out of sync: it  *)
(* has a reorder buffer of its own for what it missed, and needs the       *)
(* fragments of those samples through the shared defragmenter.             *)
(*                                                                         *)
(* The remote writer and the network between are the environment: any      *)
(* message the writer ever had reason to send may arrive, at any time, in  *)
(* any order, again, or never.  The handlers run under the proxy writer's  *)
(* lock.                                                                   *)
(*                                                                         *)
(* The delivery queue is first in, first out (DQueue).  Here it is what    *)
(* has been put in it for each reader, and what was ahead of the callback  *)
(* by which the reader's application is told that it has the historical    *)
(* data.  Reorder buffers have ample room.                                 *)
(***************************************************************************)
EXTENDS Defrag

CONSTANTS
  Reader,          \* local readers
  TLReader,        \* those with handle_as_transient_local
  ReliableReader,  \* the reliable ones
  MAX_SEQ_NUMBER,  \* beyond all sequence numbers
  MaxStale,        \* fragments that arrive late for samples nobody needs
  Setups           \* the writers and defragmenters considered

ASSUME ProxyWriterAssumption ==
  /\ MaxStale \in Nat /\ MAX_SEQ_NUMBER \in Nat
  /\ TLReader \subseteq ReliableReader /\ ReliableReader \subseteq Reader
  /\ \A c \in Setups :
       /\ c.max_seq \in 1..(MAX_SEQ_NUMBER - 1) /\ c.max_samples \in Nat \ {0}
       /\ c.reliable \in BOOLEAN /\ c.overwritten \subseteq 1..(c.max_seq - 1)
       /\ c.info.size \in Nat \ {0} /\ c.info.fragsize \in Nat \ {0}

VARIABLES
  setup,       \* which one it is
  \* the remote writer: its last sequence number, and the ones it no longer has;
  \* and how many stale fragments have arrived
  seq, gone, stale,
  \* struct proxy_writer
  defrag, reorder, last_seq, last_fragnum, last_fragnum_reset,
  \* struct pwr_rd_match of each reader
  readers,
  \* the delivery queue: samples put in it for a reader since it was matched,
  \* and those ahead of its notification
  queued, ahead

pwr == <<defrag, reorder, last_seq, last_fragnum, last_fragnum_reset>>
vars == <<setup, seq, gone, stale, defrag, reorder, last_seq, last_fragnum, last_fragnum_reset,
          readers, queued, ahead>>

Seqs == 1..setup.max_seq
NFrags == (setup.info.size + setup.info.fragsize - 1) \div setup.info.fragsize

\* The bytes of fragments i..j, which one DataFrag may carry; the last fragment
\* of the sample is possibly shorter than the others.
Fragments(i, j) ==
  Iv(i * setup.info.fragsize, Min({(j + 1) * setup.info.fragsize, setup.info.size}))

Fragment(i) == Fragments(i, i)

---------------------------------------------------------------------------
(* The reorder administration: next_seq, and what is held beyond it.       *)

nn_reorder_new == [next_seq |-> 1, samples |-> {}, gaps |-> {}]

Held(ro) == ro.samples \cup ro.gaps

\* What has become deliverable leaves.
Settle(ro) ==
  LET n == Min((ro.next_seq..(MAX_SEQ_NUMBER + 1)) \ Held(ro))
  IN  [next_seq |-> n, samples |-> {s \in ro.samples : s >= n}, gaps |-> {s \in ro.gaps : s >= n}]

Delivered(ro, new) == {s \in ro.samples : s < new.next_seq}

Res(ro, new, res) == [reorder |-> new, out |-> Delivered(ro, new), res |-> res]

\* full: there is no room in the delivery queue.
nn_reorder_rsample(ro, s, mode, full) ==
  LET with == [ro EXCEPT !.samples = @ \cup {s}]
      skip == [ro EXCEPT !.samples = @ \cup {s}, !.gaps = @ \cup ro.next_seq..(s - 1)]
  IN  IF s < ro.next_seq THEN Res(ro, ro, "TOO_OLD")
      ELSE IF s = ro.next_seq \/ mode = "MONOTONICALLY_INCREASING"
           THEN IF full THEN Res(ro, ro, "REJECT") ELSE Res(skip, Settle(skip), "DELIVER")
      ELSE IF s \in Held(ro) \/ (full /\ Held(ro) # {} /\ s > Max(Held(ro)))
           THEN Res(ro, ro, "REJECT")
      ELSE Res(ro, with, "ACCEPT")

nn_reorder_gap(ro, min, maxp1, mode) ==
  LET with == [ro EXCEPT !.gaps = @ \cup ((IF min < ro.next_seq THEN ro.next_seq ELSE min)..(maxp1 - 1))]
  IN  IF maxp1 <= ro.next_seq \/ mode # "NORMAL" THEN Res(ro, ro, "TOO_OLD")
      ELSE Res(with, Settle(with), "GAP")

Mode == IF setup.reliable THEN "NORMAL" ELSE "MONOTONICALLY_INCREASING"

---------------------------------------------------------------------------
(* The matched readers.  A reader's step is its record, the samples put in *)
(* the queue for it, and the ones ahead of its notification.               *)

Unmatched ==
  [in_sync |-> "UNMATCHED", end_of_tl_seq |-> 0, end_of_out_of_sync_seq |-> 0,
   reorder |-> nn_reorder_new]

Matched == {r \in Reader : readers[r].in_sync # "UNMATCHED"}
NotNotified == {0}

View(m, q, a) == [m |-> m, queued |-> q, ahead |-> a]

Enqueue(v, S) == [v EXCEPT !.queued = @ \cup S]

\* Mutant: end_of_out_of_sync_seq need not have been reached.
maybe_set_reader_in_sync_Early(v, last_deliv_seq) ==
  IF v.m.in_sync \in {"TLCATCHUP", "OUT_OF_SYNC"}
  THEN IF last_deliv_seq >= v.m.end_of_tl_seq
       THEN [v EXCEPT !.m.in_sync = "SYNC", !.ahead = v.queued]
       ELSE [v EXCEPT !.m.in_sync = "TLCATCHUP"]
  ELSE v

\* From out of sync to catching up with the others, and from there to in
\* sync; the notification goes into the delivery queue at that point.
maybe_set_reader_in_sync(v, last_deliv_seq) ==
  LET caughtup == \/ v.m.in_sync = "TLCATCHUP"
                  \/ /\ v.m.in_sync = "OUT_OF_SYNC"
                     /\ v.m.reorder.next_seq - 1 >= v.m.end_of_out_of_sync_seq
  IN  IF ~caughtup THEN v
      ELSE IF last_deliv_seq >= v.m.end_of_tl_seq
           THEN [v EXCEPT !.m.in_sync = "SYNC", !.ahead = v.queued]
      ELSE [v EXCEPT !.m.in_sync = "TLCATCHUP"]

\* The views of the matched readers after op; the delivery queue is kept for
\* the transient-local ones.
ForReaders(op(_, _)) ==
  \E next \in {[r \in Reader |->
                 IF readers[r].in_sync = "UNMATCHED"
                 THEN View(Unmatched, {}, NotNotified)
                 ELSE op(r, View(readers[r], queued[r], ahead[r]))]} :
      /\ readers' = [r \in Reader |-> next[r].m]
      /\ queued' = [r \in Reader |-> IF r \in TLReader THEN next[r].queued ELSE {}]
      /\ ahead' = [r \in Reader |-> IF r \in TLReader THEN next[r].ahead ELSE NotNotified]

---------------------------------------------------------------------------
Init ==
  /\ setup \in Setups
  /\ seq = 0 /\ gone = {} /\ stale = 0
  /\ defrag = nn_defrag_new(IF setup.reliable THEN "DROP_LATEST" ELSE "DROP_OLDEST",
                            setup.max_samples)
  /\ reorder = nn_reorder_new
  /\ last_seq = 0 /\ last_fragnum = ALL_FRAGS /\ last_fragnum_reset = FALSE
  /\ readers = [r \in Reader |-> Unmatched]
  /\ queued = [r \in Reader |-> {}] /\ ahead = [r \in Reader |-> NotNotified]

\* The remote writer writes; a keep-last writer loses a sample to a later one.
write_sample ==
  /\ seq < setup.max_seq
  /\ seq' = seq + 1
  /\ UNCHANGED <<setup, gone, stale, pwr, readers, queued, ahead>>

overwrite(s) ==
  /\ s \in setup.overwritten \ gone /\ s < seq
  /\ gone' = gone \cup {s}
  /\ UNCHANGED <<setup, seq, stale, pwr, readers, queued, ahead>>

---------------------------------------------------------------------------
proxy_writer_add_connection(r) ==
  LET last_deliv_seq == reorder.next_seq - 1
  IN  /\ readers[r].in_sync = "UNMATCHED"
      /\ readers' = [readers EXCEPT ![r] =
           IF r \notin TLReader THEN [Unmatched EXCEPT !.in_sync = "SYNC"]
           ELSE IF last_deliv_seq = 0
                THEN [Unmatched EXCEPT !.in_sync = "TLCATCHUP", !.end_of_tl_seq = MAX_SEQ_NUMBER]
           ELSE [Unmatched EXCEPT !.in_sync = "OUT_OF_SYNC", !.end_of_tl_seq = last_seq,
                                  !.end_of_out_of_sync_seq = last_deliv_seq]]
      /\ UNCHANGED <<setup, seq, gone, stale, pwr, queued, ahead>>

proxy_writer_drop_connection(r) ==
  /\ r \in Matched
  /\ readers' = [readers EXCEPT ![r] = Unmatched]
  /\ queued' = [queued EXCEPT ![r] = {}]
  /\ ahead' = [ahead EXCEPT ![r] = NotNotified]
  /\ UNCHANGED <<setup, seq, gone, stale, pwr>>

---------------------------------------------------------------------------
(* Data and DataFrag. *)

OutOfSync == {r \in Reader : readers[r].in_sync = "OUT_OF_SYNC"}

LowestNeeded == Min({reorder.next_seq} \cup {readers[r].reorder.next_seq : r \in OutOfSync})

\* Nobody needs the samples before the lowest next_seq any more.
clean_defrag == nn_defrag_notegap(defrag, 1, LowestNeeded)

\* Environment: the network does not go on for ever repeating fragments of
\* samples that everyone has.
NoteStale(s) ==
  IF NFrags > 1 /\ s < LowestNeeded THEN stale < MaxStale /\ stale' = stale + 1 ELSE UNCHANGED stale

\* The highest sequence and fragment number known to exist.
NoteLast(s, fragnum) ==
  IF s > last_seq \/ (s = last_seq /\ fragnum > last_fragnum)
  THEN last_seq' = s /\ last_fragnum' = fragnum /\ last_fragnum_reset' = FALSE
  ELSE UNCHANGED <<last_seq, last_fragnum, last_fragnum_reset>>

\* The primary reorder buffer; without reliable readers nobody waits for an
\* earlier sample: a gap [1, s) forces delivery.
PrimaryReorder(s) ==
  LET r == nn_reorder_rsample(reorder, s, Mode, FALSE)
  IN  IF r.res = "ACCEPT" /\ Matched \cap ReliableReader = {}
      THEN [nn_reorder_gap(r.reorder, 1, s, Mode) EXCEPT !.res = "DELIVER"]
      ELSE r

\* A sample that everyone gets; a reader that is catching up may be there.
InSyncDelivery(v, s, out) ==
  IF v.m.in_sync = "TLCATCHUP" THEN maybe_set_reader_in_sync(Enqueue(v, out), s)
  ELSE Enqueue(v, out)

DeliverToAll(s, out) == ForReaders(LAMBDA r, v : InSyncDelivery(v, s, out))

\* Too old for the others: for readers that are out of sync.  The reader may
\* be in sync by it, and then the notification precedes the sample.
OutOfSyncDelivery(v, s, full) ==
  IF v.m.in_sync # "OUT_OF_SYNC" \/ s > v.m.end_of_out_of_sync_seq THEN v
  ELSE LET ro == nn_reorder_rsample(v.m.reorder, s, "NORMAL", full)
           new == [v EXCEPT !.m.reorder = ro.reorder]
       IN  IF ro.res = "DELIVER" THEN Enqueue(maybe_set_reader_in_sync(new, s), ro.out) ELSE new

DeliverToOutOfSync(s, full) == ForReaders(LAMBDA r, v : OutOfSyncDelivery(v, s, full))

Complete(s, full) ==
  \E r \in {PrimaryReorder(s)} :
    /\ reorder' = r.reorder
    /\ CASE r.res = "DELIVER" -> DeliverToAll(s, r.out)
         [] r.res = "TOO_OLD" -> DeliverToOutOfSync(s, full)
         [] OTHER -> UNCHANGED <<readers, queued, ahead>>

Receive(s, f, full) ==
  \E d \in {nn_defrag_rsample(clean_defrag, s, f, setup.info)} :
    /\ defrag' = d.defrag
    /\ IF d.complete THEN Complete(s, full)
       ELSE UNCHANGED <<reorder, readers, queued, ahead>>

\* Fragments i..j of sample s arrive, or the whole sample in a Data message.
handle_regular(s, i, j, full) ==
  /\ Matched # {}
  /\ s <= seq
  /\ NoteLast(s, IF NFrags = 1 THEN ALL_FRAGS ELSE j)
  /\ Receive(s, Fragments(i, j), full)
  /\ NoteStale(s)
  /\ UNCHANGED <<setup, seq, gone>>

---------------------------------------------------------------------------
(* Heartbeat, HeartbeatFrag and Gap. *)

\* Mutant: the fragment number of the last sample is never forgotten.
NoteHeartbeat_Sticky(last) ==
  IF last > last_seq
  THEN last_seq' = last /\ last_fragnum' = ALL_FRAGS /\ last_fragnum_reset' = FALSE
  ELSE UNCHANGED <<last_seq, last_fragnum, last_fragnum_reset>>

\* Mutant: the flag stays up once the fragment number has been forgotten.
NoteHeartbeat_FlagStays(last) ==
  IF last > last_seq
  THEN last_seq' = last /\ last_fragnum' = ALL_FRAGS /\ last_fragnum_reset' = FALSE
  ELSE IF last = last_seq /\ last_fragnum # ALL_FRAGS
  THEN /\ last_fragnum' = IF last_fragnum_reset THEN ALL_FRAGS ELSE last_fragnum
       /\ last_fragnum_reset' = TRUE
       /\ UNCHANGED last_seq
  ELSE UNCHANGED <<last_seq, last_fragnum, last_fragnum_reset>>

\* The second heartbeat that ends in the last sample known, with no news of
\* its fragments in between, means that all of them have been sent.
NoteHeartbeat(last) ==
  IF last > last_seq
  THEN last_seq' = last /\ last_fragnum' = ALL_FRAGS /\ last_fragnum_reset' = FALSE
  ELSE IF last = last_seq /\ last_fragnum # ALL_FRAGS
  THEN /\ last_fragnum' = IF last_fragnum_reset THEN ALL_FRAGS ELSE last_fragnum
       /\ last_fragnum_reset' = ~last_fragnum_reset
       /\ UNCHANGED last_seq
  ELSE UNCHANGED <<last_seq, last_fragnum, last_fragnum_reset>>

\* A reader's own gap, and what it has then.
OwnGap(v, min, maxp1) ==
  LET ro == nn_reorder_gap(v.m.reorder, min, maxp1, "NORMAL")
  IN  Enqueue([v EXCEPT !.m.reorder = ro.reorder], ro.out)

HeartbeatForReader(v, first, last, next_seq) ==
  LET own == v.m.in_sync = "OUT_OF_SYNC"
      w == IF own THEN OwnGap(v, 1, first) ELSE v
      x == IF w.m.end_of_tl_seq = MAX_SEQ_NUMBER THEN [w EXCEPT !.m.end_of_tl_seq = last] ELSE w
  IN  maybe_set_reader_in_sync(x, (IF own THEN x.m.reorder.next_seq ELSE next_seq) - 1)

\* The writer has first..last, and nothing before first.
handle_Heartbeat(first, last) ==
  \E r \in {nn_reorder_gap(reorder, 1, first, Mode)} :
      /\ first <= last + 1 /\ last <= seq /\ 1..(first - 1) \subseteq gone
      /\ NoteHeartbeat(last)
      /\ defrag' = nn_defrag_notegap(defrag, 1, first)
      /\ reorder' = r.reorder
      /\ ForReaders(LAMBDA q, v :
           IF v.m.in_sync = "SYNC" THEN Enqueue(v, r.out)
           ELSE HeartbeatForReader(Enqueue(v, r.out), first, last, r.reorder.next_seq))
      /\ UNCHANGED <<setup, seq, gone, stale>>

\* Fragments up to fragnum of sample s have been sent; what the reply asks
\* for is add_AckNack's.
handle_HeartbeatFrag(s, fragnum) ==
  /\ s <= seq /\ fragnum < NFrags
  /\ NoteLast(s, fragnum)
  /\ UNCHANGED <<setup, seq, gone, stale, defrag, reorder, readers, queued, ahead>>

GapForReader(v, a, b) ==
  IF v.m.in_sync = "SYNC" THEN v
  ELSE maybe_set_reader_in_sync(
         IF v.m.in_sync = "OUT_OF_SYNC" /\ a <= v.m.end_of_out_of_sync_seq
         THEN OwnGap(v, a, b) ELSE v,
         b - 1)

\* The writer does not have a..(b - 1); addressed to dst.
handle_Gap(dst, a, b) ==
  \E r \in {nn_reorder_gap(reorder, a, b, Mode)} :
      /\ dst \in Matched
      /\ a < b /\ a..(b - 1) \subseteq gone
      /\ defrag' = nn_defrag_notegap(defrag, a, b)
      /\ reorder' = r.reorder
      /\ ForReaders(LAMBDA q, v :
           IF q = dst THEN GapForReader(Enqueue(v, r.out), a, b) ELSE Enqueue(v, r.out))
      /\ IF b - 1 > last_seq
         THEN last_seq' = b - 1 /\ last_fragnum' = ALL_FRAGS /\ last_fragnum_reset' = FALSE
         ELSE UNCHANGED <<last_seq, last_fragnum, last_fragnum_reset>>
      /\ UNCHANGED <<setup, seq, gone, stale>>

Next ==
  \/ write_sample
  \/ \E s \in Seqs : overwrite(s)
  \/ \E r \in Reader : proxy_writer_add_connection(r)
  \/ \E r \in Reader : proxy_writer_drop_connection(r)
  \/ \E s \in Seqs, i \in 0..(NFrags - 1), full \in BOOLEAN :
       \E j \in i..(NFrags - 1) : handle_regular(s, i, j, full)
  \/ setup.reliable /\ \E first \in 1..(setup.max_seq + 1), last \in 0..setup.max_seq :
       handle_Heartbeat(first, last)
  \/ setup.reliable /\ \E s \in Seqs, i \in 0..(NFrags - 1) : handle_HeartbeatFrag(s, i)
  \/ setup.reliable /\ \E r \in Reader, a \in Seqs, b \in 2..(setup.max_seq + 1) : handle_Gap(r, a, b)

Spec == Init /\ [][Next]_vars

---------------------------------------------------------------------------
(* What is asked for, and fairness. *)

RefReorder(r) == IF readers[r].in_sync = "OUT_OF_SYNC" THEN readers[r].reorder ELSE reorder

FragsMissing(s) ==
  nn_defrag_nackmap(defrag, s, IF s = last_seq THEN last_fragnum ELSE ALL_FRAGS, 256, setup.info)

\* The samples missing up to last_seq, cut at the first one the defragmenter
\* knows about; of that one a NackFrag asks for the fragments missing.
add_AckNack(r) ==
  LET missing == {s \in (RefReorder(r).next_seq)..last_seq : s \notin Held(RefReorder(r))}
      partial == {s \in missing : FragsMissing(s).known}
  IN  IF partial = {} THEN [nacks |-> missing, nackfrag_seq |-> 0, nackfrag |-> {}]
      ELSE [nacks |-> {s \in missing : s < Min(partial)}, nackfrag_seq |-> Min(partial),
            nackfrag |-> FragsMissing(Min(partial)).bits]

\* The first sample asked for, with the fragments asked for.
FirstAsked(a) ==
  IF a.nacks # {} THEN {Min(a.nacks)} \X (0..(NFrags - 1)) ELSE {a.nackfrag_seq} \X a.nackfrag

\* What a fragment the reader asks for first would do: complete the sample, or
\* change what the defragmenter has.
Completes(s, i) == nn_defrag_rsample(clean_defrag, s, Fragment(i), setup.info).complete
Adds(s, i) ==
  ~Completes(s, i) /\ nn_defrag_rsample(clean_defrag, s, Fragment(i), setup.info).defrag # defrag

IsAsking(r) == setup.reliable /\ r \in Matched

AsksFor(r, effect(_, _)) ==
  IsAsking(r) /\ \E w \in FirstAsked(add_AckNack(r)) : w[1] \notin gone /\ effect(w[1], w[2])

AsksForGone(r) == IsAsking(r) /\ \E w \in FirstAsked(add_AckNack(r)) : w[1] \in gone

Retransmission(r, effect(_, _)) ==
  \E w \in FirstAsked(add_AckNack(r)) :
    w[1] \notin gone /\ effect(w[1], w[2]) /\ handle_regular(w[1], w[2], w[2], FALSE)

\* Fragments arrive that complete the sample the reader asks for first.
Completion(r, full) ==
  \E s \in {w[1] : w \in FirstAsked(add_AckNack(r))}, i \in 0..(NFrags - 1) : \E j \in i..(NFrags - 1) :
    /\ nn_defrag_rsample(clean_defrag, s, Fragments(i, j), setup.info).complete
    /\ handle_regular(s, i, j, full)

GapReply(r) ==
  \E w \in FirstAsked(add_AckNack(r)) : w[1] \in gone /\ handle_Gap(r, w[1], w[1] + 1)

\* The writer sends heartbeats to a reader that has not acknowledged all.
PeriodicHeartbeat(r) ==
  /\ IsAsking(r) /\ RefReorder(r).next_seq <= seq
  /\ handle_Heartbeat(Min((1..(seq + 1)) \ gone), seq)

\* Strong fairness, for the answers with the conditions under which they have
\* an effect spelled out: a transient-local reader repeats what it asks for on
\* each heartbeat, what is sent over and over (a fragment at a time, as DDSI2E's
\* writers do) arrives some time, and when what arrives completes a sample over
\* and over, some time the delivery queue is not full.
Fairness ==
  \A r \in TLReader :
    /\ ([]<>AsksFor(r, Adds)) => []<><<AsksFor(r, Adds) /\ Retransmission(r, Adds)>>_vars
    /\ ([]<>AsksFor(r, Completes)) => []<><<AsksFor(r, Completes) /\ Retransmission(r, Completes)>>_vars
    /\ ([]<><<IsAsking(r) /\ Completion(r, TRUE)>>_vars) => []<><<IsAsking(r) /\ Completion(r, FALSE)>>_vars
    /\ ([]<>AsksForGone(r)) => []<><<AsksForGone(r) /\ GapReply(r)>>_vars
    /\ SF_vars(PeriodicHeartbeat(r))

FairSpec == Spec /\ Fairness

---------------------------------------------------------------------------
(* Properties. *)

Bytes(sample) == UNION {i.min..(i.maxp1 - 1) : i \in sample.fragtree}
BytesOf(d, s) == IF s \in DOMAIN d.sampletree THEN Bytes(d.sampletree[s]) ELSE {}
AllBytes == 0..(setup.info.size - 1)

\* The variables have their types.
TypeOK ==
  /\ seq \in 0..setup.max_seq /\ gone \subseteq 1..seq
  /\ last_seq \in 0..seq /\ last_fragnum \in (0..(NFrags - 1)) \cup {ALL_FRAGS}
  /\ last_fragnum_reset => last_fragnum # ALL_FRAGS
  /\ reorder.next_seq \in 1..(seq + 1) /\ Held(reorder) \subseteq (reorder.next_seq + 1)..seq
  /\ \A r \in Reader : queued[r] \subseteq 1..seq
  /\ DOMAIN defrag.sampletree \subseteq 1..seq

\* The asserts of nn_defrag_rsample and defrag_add_fragment: the cached
\* max_sample, n_samples and lastfrag agree with the trees, the limit holds,
\* a sample's intervals are apart and begin at byte 0, and none is complete.
DefragExact ==
  LET tree == defrag.sampletree
  IN  /\ defrag.n_samples = Cardinality(DOMAIN tree) /\ defrag.n_samples <= defrag.max_samples
      /\ defrag.max_sample = MaxOr0(DOMAIN tree)
      /\ \A s \in DOMAIN tree :
           /\ \E i \in tree[s].fragtree : i.min = 0
           /\ \A i, j \in tree[s].fragtree : i.min < j.min => i.maxp1 < j.min
           /\ tree[s].lastfrag = LastIv(tree[s].fragtree).min
           /\ Bytes(tree[s]) # AllBytes

\* Fragments f reach over both ends of an interval that sample s has.
Swallows(d, s, f) ==
  /\ s \in DOMAIN d.sampletree
  /\ \E iv \in d.sampletree[s].fragtree : f.min < iv.min /\ iv.maxp1 < f.maxp1

AddUp(s, f) ==
  LET o == nn_defrag_rsample(defrag, s, f, setup.info)
      full == defrag.n_samples = defrag.max_samples /\ s # defrag.max_sample
      dropped == IF full /\ Admits(defrag, s) THEN {SampleToDrop(defrag)} ELSE {}
      had == IF s \in dropped THEN {} ELSE BytesOf(defrag, s)
      has == had \cup f.min..(f.maxp1 - 1)
      got == BytesOf(o.defrag, s)
      exact == s \in dropped \/ ~Swallows(defrag, s, f)
  IN  IF f = Iv(0, setup.info.size) THEN o = Out(defrag, TRUE)
      ELSE /\ o.complete => has = AllBytes /\ got = {}
           /\ exact /\ has = AllBytes => o.complete
           /\ ~o.complete => IF full /\ ~Admits(defrag, s) THEN got = had
                             ELSE /\ had \subseteq got /\ got \subseteq has
                                  /\ got = had => has = had
                                  /\ exact => got = has
           /\ \A t \in (1..seq) \ {s} :
                BytesOf(o.defrag, t) = IF t \in dropped THEN {} ELSE BytesOf(defrag, t)

\* nn_defrag_rsample against sets of bytes, for all fragments that may come
\* next, several at a time and overlapping what is there: a whole sample
\* passes by; a sample is handed on only when all its bytes have arrived; one
\* that stays keeps every byte it had, gets no byte that has not come and, if
\* the fragments have a new one, gets a new one.  It gets all of them, and is
\* handed on as soon as it can be, unless the fragments reach over both ends
\* of an interval (a single fragment never does).  No other sample changes,
\* except the one dropped at the limit.
FragmentsAddUp ==
  \A s \in 1..seq, i \in 0..(NFrags - 1) : \A j \in i..(NFrags - 1) : AddUp(s, Fragments(i, j))

\* In the reliable mode (DROP_LATEST) no fragment costs an earlier sample what
\* it has, and a fragment is refused only for the sake of earlier samples.
\* Without this the defragmenter could "start threshing and fail to make
\* progress" (handle_xevk_acknack).
EarlierSamplesKept ==
  setup.reliable =>
    \A s \in 1..seq, i \in 0..(NFrags - 1) : \A j \in i..(NFrags - 1) :
      LET o == nn_defrag_rsample(defrag, s, Fragments(i, j), setup.info)
      IN  /\ \A t \in 1..(s - 1) : BytesOf(o.defrag, t) = BytesOf(defrag, t)
          /\ o.defrag = defrag => \/ o.complete \/ s \in DOMAIN defrag.sampletree
                                  \/ \A t \in DOMAIN defrag.sampletree : t < s

\* nn_defrag_nackmap asks for exactly the fragments that are missing of those
\* known to be published, as far as the bitmap reaches.
NackFragExact ==
  \A s \in DOMAIN defrag.sampletree, maxfragnum \in (0..(NFrags - 1)) \cup {ALL_FRAGS}, maxsz \in {1, 256} :
    LET has == BytesOf(defrag, s)
        m == nn_defrag_nackmap(defrag, s, maxfragnum, maxsz, setup.info)
        got == {i \in 0..(NFrags - 1) : Fragment(i).min \in has}
        top == Max({Min({maxfragnum, NFrags - 1})} \cup got)
        missing == (0..top) \ got
    IN  m.bits = IF missing = {} THEN {}
                 ELSE missing \cap Min(missing)..(Min(missing) + maxsz - 1)

\* What a transient-local reader acknowledges (everything before next_seq in
\* its own reorder buffer while it is out of sync, in the shared one after)
\* has been put in the delivery queue for it or is no longer to be had: the
\* switch from one buffer to the other skips nothing.
AcknowledgedIsQueued ==
  \A r \in TLReader \cap Matched :
    setup.reliable => 1..(RefReorder(r).next_seq - 1) \subseteq queued[r] \cup gone

\* A reader in sync has been sent the historical data ("in sync with proxy
\* writer, has caught up with historical data", q_entity.h) and its
\* notification is in the queue behind the data: the application is told that
\* it is complete when it is.
NotifiedWhenComplete ==
  \A r \in TLReader \cap Matched :
    readers[r].in_sync = "SYNC" => 1..readers[r].end_of_tl_seq \subseteq ahead[r] \cup gone

\* Whatever is lost, fragmented, dropped at the limit of the defragmenter or
\* delivered to others before the reader came: each sample the writer has
\* reaches a transient-local reader that stays.
EventuallyQueued ==
  \A r \in TLReader : \A s \in 1..(MAX_SEQ_NUMBER - 1) :
    (setup.reliable /\ s <= seq /\ r \in Matched) ~> (s \in queued[r] \cup gone \/ r \notin Matched)
=============================================================================
