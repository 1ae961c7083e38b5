--------------------------- MODULE WriterHistory ---------------------------
(***************************************************************************)
(* A reliable DDSI2E writer and its history cache: every operation of      *)
(* q_transmit.c, q_entity.c and q_receive.c that changes the cache, each   *)
(* atomic because it holds wr->e.lock from beginning to end.  The reader   *)
(* side is reduced to the acknowledgements it may send; ReliableProtocol   *)
(* has the messages.                                                       *)
(*                                                                         *)
(*   whc      struct whc                                                   *)
(*   wr       the fields of struct writer that steer the cache             *)
(*   readers  the matched proxy readers: r -> wr_prd_match                 *)
(*   history  ghost: every sequence number the writer has used, with the   *)
(*            sample and whether it was given to the cache                 *)
(***************************************************************************)
EXTENDS WHC

CONSTANTS
  Reader,   \* proxy readers
  Configs   \* the writers considered: QoS and water marks (see WriterConfig)

VARIABLES whc, wr, readers, history

vars == <<whc, wr, readers, history>>

\* hdepth and tldepth as new_writer_guid derives them from the QoS; whc_low
\* and whc_high are unlimited (MAX_SEQ_NUMBER times the largest sample) for
\* keep-last writers.  max_readers and max_seq bound how many readers match
\* at a time and how much is written; late_acks: an AckNack handler that looked
\* up the proxy reader just before it was deleted may still get the writer
\* lock after that.
Unlimited == MAX_SEQ_NUMBER * Max({Size[k] : k \in Kinds})

WriterConfig(c) ==
  /\ c.is_transient_local \in BOOLEAN
  /\ c.startup_mode \in BOOLEAN
  /\ c.hdepth \in Nat /\ c.tldepth \in Nat
  /\ ~(c.startup_mode /\ c.is_transient_local)
  /\ ~c.is_transient_local => c.tldepth = (IF c.startup_mode THEN c.hdepth ELSE 0)
  /\ c.whc_low \in Nat /\ c.whc_high \in Nat /\ c.whc_low <= c.whc_high
  /\ c.hdepth > 0 => c.whc_low = Unlimited
  /\ c.max_readers \in Nat /\ c.max_seq < MAX_SEQ_NUMBER /\ c.late_acks \in BOOLEAN

ASSUME ConfigAssumption == \A c \in Configs : WriterConfig(c)

Match == [seq : 0..MAX_SEQ_NUMBER, is_reliable : BOOLEAN, deleting : BOOLEAN]

\* The cache, the writer and the matches have their types; unacked_bytes and
\* seq_size, unsigned in the code, do not wrap below zero.
TypeOK ==
  /\ whc.nodes \in [DOMAIN whc.nodes ->
                      [serdata : Sample, unacked : BOOLEAN,
                       idxnode : Key \cup {None}, idxnode_pos : Nat]]
  /\ DOMAIN whc.nodes \subseteq 1..(MAX_SEQ_NUMBER - 1)
  /\ whc.idx_hash \in [DOMAIN whc.idx_hash ->
                         [prune_seq : Nat, headidx : 0..(whc.idxdepth - 1),
                          hist : [0..(whc.idxdepth - 1) -> Nat]]]
  /\ DOMAIN whc.idx_hash \subseteq Key
  /\ whc.unacked_bytes \in Nat /\ whc.seq_size \in Nat
  /\ wr \in [seq : 0..(MAX_SEQ_NUMBER - 1), throttling : BOOLEAN, retransmitting : BOOLEAN,
             startup_mode : BOOLEAN, whc_low : Nat, whc_high : Nat,
             max_readers : Nat, max_seq : Nat, late_acks : BOOLEAN]
  /\ DOMAIN readers \subseteq Reader
  /\ readers \in [DOMAIN readers -> Match]
  /\ history \in Seq([sample : Sample, stored : BOOLEAN])

Init ==
  \E c \in Configs :
    /\ whc = whc_new(c.is_transient_local, c.hdepth, c.tldepth)
    /\ wr = [seq |-> 0, throttling |-> FALSE, retransmitting |-> FALSE,
             startup_mode |-> c.startup_mode, whc_low |-> c.whc_low, whc_high |-> c.whc_high,
             max_readers |-> c.max_readers, max_seq |-> c.max_seq, late_acks |-> c.late_acks]
    /\ readers = << >>
    /\ history = << >>

---------------------------------------------------------------------------
(* The acknowledgement level of the matched readers: the minimum at the    *)
(* root of wr->readers.                                                    *)

\* Mutant of MinSeq: the most advanced reader decides.
MinSeq_MostAdvanced(rds) ==
  IF DOMAIN rds = {} THEN MAX_SEQ_NUMBER ELSE Max({rds[r].seq : r \in DOMAIN rds})

MinSeq(rds) == IF DOMAIN rds = {} THEN MAX_SEQ_NUMBER ELSE Min({rds[r].seq : r \in DOMAIN rds})

writer_max_drop_seq(rds, seq) == IF MinSeq(rds) = MAX_SEQ_NUMBER THEN seq ELSE MinSeq(rds)

have_reliable_subs(rds) == MinSeq(rds) # MAX_SEQ_NUMBER

writer_may_continue == whc.unacked_bytes <= wr.whc_low /\ ~wr.retransmitting

\* Drops what every reader has acknowledged; the last acknowledgement also
\* ends retransmission.
remove_acked_messages(w, rds, wr1) ==
  LET w1 == whc_remove_acked_messages(w, writer_max_drop_seq(rds, wr1.seq))
  IN  /\ whc' = w1
      /\ wr' = [wr1 EXCEPT !.retransmitting = @ /\ w1.unacked_bytes # 0]

---------------------------------------------------------------------------
(* Writing. *)

insert_sample_in_whc(sample) ==
  LET seq == wr.seq + 1
      do_insert == have_reliable_subs(readers) \/ whc.is_transient_local \/ wr.startup_mode
  IN  /\ whc' = IF do_insert
                THEN whc_insert(whc, writer_max_drop_seq(readers, seq), seq, sample)
                ELSE whc
      /\ history' = Append(history, [sample |-> sample, stored |-> do_insert])

\* write_sample_kernel_seq_eot when it need not wait for the cache to shrink.
write_sample(sample) ==
  /\ wr.seq < wr.max_seq
  /\ ~wr.throttling
  /\ whc.unacked_bytes <= wr.whc_high
  /\ insert_sample_in_whc(sample)
  /\ wr' = [wr EXCEPT !.seq = @ + 1]
  /\ UNCHANGED readers

\* The cache is over its high-water mark: the writing thread goes to wait in
\* throttle_writer, releasing the lock.
throttle_begin ==
  /\ ~wr.throttling
  /\ whc.unacked_bytes > wr.whc_high
  /\ wr' = [wr EXCEPT !.throttling = TRUE]
  /\ UNCHANGED <<whc, readers, history>>

\* The wait ends because the cache shrank below the low-water mark, and the
\* blocked sample is written before the lock is released.
throttle_end(sample) ==
  /\ wr.throttling
  /\ writer_may_continue
  /\ wr.seq < wr.max_seq
  /\ insert_sample_in_whc(sample)
  /\ wr' = [wr EXCEPT !.throttling = FALSE, !.seq = @ + 1]
  /\ UNCHANGED readers

throttle_helper(m) == IF m.seq < wr.seq THEN [m EXCEPT !.seq = MAX_SEQ_NUMBER] ELSE m

\* The wait times out: the readers that lag are considered non-responsive.
\* They no longer hold back the cache, and the blocked sample is written.
throttle_timeout(sample) ==
  LET rds == [r \in DOMAIN readers |-> throttle_helper(readers[r])]
      w1 == whc_remove_acked_messages(whc, writer_max_drop_seq(rds, wr.seq))
      seq == wr.seq + 1
      do_insert == have_reliable_subs(rds) \/ whc.is_transient_local \/ wr.startup_mode
  IN  /\ wr.throttling
      /\ ~writer_may_continue
      /\ seq <= wr.max_seq
      /\ readers' = rds
      /\ whc' = IF do_insert
                THEN whc_insert(w1, writer_max_drop_seq(rds, seq), seq, sample)
                ELSE w1
      /\ history' = Append(history, [sample |-> sample, stored |-> do_insert])
      /\ wr' = [wr EXCEPT !.throttling = FALSE, !.seq = seq,
                          !.retransmitting = @ /\ w1.unacked_bytes # 0]

---------------------------------------------------------------------------
(* Discovery. *)

\* A reader that is being deleted, like a best-effort one, counts as having
\* acknowledged everything, past and future.
writer_add_connection(r, is_reliable, deleting) ==
  /\ r \notin DOMAIN readers /\ Cardinality(DOMAIN readers) < wr.max_readers
  /\ readers' = [x \in DOMAIN readers \cup {r} |->
                   IF x # r THEN readers[x]
                   ELSE [seq |-> IF deleting \/ ~is_reliable THEN MAX_SEQ_NUMBER ELSE wr.seq,
                         is_reliable |-> is_reliable, deleting |-> deleting]]
  /\ UNCHANGED <<whc, wr, history>>

writer_drop_connection(r) ==
  /\ r \in DOMAIN readers
  /\ readers' = Restrict(readers, DOMAIN readers \ {r})
  /\ remove_acked_messages(whc, readers', wr)
  /\ UNCHANGED history

\* delete_proxy_reader: pretend the reader has acknowledged everything, so
\* that a throttled writer can proceed; the garbage collector drops the
\* connection later.
proxy_reader_set_delete_and_ack_all_messages(r) ==
  LET w1 == whc_remove_acked_messages(whc, writer_max_drop_seq(readers', wr.seq))
  IN  /\ r \in DOMAIN readers
      /\ ~readers[r].deleting
      /\ readers' = [readers EXCEPT ![r].deleting = TRUE, ![r].seq = MAX_SEQ_NUMBER]
      /\ whc' = w1
      /\ wr' = [wr EXCEPT !.retransmitting = FALSE]
      /\ UNCHANGED history

---------------------------------------------------------------------------
(* Acknowledgements. *)

\* A pre-emptive AckNack to a writer that never wrote makes it consume
\* sequence number 1, so that it has something to put in a Gap.
force_heartbeat_to_peer(wr1, w) ==
  IF whc_empty(w) /\ wr1.seq = 0 THEN [wr1 EXCEPT !.seq = 1] ELSE wr1

\* handle_AckNack from reader r with base seqbase.  nack: it asks for a
\* sample that is still unacknowledged, which starts retransmitting.  hb:
\* the reply includes a forced heartbeat, as it must when pre-emptive (it
\* only matters as long as nothing was written).  Best-effort readers send none.
handle_AckNack(r, seqbase, nack, hb) ==
  LET m == readers[r]
      acked == IF seqbase - 1 > m.seq THEN Min({seqbase - 1, wr.seq}) ELSE m.seq
      rds1 == [readers EXCEPT ![r].seq = acked]
      w1 == IF acked # m.seq
            THEN whc_remove_acked_messages(whc, writer_max_drop_seq(rds1, wr.seq)) ELSE whc
      oldest_seq == IF whc_empty(w1) THEN wr.seq ELSE whc_max_seq(w1)
      back == Min({Max({seqbase - 1, oldest_seq}), wr.seq})
      rds2 == IF acked = MAX_SEQ_NUMBER /\ m.is_reliable
              THEN [rds1 EXCEPT ![r].seq = back] ELSE rds1
      rexmit == (wr.retransmitting /\ (acked = m.seq \/ w1.unacked_bytes # 0)) \/ nack
      wr1 == [wr EXCEPT !.retransmitting = rexmit]
  IN  /\ r \in DOMAIN readers
      /\ m.is_reliable /\ (m.deleting => wr.late_acks)
      /\ nack => \E s \in DOMAIN w1.nodes : w1.nodes[s].unacked
      /\ seqbase <= 1 /\ ~nack /\ wr.seq = 0 => hb
      /\ wr' = IF hb THEN force_heartbeat_to_peer(wr1, w1) ELSE wr1
      /\ readers' = rds2
      /\ whc' = w1
      /\ history' = IF wr'.seq > wr.seq
                    THEN Append(history, [sample |-> EmptySample, stored |-> FALSE])
                    ELSE history

\* The end of start-up mode: the cache turns volatile.
writer_exit_startup_mode ==
  LET w1 == whc_remove_acked_messages(whc_downgrade_to_volatile(whc),
                                      writer_max_drop_seq(readers, wr.seq))
  IN  /\ wr.startup_mode
      /\ whc' = w1
      /\ wr' = [wr EXCEPT !.startup_mode = FALSE, !.retransmitting = FALSE]
      /\ UNCHANGED <<readers, history>>

Next ==
  \/ \E sample \in Sample : write_sample(sample)
  \/ throttle_begin
  \/ \E sample \in Sample : throttle_end(sample)
  \/ \E sample \in Sample : throttle_timeout(sample)
  \/ \E r \in Reader, is_reliable, deleting \in BOOLEAN :
        writer_add_connection(r, is_reliable, deleting)
  \/ \E r \in Reader : writer_drop_connection(r)
  \/ \E r \in Reader : proxy_reader_set_delete_and_ack_all_messages(r)
  \/ \E r \in Reader, seqbase \in 1..(wr.seq + 2), nack \in BOOLEAN, hb \in {FALSE, wr.seq = 0} :
        handle_AckNack(r, seqbase, nack, hb)
  \/ writer_exit_startup_mode

Spec == Init /\ [][Next]_vars

---------------------------------------------------------------------------
(* Properties. *)

\* No assert () of q_whc.c fails, and check_whc holds between operations.
AssertsHold == whc.asserts /\ check_whc(whc)

\* What the comment in check_whc would like to check: the intervals are
\* disjoint, not contiguous, only the open one may be empty, and together
\* they are exactly the samples in the hash; seq_size counts them; and the
\* queries whc_min_seq, whc_max_seq and whc_next_seq, from which heartbeats
\* and gaps are made, agree with the samples stored.
SeqAdminExact ==
  LET S == DOMAIN whc.nodes
  IN  /\ S = UNION {i.min .. (i.maxp1 - 1) : i \in whc.seq}
      /\ \A i, j \in whc.seq : i # j => i.maxp1 < j.min \/ j.maxp1 < i.min
                                         \/ EmptyIntv(whc.open_intv)
      /\ \A i \in whc.seq : EmptyIntv(i) => i = whc.open_intv
      /\ whc.seq_size = Cardinality(S)
      /\ S # {} => whc_min_seq(whc) = Min(S) /\ whc_max_seq(whc) = Max(S)
      /\ \A s \in 0..wr.seq :
           LET above == {t \in S : t > s}
           IN  whc_next_seq(whc, s) = IF above = {} THEN MAX_SEQ_NUMBER ELSE Min(above)

\* Every index node has a sample at its head, its slots and the nodes point
\* at each other, and going back from the head the samples only get older.
IndexExact ==
  /\ \A k \in DOMAIN whc.idx_hash :
       LET x == whc.idx_hash[k]
           used == {i \in DOMAIN x.hist : x.hist[i] # 0}
       IN  /\ x.headidx \in used
           /\ \A i \in used : /\ x.hist[i] \in DOMAIN whc.nodes
                              /\ whc.nodes[x.hist[i]].idxnode = k
                              /\ whc.nodes[x.hist[i]].idxnode_pos = i
                              /\ whc.nodes[x.hist[i]].serdata = [key |-> k, kind |-> "write"]
           /\ \A i, j \in used : Age(whc, k, i) < Age(whc, k, j) => x.hist[i] > x.hist[j]
  /\ \A s \in DOMAIN whc.nodes :
       LET n == whc.nodes[s]
       IN  n.idxnode # None => /\ n.idxnode \in DOMAIN whc.idx_hash
                               /\ whc.idx_hash[n.idxnode].hist[n.idxnode_pos] = s

\* unacked_bytes, on which throttling, lingering and the heartbeat rate
\* depend, is the size of exactly the samples marked unacked; and unless the
\* cache keeps everything those are the stored samples that some matched
\* reader has yet to acknowledge.
UnackedBytesExact ==
  LET unacked == {s \in DOMAIN whc.nodes : whc.nodes[s].unacked}
  IN  /\ whc.unacked_bytes = MapThenSumSet(LAMBDA s : whcn_size(whc.nodes[s].serdata), unacked)
      /\ ~(whc.is_transient_local /\ whc.tldepth = 0) =>
           unacked = {s \in DOMAIN whc.nodes : s > writer_max_drop_seq(readers, wr.seq)}

\* What the cache promises, see HistoryCache.
Policy == [is_transient_local |-> whc.is_transient_local,
           hdepth |-> whc.hdepth, tldepth |-> whc.tldepth, startup_mode |-> wr.startup_mode]

HC == INSTANCE HistoryCache WITH
        log <- history, stored <- DOMAIN whc.nodes, policy <- Policy,
        acked <- writer_max_drop_seq(readers, wr.seq), dropped <- whc.max_drop_seq

\* The cache implements HistoryCache: under every interleaving of writes,
\* acknowledgements, discovery and time-outs it keeps what a matched reader
\* still needs and the transient-local history, and nothing else for long.
ImplementsHistoryCache == HC!Spec
=============================================================================
