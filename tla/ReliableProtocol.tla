-------------------------- MODULE ReliableProtocol --------------------------
(***************************************************************************)
(* The reliable protocol of the networking service, end to end: a volatile *)
(* reliable writer with its history cache and matched readers; a network   *)
(* that loses, duplicates and reorders; and at each remote reader the      *)
(* proxy writer with its reorder administration.                           *)
(*                                                                         *)
(* The cache is the set of the sequence numbers it holds (WriterHistory    *)
(* has the details) and the reorder administration two sets, of the        *)
(* samples and of the gaps it holds beyond next_seq (Reorder).             *)
(*                                                                         *)
(* The counts of AckNacks and heartbeats are left out: a message with an   *)
(* old count is accepted after two seconds (accept_ack_or_hb_w_timeout),   *)
(* so any may be, and one that is not accepted is as if it were lost.      *)
(***************************************************************************)
EXTENDS Integers, FiniteSets

CONSTANTS
  Reader,           \* remote reliable readers, each with its proxy writer
  MAX_SEQ_NUMBER,   \* sequence numbers stay below it
  MaxMsgs,          \* how many messages the network holds at once
  Rediscovery       \* whether a reader's side may lose the writer

ASSUME ProtocolAssumption ==
  MAX_SEQ_NUMBER \in Nat \ {0, 1} /\ MaxMsgs \in Nat /\ Rediscovery \in BOOLEAN

VARIABLES
  \* the writer: wr->seq, wr->seq_xmit, the samples in the cache
  seq, seq_xmit, whc,
  \* the matched readers: those that count, those considered to have
  \* acknowledged everything (wr_prd_match.seq = MAX_SEQ_NUMBER), and
  \* wr_prd_match.seq of the ones that count
  active, demoted, acked,
  \* the proxy writers: next_seq, last_seq and what the reorder holds
  next_seq, last_seq, samples, gaps,
  \* the network
  msgs,
  \* history: where a reader's claim on the writer begins, the sequence
  \* numbers nobody has a claim on (overwritten in a keep-last cache, or
  \* consumed without a sample), and the samples handed to a reader
  joined, obsolete, delivered

writer == <<seq, seq_xmit, whc, obsolete>>
match == <<active, demoted, acked, joined>>
pwr == <<next_seq, last_seq, samples, gaps, delivered>>
vars == <<seq, seq_xmit, whc, obsolete, active, demoted, acked, joined,
          next_seq, last_seq, samples, gaps, delivered, msgs>>

Seqs == 1..(MAX_SEQ_NUMBER - 1)

Data(s) == [type |-> "data", s |-> s]
Heartbeat(first, last) == [type |-> "heartbeat", first |-> first, last |-> last]
Gap(r, nums) == [type |-> "gap", to |-> r, nums |-> nums]
AckNack(r, base, nacks, top) ==
  [type |-> "acknack", from |-> r, base |-> base, nacks |-> nacks, top |-> top]

Message ==
  [type : {"data"}, s : Nat]
    \cup [type : {"heartbeat"}, first : Nat, last : Nat]
    \cup [type : {"gap"}, to : Reader, nums : SUBSET Nat]
    \cup [type : {"acknack"}, from : Reader, base : Nat \ {0}, nacks : SUBSET Nat, top : Nat]

\* The variables have their types; a reader is matched once; what a proxy
\* writer holds for later is beyond next_seq.
TypeOK ==
  /\ seq \in 0..(MAX_SEQ_NUMBER - 1)
  /\ seq_xmit \in 0..seq
  /\ whc \subseteq 1..seq
  /\ obsolete \subseteq 1..seq
  /\ active \subseteq Reader /\ demoted \subseteq Reader /\ active \cap demoted = {}
  /\ acked \in [Reader -> 0..seq] /\ joined \in [Reader -> 0..seq]
  /\ next_seq \in [Reader -> Nat \ {0}] /\ last_seq \in [Reader -> Nat]
  /\ samples \in [Reader -> SUBSET Nat] /\ gaps \in [Reader -> SUBSET Nat]
  /\ delivered \in [Reader -> SUBSET Nat]
  /\ \A r \in Reader : \A s \in samples[r] \cup gaps[r] : next_seq[r] < s
  /\ msgs \subseteq Message

Init ==
  /\ seq = 0 /\ seq_xmit = 0 /\ whc = {} /\ obsolete = {}
  /\ active = {} /\ demoted = {}
  /\ acked = [r \in Reader |-> 0] /\ joined = [r \in Reader |-> 0]
  /\ next_seq = [r \in Reader |-> 1] /\ last_seq = [r \in Reader |-> 0]
  /\ samples = [r \in Reader |-> {}] /\ gaps = [r \in Reader |-> {}]
  /\ delivered = [r \in Reader |-> {}]
  /\ msgs = {}

---------------------------------------------------------------------------
(* The network.  Whenever something is sent, any of it and any of what is  *)
(* on its way may be lost.  A message may be received late, more than once *)
(* or never.                                                               *)

Send(sent) ==
  \E kept \in SUBSET (msgs \cup sent) : Cardinality(kept) <= MaxMsgs /\ msgs' = kept

---------------------------------------------------------------------------
(* The writer. *)

\* Mutant: one number too many is dropped.
remove_acked_messages_OffByOne(W, A, ack) == {s \in W : \E r \in A : ack[r] + 1 < s}

\* remove_acked_messages: what remains is what some reader has yet to
\* acknowledge; nothing when there is none.
remove_acked_messages(W, A, ack) == {s \in W : \E r \in A : ack[r] < s}

\* Mutant: a sample is stored although there is no reader to keep it for.
write_sample_AlwaysStored(overwritten) ==
  /\ seq + 1 < MAX_SEQ_NUMBER
  /\ overwritten \in {{}} \cup {{s} : s \in whc}
  /\ seq' = seq + 1
  /\ whc' = (whc \ overwritten) \cup {seq + 1}
  /\ obsolete' = obsolete \cup overwritten
  /\ UNCHANGED <<seq_xmit, match, pwr, msgs>>

\* A sample is written; in a keep-last cache it may overwrite one.
write_sample(overwritten) ==
  /\ seq + 1 < MAX_SEQ_NUMBER
  /\ overwritten \in {{}} \cup {{s} : s \in whc}
  /\ seq' = seq + 1
  /\ IF active # {}
     THEN whc' = (whc \ overwritten) \cup {seq + 1} /\ obsolete' = obsolete \cup overwritten
     ELSE UNCHANGED <<whc, obsolete>>
  /\ UNCHANGED <<seq_xmit, match, pwr, msgs>>

\* The packet with the next sample leaves.
transmit_sample ==
  /\ seq_xmit < seq
  /\ seq_xmit' = seq_xmit + 1
  /\ Send({Data(seq_xmit + 1)})
  /\ UNCHANGED <<seq, whc, obsolete, match, pwr>>

\* Mutant: it starts after the oldest sample.
add_Heartbeat_OffByOne(W, xmit) ==
  {Heartbeat(f + 1, IF xmit < f THEN f ELSE xmit) : f \in {g \in W : \A t \in W : g <= t}}

\* It starts with the oldest sample in the cache and ends with the newest one
\* transmitted, or with the first when that one was not.
add_Heartbeat(W, xmit) ==
  {Heartbeat(f, IF xmit < f THEN f ELSE xmit) : f \in {g \in W : \A t \in W : g <= t}}

handle_xevk_heartbeat ==
  /\ whc # {}
  /\ Send(add_Heartbeat(whc, seq_xmit))
  /\ UNCHANGED <<writer, match, pwr>>

\* A writer with an empty cache tells the reader that its last sequence
\* number is no more.
force_heartbeat_to_peer(r, W, s, xmit) ==
  IF W = {} THEN {Gap(r, {s}), Heartbeat(s, s)} ELSE add_Heartbeat(W, xmit)

---------------------------------------------------------------------------
(* The matched readers. *)

writer_add_connection(r) ==
  /\ r \notin active \cup demoted
  /\ active' = active \cup {r}
  /\ acked' = [acked EXCEPT ![r] = seq]
  /\ joined' = [joined EXCEPT ![r] = seq]
  /\ UNCHANGED <<demoted, writer, pwr, msgs>>

writer_drop_connection(r) ==
  /\ r \in active \cup demoted
  /\ active' = active \ {r}
  /\ demoted' = demoted \ {r}
  /\ whc' = remove_acked_messages(whc, active', acked)
  /\ UNCHANGED <<seq, seq_xmit, obsolete, acked, joined, pwr, msgs>>

\* Mutant: the reader goes on to count.
proxy_reader_set_delete_StillActive(r) ==
  /\ r \in active
  /\ demoted' = demoted \cup {r}
  /\ whc' = remove_acked_messages(whc, active \ {r}, acked)
  /\ UNCHANGED <<seq, seq_xmit, obsolete, active, acked, joined, pwr, msgs>>

\* delete_proxy_reader: the reader is taken to have acknowledged everything.
proxy_reader_set_delete_and_ack_all_messages(r) ==
  /\ r \in active
  /\ active' = active \ {r}
  /\ demoted' = demoted \cup {r}
  /\ whc' = remove_acked_messages(whc, active', acked)
  /\ UNCHANGED <<seq, seq_xmit, obsolete, acked, joined, pwr, msgs>>

\* The cache did not shrink in time: the writing thread gives up on the readers
\* that lag, drops what it kept for them, and writes its sample.
throttle_writer_timeout ==
  LET on_time == {r \in active : acked[r] >= seq}
      kept == remove_acked_messages(whc, on_time, acked)
  IN  /\ whc # {}
      /\ seq + 1 < MAX_SEQ_NUMBER
      /\ seq' = seq + 1
      /\ active' = on_time
      /\ demoted' = demoted \cup (active \ on_time)
      /\ whc' = IF on_time # {} THEN kept \cup {seq + 1} ELSE kept
      /\ UNCHANGED <<seq_xmit, obsolete, acked, joined, pwr, msgs>>

---------------------------------------------------------------------------
(* An AckNack at the writer.  It acknowledges everything before base and   *)
(* asks for the numbers in nacks, a bitmap that ends at top.               *)

is_preemptive_ack(m) == m.base <= 1 /\ m.nacks = {}

\* The numbers to retransmit.  Beyond the bitmap an accelerated schedule
\* treats everything as asked for; a pre-emptive AckNack asks for what the
\* cache has.  limit is where the schedule or the queue for retransmits ends.
requested(m, W, limit) ==
  IF is_preemptive_ack(m)
  THEN {s \in 1..limit : \E f \in W : f <= s}
  ELSE {s \in m.base..limit : s \in m.nacks \/ s > m.top}

\* The Gap for the missing ones.  If the first run of them is the end of the
\* bitmap it extends to the next sample in the cache; if that one has not
\* been transmitted, the last transmitted number is left out.
grow_gap_to_next_seq(missing, top, W, xmit) ==
  LET next == {t \in W : t > top}
      reaches == /\ top \in missing /\ top + 1 \notin missing
                 /\ \E g \in missing : (\A t \in missing : g <= t) /\ g..top \subseteq missing
      grown == {t \in (top + 1)..xmit : \A n \in next : t < n}
      unsent == IF next # {} /\ \A n \in next : n > xmit THEN {xmit} ELSE {}
  IN  IF reaches THEN (missing \cup grown) \ unsent ELSE missing

\* Mutant: the reader is not told of the missing ones.
reply_NoGap(m, W, limit, xmit) == {Data(s) : s \in requested(m, W, limit) \cap W}

reply(m, W, limit, xmit) ==
  LET asked == requested(m, W, limit)
  IN  {Data(s) : s \in asked \cap W}
        \cup (IF asked \subseteq W THEN {}
              ELSE {Gap(m.from, grow_gap_to_next_seq(asked \ W, m.top, W, xmit))})

\* The ack part: the reader's level rises, and the cache is trimmed.
advance_acked(m) ==
  IF m.from \in active /\ acked[m.from] < m.base - 1
  THEN [acked EXCEPT ![m.from] = IF m.base - 1 <= seq THEN m.base - 1 ELSE seq]
  ELSE acked

whc_after_ack(m) ==
  IF advance_acked(m) = acked THEN whc
  ELSE remove_acked_messages(whc, active, advance_acked(m))

\* A reader that was given up on answers again: it restarts from the newest
\* sample in the cache.
responsive_again(m, W) ==
  \E oldest_seq \in (IF W = {} THEN {seq} ELSE {s \in W : \A t \in W : t <= s}) :
    LET level == IF m.base - 1 < oldest_seq THEN oldest_seq
                 ELSE IF m.base - 1 <= seq THEN m.base - 1 ELSE seq
    IN  /\ active' = active \cup {m.from}
        /\ demoted' = demoted \ {m.from}
        /\ acked' = [acked EXCEPT ![m.from] = level]
        /\ joined' = [joined EXCEPT ![m.from] = level]

\* hb: a heartbeat is sent in response.  For that, a writer that has not
\* written anything consumes its first sequence number.
handle_AckNack(m, limit, hb) ==
  LET W == whc_after_ack(m)
      consume == hb /\ W = {} /\ seq = 0
  IN  /\ m \in msgs /\ m.type = "acknack"
      /\ m.from \in active \cup demoted
      /\ is_preemptive_ack(m) => hb
      /\ IF m.from \in demoted
         THEN responsive_again(m, W)
         ELSE acked' = advance_acked(m) /\ UNCHANGED <<active, demoted, joined>>
      /\ whc' = W
      /\ seq' = IF consume THEN 1 ELSE seq
      /\ seq_xmit' = IF consume THEN 1 ELSE seq_xmit
      /\ obsolete' = IF consume THEN obsolete \cup {1} ELSE obsolete
      /\ Send(reply(m, W, limit, seq_xmit)
                \cup (IF hb THEN force_heartbeat_to_peer(m.from, W, seq', seq_xmit') ELSE {}))
      /\ UNCHANGED pwr

---------------------------------------------------------------------------
(* The proxy writer of reader r. *)

\* The reorder administration takes samples and gaps that are new to it and
\* delivers up to the first number it has not heard of.
reorder(r, news, newgaps) ==
  LET S == samples[r] \cup {s \in news : s >= next_seq[r] /\ s \notin gaps[r]}
      G == gaps[r] \cup {s \in newgaps : s >= next_seq[r] /\ s \notin samples[r]}
  IN  \E n \in next_seq[r]..MAX_SEQ_NUMBER :
        /\ n \notin S \cup G
        /\ next_seq[r]..(n - 1) \subseteq S \cup G
        /\ next_seq' = [next_seq EXCEPT ![r] = n]
        /\ delivered' = [delivered EXCEPT ![r] = @ \cup {s \in S : s < n}]
        /\ samples' = [samples EXCEPT ![r] = {s \in S : s > n}]
        /\ gaps' = [gaps EXCEPT ![r] = {s \in G : s > n}]

note_last_seq(r, last) ==
  last_seq' = [last_seq EXCEPT ![r] = IF last > @ THEN last ELSE @]

handle_regular(r, m) ==
  /\ m \in msgs /\ m.type = "data"
  /\ reorder(r, {m.s}, {})
  /\ note_last_seq(r, m.s)
  /\ UNCHANGED <<writer, match, msgs>>

\* Mutant: the first available sample is taken to be gone too.
handle_Heartbeat_Inclusive(r, m) ==
  /\ m \in msgs /\ m.type = "heartbeat"
  /\ reorder(r, {}, 1..m.first)
  /\ note_last_seq(r, m.last)
  /\ UNCHANGED <<writer, match, msgs>>

\* A heartbeat that starts at first says that everything before it is gone.
handle_Heartbeat(r, m) ==
  /\ m \in msgs /\ m.type = "heartbeat"
  /\ reorder(r, {}, 1..(m.first - 1))
  /\ note_last_seq(r, m.last)
  /\ UNCHANGED <<writer, match, msgs>>

handle_Gap(r, m) ==
  /\ m \in msgs /\ m.type = "gap" /\ m.to = r
  /\ reorder(r, {}, m.nums)
  /\ \E last \in m.nums \cup {0} : (\A s \in m.nums : s <= last) /\ note_last_seq(r, last)
  /\ UNCHANGED <<writer, match, msgs>>

\* Mutant: it acknowledges up to the last number known to exist.
handle_xevk_acknack_LastSeq(r) ==
  /\ Send({AckNack(r, last_seq[r] + 1, {}, last_seq[r])})
  /\ UNCHANGED <<writer, match, pwr>>

\* It acknowledges what was delivered and asks for what is missing up to the
\* last number known to exist.  The bitmap of a pure acknowledgement is empty
\* (AckNackNumbitsEmptySet is 0).
handle_xevk_acknack(r) ==
  LET nacks == {s \in next_seq[r]..last_seq[r] : s \notin samples[r] \cup gaps[r]}
      top == IF last_seq[r] < next_seq[r] THEN next_seq[r] - 1 ELSE last_seq[r]
  IN  /\ Send({AckNack(r, next_seq[r], nacks, top)})
      /\ UNCHANGED <<writer, match, pwr>>

\* The reader's side loses the writer and discovers it again.
new_proxy_writer(r) ==
  /\ Rediscovery
  /\ next_seq' = [next_seq EXCEPT ![r] = 1]
  /\ last_seq' = [last_seq EXCEPT ![r] = 0]
  /\ samples' = [samples EXCEPT ![r] = {}]
  /\ gaps' = [gaps EXCEPT ![r] = {}]
  /\ UNCHANGED <<writer, match, delivered, msgs>>

---------------------------------------------------------------------------
Next ==
  \/ \E overwritten \in SUBSET whc : write_sample(overwritten)
  \/ transmit_sample
  \/ handle_xevk_heartbeat
  \/ throttle_writer_timeout
  \/ \E m \in msgs, limit \in 0..seq_xmit, hb \in BOOLEAN : handle_AckNack(m, limit, hb)
  \/ \E r \in Reader :
       \/ writer_add_connection(r)
       \/ writer_drop_connection(r)
       \/ proxy_reader_set_delete_and_ack_all_messages(r)
       \/ handle_xevk_acknack(r)
       \/ new_proxy_writer(r)
       \/ \E m \in msgs : handle_regular(r, m) \/ handle_Heartbeat(r, m) \/ handle_Gap(r, m)

Spec == Init /\ [][Next]_vars

\* A lossy network lets a message through if it is sent again and again.  The
\* events: a heartbeat, an AckNack or a reply with what reader r waits for is
\* sent and not lost; r receives the present heartbeat or what it waits for.
\* The heartbeat event reschedules itself while a sample is unacknowledged,
\* the acknack event while one is missing.  The reader's side may lose the
\* writer again and again, but not forever.
HeartbeatSent == handle_xevk_heartbeat /\ add_Heartbeat(whc, seq_xmit) \subseteq msgs'

AckNackSent(r) == handle_xevk_acknack(r) /\ \E m \in msgs' \ msgs : m.type = "acknack"

Helps(r, m) == m = Data(next_seq[r]) \/ (m.type = "gap" /\ m.to = r /\ next_seq[r] \in m.nums)

ReplySent(r) ==
  /\ \E m \in msgs : m.type = "acknack" /\ \E limit \in 0..seq_xmit, hb \in BOOLEAN : handle_AckNack(m, limit, hb)
  /\ \E m \in msgs' \ msgs : Helps(r, m)

HeartbeatReceived(r) == \E m \in msgs \cap add_Heartbeat(whc, seq_xmit) : handle_Heartbeat(r, m)

HelpReceived(r) == \E m \in msgs : Helps(r, m) /\ (handle_regular(r, m) \/ handle_Gap(r, m))

FairSpec ==
  /\ Spec
  /\ WF_vars(transmit_sample)
  /\ SF_vars(HeartbeatSent)
  /\ \A r \in Reader : /\ SF_vars(HeartbeatReceived(r))
                       /\ SF_vars(AckNackSent(r))
                       /\ SF_vars(ReplySent(r))
                       /\ SF_vars(HelpReceived(r))
                       /\ <>[][~new_proxy_writer(r)]_vars

---------------------------------------------------------------------------
\* The sequence numbers the writer has used and can no longer supply.
Gone == (1..seq) \ whc

\* What a message declares to be no more.
declared(m) ==
  IF m.type = "gap" THEN m.nums ELSE IF m.type = "heartbeat" THEN 1..(m.first - 1) ELSE {}

\* Nothing is lost between the cache and the reader.  Every sample written
\* since a reader was matched (or last considered responsive again) is still
\* in the cache, has been delivered to it, or is one nobody has a claim on.
NothingLost ==
  \A r \in active : \A s \in (joined[r] + 1)..seq :
    s \in whc \/ s \in delivered[r] \/ s \in obsolete

\* No reader passes a sample the writer still has without its delivery: every
\* position a proxy writer has reached, or reported in an AckNack on its way,
\* is covered by deliveries to its reader and by numbers that are gone.
PositionsBacked ==
  /\ \A r \in Reader : \A s \in 1..(next_seq[r] - 1) : s \in delivered[r] \/ s \in Gone
  /\ \A m \in msgs : m.type = "acknack" =>
       \A s \in 1..(m.base - 1) : s \in delivered[m.from] \/ s \in Gone

\* The cache ends at wr->seq unless it is empty, so a reader that is
\* responsive again restarts where the writer is; and without readers to wait
\* for it is empty.
CacheEndsAtSeq ==
  /\ whc # {} => seq \in whc
  /\ active = {} => whc = {}

\* The acknowledgements the writer holds are true, though they may come from
\* messages that are old, duplicated, or of an earlier life of the proxy writer.
AckedIsDelivered ==
  \A r \in active : \A s \in (joined[r] + 1)..acked[r] : s \in delivered[r] \/ s \in obsolete

\* No Gap or Heartbeat on its way, however old, and no gap that waits in a
\* reorder administration covers a sample the writer can still supply.
OnlyGoneIsDeclared ==
  /\ \A m \in msgs : declared(m) \subseteq Gone
  /\ \A r \in Reader : gaps[r] \subseteq Gone

\* Reliability as the application sees it: once a reader has moved past a
\* sample that it had a claim on, the sample was delivered to it.
ReliableDelivery ==
  \A r \in active : \A s \in (joined[r] + 1)..(next_seq[r] - 1) :
    s \in delivered[r] \/ s \in obsolete

\* A sample is delivered to every reader that stays matched and is not given
\* up on, whatever the network loses, unless it is overwritten first.
EventuallyDelivered ==
  \A r \in Reader, s \in Seqs :
    (r \in active /\ s > joined[r] /\ s <= seq)
      ~> (r \notin active \/ s <= joined[r] \/ s \in delivered[r] \/ s \in obsolete)
=============================================================================
