----------------------- MODULE ReliableProtocolProofs -----------------------
(***************************************************************************)
(* The safety properties of ReliableProtocol for any set of readers, any   *)
(* MAX_SEQ_NUMBER and any network capacity.                                *)
(*                                                                         *)
(* NothingLost is not inductive: the cache is trimmed on the word of an    *)
(* AckNack, so what AckNacks on their way say must be true, which depends  *)
(* on what the readers were told by Gaps and Heartbeats, which must be     *)
(* true of the cache.  IInv ties the three together.                       *)
(***************************************************************************)
EXTENDS ReliableProtocol, TLAPS

IInv ==
  /\ TypeOK
  /\ NothingLost
  /\ AckedIsDelivered
  /\ OnlyGoneIsDeclared
  /\ PositionsBacked
  /\ CacheEndsAtSeq

---------------------------------------------------------------------------
(* Messages and the network. *)

\* The fields of a message have the types its kind gives them.
LEMMA MessageFields ==
  ASSUME NEW m \in Message
  PROVE  /\ m.type \in {"data", "heartbeat", "gap", "acknack"}
         /\ m.type = "data" => m.s \in Nat
         /\ m.type = "heartbeat" => m.first \in Nat /\ m.last \in Nat
         /\ m.type = "gap" => m.to \in Reader /\ m.nums \in SUBSET Nat
         /\ m.type = "acknack" => /\ m.from \in Reader /\ m.base \in Nat \ {0}
                                  /\ m.nacks \in SUBSET Nat /\ m.top \in Nat
BY Zenon DEF Message

\* Sending adds nothing to the network but what is sent.
LEMMA SendAdds ==
  ASSUME NEW sent, Send(sent)
  PROVE  msgs' \subseteq msgs \cup sent
BY Zenon DEF Send

\* What the network holds stays true when the sent messages are true and the
\* writer supplies nothing again that was gone.
LEMMA NetworkTrue ==
  ASSUME NEW sent, msgs' \subseteq msgs \cup sent,
         msgs \subseteq Message, sent \subseteq Message,
         \A m \in msgs : declared(m) \subseteq Gone,
         \A m \in sent : declared(m) \subseteq Gone',
         Gone \subseteq Gone'
  PROVE  /\ msgs' \subseteq Message
         /\ \A m \in msgs' : declared(m) \subseteq Gone'
BY Zenon DEF declared

---------------------------------------------------------------------------
\* Nothing was written or sent yet.
LEMMA InitInductive == Init => IInv
<1> SUFFICES ASSUME Init PROVE IInv BY Zenon
<1> USE ProtocolAssumption DEF Init
<1>1. TypeOK BY DEF TypeOK
<1>2. NothingLost BY Zenon DEF NothingLost
<1>3. AckedIsDelivered BY Zenon DEF AckedIsDelivered
<1>4. OnlyGoneIsDeclared BY Zenon DEF OnlyGoneIsDeclared
<1>5. PositionsBacked BY DEF PositionsBacked
<1>6. CacheEndsAtSeq BY Zenon DEF CacheEndsAtSeq
<1> QED BY Zenon, <1>1, <1>2, <1>3, <1>4, <1>5, <1>6 DEF IInv
---------------------------------------------------------------------------
(* Steps of the writer and of its administration of the readers. *)

\* A step that leaves the proxy writers and the network alone, and after which
\* what was gone still is.
LEMMA RemoteUntouched ==
  ASSUME IInv, Gone \subseteq Gone', UNCHANGED <<pwr, msgs>>
  PROVE  OnlyGoneIsDeclared' /\ PositionsBacked'
<1> USE DEF IInv, pwr
<1>1. OnlyGoneIsDeclared' BY Zenon DEF OnlyGoneIsDeclared, declared
<1>2. PositionsBacked' BY Zenon DEF PositionsBacked
<1> QED BY Zenon, <1>1, <1>2

\* Dropping what every reader that counts has acknowledged loses nothing, when
\* those acknowledgements are true.
LEMMA TrimSafe ==
  ASSUME IInv, NEW A \in SUBSET Reader, NEW ack \in [Reader -> 0..seq],
         NEW W, W = remove_acked_messages(whc, A, ack)
  PROVE  /\ W \subseteq whc
         /\ \A s \in whc \ W : \A r \in A : s <= ack[r]
         /\ W # {} => seq \in W
         /\ A = {} => W = {}
<1> USE DEF IInv, TypeOK, remove_acked_messages
<1>1. W \subseteq whc BY Zenon
<1>2. \A s \in whc \ W : \A r \in A : s <= ack[r] OBVIOUS
<1>3. ASSUME W # {} PROVE seq \in W
  <2>1. PICK s \in W : TRUE BY Zenon, <1>3
  <2>2. PICK r \in A : ack[r] < s BY Zenon, <2>1
  <2>3. seq \in whc BY Zenon, <2>1 DEF CacheEndsAtSeq
  <2>4. s <= seq BY <2>1
  <2> QED BY <2>2, <2>3, <2>4
<1>4. A = {} => W = {} BY Zenon
<1> QED BY Zenon, <1>1, <1>2, <1>3, <1>4

\* write_sample: the new sample is in the cache if anybody counts, and what it
\* overwrites is nobody's claim any more.
LEMMA WriteStep ==
  ASSUME IInv, NEW overwritten \in SUBSET whc, write_sample(overwritten)
  PROVE  IInv'
<1> USE DEF IInv, write_sample, match, pwr
<1> seq \in Nat /\ seq' = seq + 1 /\ MAX_SEQ_NUMBER \in Nat BY ProtocolAssumption DEF TypeOK
<1>1. TypeOK'
  <2>1. seq' \in 0..(MAX_SEQ_NUMBER - 1) /\ seq_xmit' \in 0..seq' BY DEF TypeOK
  <2>2. whc' \subseteq 1..seq' /\ obsolete' \subseteq 1..seq'
    <3>1. 1..seq \subseteq 1..seq' /\ seq + 1 \in 1..seq' OBVIOUS
    <3>2. whc \subseteq 1..seq /\ obsolete \subseteq 1..seq BY Zenon DEF TypeOK
    <3>3. CASE active = {} BY Zenon, <3>1, <3>2, <3>3
    <3>4. CASE active # {} BY Zenon, <3>1, <3>2, <3>4
    <3> QED BY Zenon, <3>3, <3>4
  <2>3. acked' \in [Reader -> 0..seq'] /\ joined' \in [Reader -> 0..seq']
    <3>1. 0..seq \subseteq 0..seq' OBVIOUS
    <3> QED BY Zenon, <3>1 DEF TypeOK
  <2> QED BY Zenon, <2>1, <2>2, <2>3 DEF TypeOK
<1>2. Gone \subseteq Gone' BY DEF Gone, TypeOK
<1>3. NothingLost' BY DEF NothingLost, TypeOK
<1>4. AckedIsDelivered' BY Zenon DEF AckedIsDelivered, TypeOK
<1>5. CacheEndsAtSeq' BY Zenon DEF CacheEndsAtSeq, TypeOK
<1> QED BY Zenon, <1>1, <1>2, <1>3, <1>4, <1>5, RemoteUntouched

\* writer_add_connection: the reader has no claim on anything yet.
LEMMA AddStep ==
  ASSUME IInv, NEW r \in Reader, writer_add_connection(r)
  PROVE  IInv'
<1> USE DEF IInv, writer_add_connection, writer, pwr
<1> seq \in Nat BY DEF TypeOK
<1>1. TypeOK' BY DEF TypeOK
<1>2. Gone \subseteq Gone' BY Zenon DEF Gone, TypeOK
<1>3. NothingLost' BY DEF NothingLost, TypeOK
<1>4. AckedIsDelivered' BY DEF AckedIsDelivered, TypeOK
<1>5. CacheEndsAtSeq' BY Zenon DEF CacheEndsAtSeq, TypeOK
<1> QED BY Zenon, <1>1, <1>2, <1>3, <1>4, <1>5, RemoteUntouched

\* Fewer readers count, and the cache is trimmed.
LEMMA FewerReaders ==
  ASSUME IInv, active' \subseteq active, demoted' \subseteq active \cup demoted,
         active' \cap demoted' = {},
         whc' = remove_acked_messages(whc, active', acked),
         UNCHANGED <<seq, seq_xmit, obsolete, acked, joined, pwr, msgs>>
  PROVE  IInv'
<1> USE DEF IInv, pwr
<1>0. /\ whc' \subseteq whc
      /\ \A s \in whc \ whc' : \A r \in active' : s <= acked[r]
      /\ whc' # {} => seq \in whc'
      /\ active' = {} => whc' = {}
  BY TrimSafe DEF TypeOK
<1>1. TypeOK' BY Zenon, <1>0 DEF TypeOK
<1>2. Gone \subseteq Gone' BY Zenon, <1>0 DEF Gone
<1>3. NothingLost'
  <2> SUFFICES ASSUME NEW r \in active', NEW s \in (joined[r] + 1)..seq
               PROVE  s \in whc' \/ s \in delivered[r] \/ s \in obsolete
    BY Zenon DEF NothingLost
  <2>1. s \in whc \/ s \in delivered[r] \/ s \in obsolete BY Zenon DEF NothingLost
  <2>2. ASSUME s \in whc \ whc' PROVE s \in delivered[r] \/ s \in obsolete
    BY <1>0, <2>2 DEF AckedIsDelivered, TypeOK
  <2> QED BY Zenon, <2>1, <2>2
<1>4. AckedIsDelivered' BY Zenon DEF AckedIsDelivered
<1>5. CacheEndsAtSeq' BY Zenon, <1>0 DEF CacheEndsAtSeq
<1> QED BY Zenon, <1>1, <1>2, <1>3, <1>4, <1>5, RemoteUntouched

\* writer_drop_connection: the reader leaves, and what was kept for it goes.
LEMMA DropStep ==
  ASSUME IInv, NEW r \in Reader, writer_drop_connection(r)
  PROVE  IInv'
BY Zenon, FewerReaders DEF writer_drop_connection, IInv, TypeOK

\* proxy_reader_set_delete_and_ack_all_messages: the reader no longer counts.
LEMMA DeleteStep ==
  ASSUME IInv, NEW r \in Reader, proxy_reader_set_delete_and_ack_all_messages(r)
  PROVE  IInv'
BY Zenon, FewerReaders DEF proxy_reader_set_delete_and_ack_all_messages, IInv, TypeOK

\* throttle_writer gives up on the lagging readers.  The others have
\* acknowledged everything before the new sample, so they miss nothing.
LEMMA ThrottleStep ==
  ASSUME IInv, throttle_writer_timeout
  PROVE  IInv'
<1> USE DEF IInv, pwr
<1> DEFINE on_time == {r \in active : acked[r] >= seq}
           kept == remove_acked_messages(whc, on_time, acked)
<1>0. /\ seq \in Nat /\ seq' = seq + 1 /\ seq + 1 < MAX_SEQ_NUMBER /\ MAX_SEQ_NUMBER \in Nat
      /\ whc \subseteq 1..seq /\ obsolete \subseteq 1..seq
      /\ acked \in [Reader -> 0..seq] /\ joined \in [Reader -> 0..seq] /\ active \subseteq Reader
      /\ seq_xmit \in 0..seq
  BY ProtocolAssumption DEF TypeOK, throttle_writer_timeout
<1>1. \A r \in on_time : acked[r] = seq BY <1>0
<1>2. kept = {}
  <2>1. \A s \in whc : \A r \in on_time : ~(acked[r] < s) BY <1>0, <1>1
  <2> HIDE DEF on_time
  <2> QED BY Zenon, <2>1 DEF remove_acked_messages
<1>3. /\ active' = on_time /\ demoted' = demoted \cup (active \ on_time)
      /\ whc' = IF on_time # {} THEN {seq + 1} ELSE {}
      /\ UNCHANGED <<seq_xmit, obsolete, acked, joined, pwr, msgs>>
  <2>1. whc' = IF on_time # {} THEN kept \cup {seq + 1} ELSE kept BY Zenon DEF throttle_writer_timeout
  <2>2. /\ active' = on_time /\ demoted' = demoted \cup (active \ on_time)
        /\ UNCHANGED <<seq_xmit, obsolete, acked, joined, pwr, msgs>>
    BY Zenon DEF throttle_writer_timeout
  <2> HIDE DEF kept, on_time
  <2>3. whc' = IF on_time # {} THEN {seq + 1} ELSE {} BY Zenon, <1>2, <2>1
  <2> QED BY Zenon, <2>2, <2>3
<1>4. TypeOK'
  <2>1. seq' \in 0..(MAX_SEQ_NUMBER - 1) /\ seq_xmit' \in 0..seq' BY <1>0, <1>3
  <2>2. 0..seq \subseteq 0..seq' /\ 1..seq \subseteq 1..seq' /\ seq + 1 \in 1..seq' BY <1>0
  <2>3. whc' \subseteq 1..seq' /\ obsolete' \subseteq 1..seq' BY Zenon, <1>0, <1>3, <2>2
  <2>4. acked' \in [Reader -> 0..seq'] /\ joined' \in [Reader -> 0..seq'] BY Zenon, <1>0, <1>3, <2>2
  <2>5. /\ active' \subseteq Reader /\ demoted' \subseteq Reader /\ active' \cap demoted' = {}
    BY Zenon, <1>3 DEF TypeOK
  <2> QED BY Zenon, <1>3, <2>1, <2>3, <2>4, <2>5 DEF TypeOK
<1>5. Gone \subseteq Gone' BY <1>0, <1>3 DEF Gone
<1>6. NothingLost'
  <2> SUFFICES ASSUME NEW r \in active', NEW s \in (joined[r] + 1)..(seq + 1)
               PROVE  s \in whc' \/ s \in delivered[r] \/ s \in obsolete
    BY Zenon, <1>0, <1>3 DEF NothingLost
  <2>1. r \in active /\ acked[r] = seq /\ joined[r] \in Nat /\ seq + 1 \in whc' BY <1>0, <1>1, <1>3
  <2>2. s = seq + 1 \/ s \in (joined[r] + 1)..acked[r] BY <1>0, <2>1
  <2> QED BY Zenon, <2>1, <2>2 DEF AckedIsDelivered
<1>7. AckedIsDelivered' BY Zenon, <1>3 DEF AckedIsDelivered
<1>8. CacheEndsAtSeq' BY Zenon, <1>0, <1>3 DEF CacheEndsAtSeq
<1> QED BY Zenon, <1>3, <1>4, <1>5, <1>6, <1>7, <1>8, RemoteUntouched

---------------------------------------------------------------------------
(* Steps that only send. *)

\* A step after which the network holds some more true messages.
LEMMA SendStep ==
  ASSUME IInv, NEW sent, Send(sent), UNCHANGED <<seq, whc, obsolete, match, pwr>>,
         seq_xmit' \in 0..seq, sent \subseteq Message,
         \A m \in sent : declared(m) \subseteq Gone,
         \A m \in sent : m.type = "acknack" =>
           \A s \in 1..(m.base - 1) : s \in delivered[m.from] \/ s \in Gone
  PROVE  IInv'
<1> USE DEF IInv, match, pwr
<1>0. msgs' \subseteq msgs \cup sent BY Zenon, SendAdds
<1>1. TypeOK' BY Zenon, <1>0 DEF TypeOK
<1>2. Gone' = Gone BY Zenon DEF Gone
<1>3. NothingLost' BY Zenon DEF NothingLost
<1>4. AckedIsDelivered' BY Zenon DEF AckedIsDelivered
<1>5. OnlyGoneIsDeclared' BY Zenon, <1>0, <1>2 DEF OnlyGoneIsDeclared, declared
<1>6. PositionsBacked' BY Zenon, <1>0, <1>2 DEF PositionsBacked
<1>7. CacheEndsAtSeq' BY Zenon DEF CacheEndsAtSeq
<1> QED BY Zenon, <1>1, <1>3, <1>4, <1>5, <1>6, <1>7

\* transmit_sample sends a data message, which declares nothing.
LEMMA TransmitStep ==
  ASSUME IInv, transmit_sample
  PROVE  IInv'
<1> DEFINE m == Data(seq_xmit + 1)
<1> seq_xmit \in 0..seq /\ seq \in Nat BY DEF IInv, TypeOK
<1>1. m \in Message /\ m.type = "data" BY DEF Data, Message
<1>2. declared(m) = {} BY Zenon, <1>1 DEF declared
<1> QED BY <1>1, <1>2, SendStep DEF transmit_sample

\* A heartbeat starts at the oldest sample in the cache: what it declares is
\* gone.
LEMMA HeartbeatTrue ==
  ASSUME NEW s \in Nat, NEW W \in SUBSET (1..s), NEW xmit \in Nat,
         NEW m \in add_Heartbeat(W, xmit)
  PROVE  m \in Message /\ m.type = "heartbeat" /\ declared(m) \subseteq (1..s) \ W
<1>1. PICK f \in W : (\A t \in W : f <= t) /\ m = Heartbeat(f, IF xmit < f THEN f ELSE xmit)
  BY Zenon DEF add_Heartbeat
<1>2. f \in 1..s BY Zenon
<1>3. m.type = "heartbeat" /\ m.first = f BY Zenon, <1>1 DEF Heartbeat
<1>4. m \in Message BY <1>1, <1>2 DEF Heartbeat, Message
<1>5. declared(m) = 1..(f - 1) BY Zenon, <1>3 DEF declared
<1>6. 1..(f - 1) \subseteq (1..s) \ W BY <1>1, <1>2
<1> QED BY Zenon, <1>3, <1>4, <1>5, <1>6

\* handle_xevk_heartbeat sends one such heartbeat.
LEMMA HeartbeatStep ==
  ASSUME IInv, handle_xevk_heartbeat
  PROVE  IInv'
<1>1. seq \in Nat /\ whc \in SUBSET (1..seq) /\ seq_xmit \in Nat /\ seq_xmit \in 0..seq
  BY DEF IInv, TypeOK
<1>2. \A m \in add_Heartbeat(whc, seq_xmit) :
        m \in Message /\ m.type = "heartbeat" /\ declared(m) \subseteq Gone
  BY Zenon, <1>1, HeartbeatTrue DEF Gone
<1> QED BY Zenon, <1>1, <1>2, SendStep DEF handle_xevk_heartbeat, writer

\* handle_xevk_acknack reports the position of the proxy writer.
LEMMA AckNackSendStep ==
  ASSUME IInv, NEW r \in Reader, handle_xevk_acknack(r)
  PROVE  IInv'
<1> DEFINE nacks == {s \in next_seq[r]..last_seq[r] : s \notin samples[r] \cup gaps[r]}
           top == IF last_seq[r] < next_seq[r] THEN next_seq[r] - 1 ELSE last_seq[r]
           m == AckNack(r, next_seq[r], nacks, top)
<1>1. next_seq[r] \in Nat \ {0} /\ last_seq[r] \in Nat /\ seq_xmit \in 0..seq
  BY Zenon DEF IInv, TypeOK
<1>2. nacks \in SUBSET Nat /\ top \in Nat BY <1>1
<1>3. m.type = "acknack" /\ m.from = r /\ m.base = next_seq[r] BY Zenon DEF AckNack
<1>4. m \in Message BY Zenon, <1>1, <1>2 DEF AckNack, Message
<1>5. declared(m) = {} BY Zenon, <1>3 DEF declared
<1>6. \A s \in 1..(m.base - 1) : s \in delivered[m.from] \/ s \in Gone
  BY Zenon, <1>3 DEF IInv, PositionsBacked
<1>7. Send({m}) /\ UNCHANGED <<seq, seq_xmit, whc, obsolete, match, pwr>>
  BY Zenon DEF handle_xevk_acknack, writer
<1> HIDE DEF m
<1> QED BY Zenon, <1>1, <1>3, <1>4, <1>5, <1>6, <1>7, SendStep

---------------------------------------------------------------------------
(* Steps of a proxy writer. *)

\* The reorder administration moves on over samples, which it delivers, and
\* over numbers that are gone.
LEMMA ReorderStep ==
  ASSUME IInv, NEW r \in Reader, NEW news \in SUBSET Nat, NEW newgaps \in SUBSET Nat,
         newgaps \subseteq Gone, reorder(r, news, newgaps),
         last_seq' \in [Reader -> Nat], UNCHANGED <<writer, match, msgs>>
  PROVE  IInv'
<1> USE DEF IInv, writer, match
<1> DEFINE S == samples[r] \cup {s \in news : s >= next_seq[r] /\ s \notin gaps[r]}
           G == gaps[r] \cup {s \in newgaps : s >= next_seq[r] /\ s \notin samples[r]}
<1>1. PICK n \in next_seq[r]..MAX_SEQ_NUMBER :
        /\ n \notin S \cup G
        /\ next_seq[r]..(n - 1) \subseteq S \cup G
        /\ next_seq' = [next_seq EXCEPT ![r] = n]
        /\ delivered' = [delivered EXCEPT ![r] = @ \cup {s \in S : s < n}]
        /\ samples' = [samples EXCEPT ![r] = {s \in S : s > n}]
        /\ gaps' = [gaps EXCEPT ![r] = {s \in G : s > n}]
  BY Zenon DEF reorder
<1>2. /\ next_seq[r] \in Nat \ {0} /\ samples[r] \in SUBSET Nat /\ gaps[r] \in SUBSET Nat
      /\ MAX_SEQ_NUMBER \in Nat
  BY Zenon, ProtocolAssumption DEF TypeOK
<1>3. /\ n \in Nat \ {0} /\ n <= MAX_SEQ_NUMBER
      /\ S \in SUBSET Nat /\ G \in SUBSET Nat
  <2>1. n \in next_seq[r]..MAX_SEQ_NUMBER BY Zenon, <1>1
  <2>2. n \in Nat \ {0} /\ n <= MAX_SEQ_NUMBER BY ONLY <2>1, <1>2
  <2>3. S \in SUBSET Nat BY Zenon, <1>2
  <2>4. G \in SUBSET Nat BY Zenon, <1>2
  <2> HIDE DEF S, G
  <2> QED BY Zenon, <2>2, <2>3, <2>4
<1>4. G \subseteq Gone BY Zenon DEF OnlyGoneIsDeclared
<1>5. Gone' = Gone BY Zenon DEF Gone
<1> HIDE DEF S, G
<1>6. TypeOK'
  <2>1. /\ next_seq' \in [Reader -> Nat \ {0}] /\ samples' \in [Reader -> SUBSET Nat]
        /\ gaps' \in [Reader -> SUBSET Nat] /\ delivered' \in [Reader -> SUBSET Nat]
    BY Zenon, <1>1, <1>3 DEF TypeOK
  <2>2. \A q \in Reader : \A s \in samples'[q] \cup gaps'[q] : next_seq'[q] < s
    BY Zenon, <1>1, <1>3 DEF TypeOK
  <2> QED BY Zenon, <2>1, <2>2 DEF TypeOK
<1>7. \A q \in Reader : delivered[q] \subseteq delivered'[q] BY Zenon, <1>1 DEF TypeOK
<1>8. NothingLost' BY Zenon, <1>7 DEF NothingLost, TypeOK
<1>9. AckedIsDelivered' BY Zenon, <1>7 DEF AckedIsDelivered, TypeOK
<1>10. OnlyGoneIsDeclared' BY Zenon, <1>1, <1>4, <1>5 DEF OnlyGoneIsDeclared, declared, TypeOK
<1>11. PositionsBacked'
  <2>1. ASSUME NEW q \in Reader, NEW s \in 1..(next_seq'[q] - 1)
        PROVE  s \in delivered'[q] \/ s \in Gone
    <3>1. CASE q # r BY Zenon, <3>1, <1>1 DEF PositionsBacked, TypeOK
    <3>2. CASE q = r /\ s < next_seq[r] BY <3>2, <1>2, <1>7 DEF PositionsBacked
    <3>3. CASE q = r /\ s >= next_seq[r]
      <4>1. next_seq'[r] = n BY Zenon, <1>1 DEF TypeOK
      <4>2. s \in next_seq[r]..(n - 1) BY <3>3, <4>1, <1>2, <1>3
      <4>3. s \in S \/ s \in G BY Zenon, <4>2, <1>1
      <4>4. s < n BY <4>2, <1>2, <1>3
      <4>5. s \in S => s \in delivered'[r] BY Zenon, <4>4, <1>1 DEF TypeOK
      <4> QED BY Zenon, <3>3, <4>3, <4>5, <1>4
    <3> QED BY <3>1, <3>2, <3>3, <1>2
  <2>2. \A m \in msgs : m.type = "acknack" => m.from \in Reader
    BY Zenon, MessageFields DEF TypeOK
  <2> QED BY Zenon, <2>1, <2>2, <1>5, <1>7 DEF PositionsBacked
<1>12. CacheEndsAtSeq' BY Zenon DEF CacheEndsAtSeq
<1> QED BY Zenon, <1>6, <1>8, <1>9, <1>10, <1>11, <1>12

\* last_seq keeps its type when a message raises it.
LEMMA NoteLastSeq ==
  ASSUME TypeOK, NEW r \in Reader, NEW last \in Nat, note_last_seq(r, last)
  PROVE  last_seq' \in [Reader -> Nat]
BY Zenon DEF TypeOK, note_last_seq

\* handle_regular, handle_Heartbeat and handle_Gap: a message feeds the reorder
\* administration.
LEMMA ReceiveStep ==
  ASSUME IInv, NEW r \in Reader, NEW m \in msgs,
         handle_regular(r, m) \/ handle_Heartbeat(r, m) \/ handle_Gap(r, m)
  PROVE  IInv'
<1>1. m \in Message /\ declared(m) \subseteq Gone /\ TypeOK BY Zenon DEF IInv, TypeOK, OnlyGoneIsDeclared
<1>2. CASE handle_regular(r, m)
  <2>1. m.s \in Nat BY Zenon, <1>1, <1>2, MessageFields DEF handle_regular
  <2>2. last_seq' \in [Reader -> Nat] BY Zenon, <1>1, <1>2, <2>1, NoteLastSeq DEF handle_regular
  <2> QED BY <1>2, <2>1, <2>2, ReorderStep DEF handle_regular
<1>3. CASE handle_Heartbeat(r, m)
  <2>1. m.type = "heartbeat" /\ m.first \in Nat /\ m.last \in Nat
    BY Zenon, <1>1, <1>3, MessageFields DEF handle_Heartbeat
  <2>2. last_seq' \in [Reader -> Nat] BY Zenon, <1>1, <1>3, <2>1, NoteLastSeq DEF handle_Heartbeat
  <2>3. 1..(m.first - 1) \subseteq Gone BY Zenon, <1>1, <2>1 DEF declared
  <2>4. 1..(m.first - 1) \in SUBSET Nat BY <2>1
  <2> QED BY Zenon, <1>3, <2>2, <2>3, <2>4, ReorderStep DEF handle_Heartbeat
<1>4. CASE handle_Gap(r, m)
  <2>1. m.type = "gap" /\ m.nums \in SUBSET Nat BY Zenon, <1>1, <1>4, MessageFields DEF handle_Gap
  <2>2. PICK last \in m.nums \cup {0} : note_last_seq(r, last) BY Zenon, <1>4 DEF handle_Gap
  <2>3. last_seq' \in [Reader -> Nat] BY Zenon, <1>1, <2>1, <2>2, NoteLastSeq
  <2>4. m.nums \subseteq Gone BY Zenon, <1>1, <2>1 DEF declared
  <2> QED BY Zenon, <1>4, <2>1, <2>3, <2>4, ReorderStep DEF handle_Gap
<1> QED BY Zenon, <1>2, <1>3, <1>4

\* new_proxy_writer: what was delivered stays delivered.
LEMMA RediscoverStep ==
  ASSUME IInv, NEW r \in Reader, new_proxy_writer(r)
  PROVE  IInv'
<1> USE DEF IInv, new_proxy_writer, writer, match
<1>1. TypeOK' BY DEF TypeOK
<1>2. Gone' = Gone BY Zenon DEF Gone
<1>3. NothingLost' BY Zenon DEF NothingLost
<1>4. AckedIsDelivered' BY Zenon DEF AckedIsDelivered
<1>5. OnlyGoneIsDeclared' BY Zenon, <1>2 DEF OnlyGoneIsDeclared, declared, TypeOK
<1>6. PositionsBacked' BY <1>2 DEF PositionsBacked, TypeOK
<1>7. CacheEndsAtSeq' BY Zenon DEF CacheEndsAtSeq
<1> QED BY Zenon, <1>1, <1>3, <1>4, <1>5, <1>6, <1>7

---------------------------------------------------------------------------
(* An AckNack at the writer. *)

\* The replies to a request declare only what the cache does not have.
LEMMA ReplyTrue ==
  ASSUME NEW s \in Nat, NEW W \in SUBSET (1..s), NEW xmit \in 0..s, NEW limit \in 0..xmit,
         NEW m \in Message, m.type = "acknack", NEW x \in reply(m, W, limit, xmit)
  PROVE  x \in Message /\ x.type # "acknack" /\ declared(x) \subseteq (1..s) \ W
<1> DEFINE asked == requested(m, W, limit)
           nums == grow_gap_to_next_seq(asked \ W, m.top, W, xmit)
<1>1. m.from \in Reader /\ m.base \in Nat \ {0} /\ m.top \in Nat BY Zenon, MessageFields
<1>2. asked \subseteq 1..s BY <1>1 DEF requested
<1>3. nums \subseteq (1..s) \ W
  <2>1. asked \ W \subseteq (1..s) \ W BY Zenon, <1>2
  <2> DEFINE grown == {t \in (m.top + 1)..xmit : \A n \in {t2 \in W : t2 > m.top} : t < n}
  <2>2. grown \subseteq (1..s) \ W BY <1>1
  <2>3. nums \subseteq (asked \ W) \cup grown
    <3> HIDE DEF asked
    <3> QED BY Zenon DEF grow_gap_to_next_seq
  <2> HIDE DEF asked, nums, grown
  <2> QED BY Zenon, <2>1, <2>2, <2>3
<1>4. (\E t \in asked \cap W : x = Data(t)) \/ x = Gap(m.from, nums)
  <2>1. x \in {Data(t) : t \in asked \cap W}
              \cup (IF asked \subseteq W THEN {} ELSE {Gap(m.from, nums)})
    BY Zenon DEF reply
  <2> HIDE DEF asked, nums
  <2>2. x \in {Data(t) : t \in asked \cap W} \/ x \in {Gap(m.from, nums)} BY <2>1, SMT
  <2> QED BY <2>2, Zenon
<1> HIDE DEF asked, nums
<1>5. CASE \E t \in asked \cap W : x = Data(t)
  <2>1. PICK t \in asked \cap W : x = Data(t) BY Zenon, <1>5
  <2>2. t \in Nat BY <1>2
  <2>3. x \in Message /\ x.type = "data" BY Zenon, <2>1, <2>2 DEF Data, Message
  <2> QED BY Zenon, <2>3 DEF declared
<1>6. CASE x = Gap(m.from, nums)
  <2>1. nums \in SUBSET Nat BY <1>3
  <2>2. x \in Message /\ x.type = "gap" /\ x.nums = nums BY Zenon, <1>1, <1>6, <2>1 DEF Gap, Message
  <2> QED BY Zenon, <2>2, <1>3 DEF declared
<1> QED BY Zenon, <1>4, <1>5, <1>6

\* A forced heartbeat, and the Gap that goes with it when the cache is empty,
\* declare only what the cache does not have.
LEMMA ForcedHeartbeatTrue ==
  ASSUME NEW r \in Reader, NEW s \in Nat \ {0}, NEW W \in SUBSET (1..s), NEW xmit \in 0..s,
         NEW x \in force_heartbeat_to_peer(r, W, s, xmit)
  PROVE  x \in Message /\ x.type # "acknack" /\ declared(x) \subseteq (1..s) \ W
<1>1. CASE W # {}
  <2>1. x \in add_Heartbeat(W, xmit) BY Zenon, <1>1 DEF force_heartbeat_to_peer
  <2>2. s \in Nat /\ xmit \in Nat OBVIOUS
  <2>3. x \in Message /\ x.type = "heartbeat" /\ declared(x) \subseteq (1..s) \ W
    BY Zenon, <2>1, <2>2, HeartbeatTrue
  <2> QED BY Zenon, <2>3
<1>2. CASE W = {}
  <2>1. x = Gap(r, {s}) \/ x = Heartbeat(s, s) BY Zenon, <1>2 DEF force_heartbeat_to_peer
  <2>2. CASE x = Gap(r, {s})
    <3>1. x \in Message /\ x.type = "gap" /\ x.nums = {s} BY Zenon, <2>2 DEF Gap, Message
    <3> QED BY <3>1, <1>2 DEF declared
  <2>3. CASE x = Heartbeat(s, s)
    <3>1. x \in Message /\ x.type = "heartbeat" /\ x.first = s BY Zenon, <2>3 DEF Heartbeat, Message
    <3> QED BY <3>1, <1>2 DEF declared
  <2> QED BY Zenon, <2>1, <2>2, <2>3
<1> QED BY Zenon, <1>1, <1>2

\* The level an AckNack raises a reader to is true, however old the AckNack:
\* what it covers was delivered, or is gone and was nobody's claim.
LEMMA AdvanceTrue ==
  ASSUME IInv, NEW m \in msgs, m.type = "acknack"
  PROVE  /\ advance_acked(m) \in [Reader -> 0..seq]
         /\ \A r \in active : \A s \in (joined[r] + 1)..advance_acked(m)[r] :
              s \in delivered[r] \/ s \in obsolete
<1>1. /\ m.from \in Reader /\ m.base \in Nat \ {0} /\ seq \in Nat
      /\ acked \in [Reader -> 0..seq] /\ joined \in [Reader -> 0..seq]
      /\ active \subseteq Reader
  BY MessageFields DEF IInv, TypeOK
<1>2. advance_acked(m) \in [Reader -> 0..seq] BY <1>1 DEF advance_acked
<1>3. ASSUME NEW r \in active, NEW s \in (joined[r] + 1)..advance_acked(m)[r]
      PROVE  s \in delivered[r] \/ s \in obsolete
  <2>1. CASE advance_acked(m)[r] = acked[r] BY Zenon, <2>1 DEF IInv, AckedIsDelivered
  <2>2. CASE advance_acked(m)[r] # acked[r]
    <3>1. r = m.from BY Zenon, <2>2, <1>1 DEF advance_acked
    <3>2. advance_acked(m)[r] <= m.base - 1 /\ advance_acked(m)[r] <= seq
      BY <2>2, <1>1 DEF advance_acked
    <3>3. joined[r] \in Nat /\ advance_acked(m)[r] \in Nat BY <1>1, <1>2
    <3>4. s \in 1..(m.base - 1) /\ s \in (joined[r] + 1)..seq BY <3>2, <3>3, <1>1
    <3>5. s \in delivered[r] \/ s \in Gone BY Zenon, <3>1, <3>4 DEF IInv, PositionsBacked
    <3>6. s \in whc \/ s \in delivered[r] \/ s \in obsolete BY Zenon, <3>4 DEF IInv, NothingLost
    <3> QED BY Zenon, <3>5, <3>6 DEF Gone
  <2> QED BY Zenon, <2>1, <2>2
<1> QED BY Zenon, <1>2, <1>3

\* The cache after the ack part.
LEMMA AckTrimSafe ==
  ASSUME IInv, NEW m \in msgs, m.type = "acknack"
  PROVE  /\ whc_after_ack(m) \subseteq whc
         /\ \A s \in whc \ whc_after_ack(m) : \A r \in active : s <= advance_acked(m)[r]
         /\ whc_after_ack(m) # {} => seq \in whc_after_ack(m)
         /\ active = {} => whc_after_ack(m) = {}
<1>1. CASE advance_acked(m) = acked BY Zenon, <1>1 DEF whc_after_ack, IInv, CacheEndsAtSeq
<1>2. CASE advance_acked(m) # acked
  <2>1. whc_after_ack(m) = remove_acked_messages(whc, active, advance_acked(m))
    BY Zenon, <1>2 DEF whc_after_ack
  <2>2. advance_acked(m) \in [Reader -> 0..seq] BY Zenon, AdvanceTrue
  <2>3. active \in SUBSET Reader BY Zenon DEF IInv, TypeOK
  <2> QED BY Zenon, <2>1, <2>2, <2>3, TrimSafe
<1> QED BY Zenon, <1>1, <1>2

\* A reader that is responsive again has no claim on anything older than the
\* writer's newest sample.
LEMMA ResponsiveAgain ==
  ASSUME IInv, NEW m \in msgs, m.type = "acknack", m.from \in demoted,
         responsive_again(m, whc_after_ack(m))
  PROVE  /\ whc_after_ack(m) = whc
         /\ active' = active \cup {m.from} /\ demoted' = demoted \ {m.from}
         /\ acked' = [acked EXCEPT ![m.from] = seq]
         /\ joined' = [joined EXCEPT ![m.from] = seq]
<1>1. m.base \in Nat \ {0} /\ seq \in Nat /\ whc \subseteq 1..seq BY MessageFields DEF IInv, TypeOK
<1>2. whc_after_ack(m) = whc BY Zenon DEF whc_after_ack, advance_acked, IInv, TypeOK
<1>3. PICK oldest_seq \in (IF whc = {} THEN {seq} ELSE {s \in whc : \A t \in whc : t <= s}) :
        LET level == IF m.base - 1 < oldest_seq THEN oldest_seq
                     ELSE IF m.base - 1 <= seq THEN m.base - 1 ELSE seq
        IN  /\ active' = active \cup {m.from} /\ demoted' = demoted \ {m.from}
            /\ acked' = [acked EXCEPT ![m.from] = level]
            /\ joined' = [joined EXCEPT ![m.from] = level]
  BY Zenon, <1>2 DEF responsive_again
<1>4. oldest_seq = seq BY <1>1 DEF IInv, CacheEndsAtSeq
<1>5. (IF m.base - 1 < oldest_seq THEN oldest_seq
       ELSE IF m.base - 1 <= seq THEN m.base - 1 ELSE seq) = seq
  BY <1>1, <1>4
<1> QED BY Zenon, <1>2, <1>3, <1>5

\* What the readers' administration is after an AckNack: acknowledgements stay
\* true, and what leaves the cache was acknowledged by all.
LEMMA AckedAfter ==
  ASSUME IInv, NEW m, NEW limit \in 0..seq_xmit, NEW hb \in BOOLEAN, handle_AckNack(m, limit, hb)
  PROVE  /\ active' \subseteq Reader /\ demoted' \subseteq Reader /\ active' \cap demoted' = {}
         /\ acked' \in [Reader -> 0..seq] /\ joined' \in [Reader -> 0..seq]
         /\ active' = {} => whc' = {}
         /\ \A r \in active' : \A s \in (joined'[r] + 1)..acked'[r] :
              s \in delivered[r] \/ s \in obsolete
         /\ \A r \in active' : \A s \in (joined'[r] + 1)..seq :
              s \in whc' \/ s \in delivered[r] \/ s \in obsolete
<1>0. /\ m \in msgs /\ m.type = "acknack" /\ m.from \in Reader /\ whc' = whc_after_ack(m)
      /\ seq \in Nat /\ acked \in [Reader -> 0..seq] /\ joined \in [Reader -> 0..seq]
      /\ active \subseteq Reader /\ demoted \subseteq Reader /\ active \cap demoted = {}
  BY MessageFields DEF handle_AckNack, IInv, TypeOK
<1>1. CASE m.from \in demoted
  <2>1. /\ whc' = whc
        /\ active' = active \cup {m.from} /\ demoted' = demoted \ {m.from}
        /\ acked' = [acked EXCEPT ![m.from] = seq]
        /\ joined' = [joined EXCEPT ![m.from] = seq]
    BY Zenon, <1>0, <1>1, ResponsiveAgain DEF handle_AckNack
  <2>2. /\ acked' \in [Reader -> 0..seq] /\ joined' \in [Reader -> 0..seq]
        /\ acked'[m.from] = seq /\ joined'[m.from] = seq
        /\ \A r \in active : acked'[r] = acked[r] /\ joined'[r] = joined[r]
    BY <1>0, <1>1, <2>1
  <2>3. \A s \in (seq + 1)..seq : FALSE BY <1>0
  <2> QED BY <1>0, <2>1, <2>2, <2>3 DEF IInv, NothingLost, AckedIsDelivered
<1>2. CASE m.from \notin demoted
  <2>1. acked' = advance_acked(m) /\ UNCHANGED <<active, demoted, joined>>
    BY Zenon, <1>2 DEF handle_AckNack
  <2>2. /\ acked' \in [Reader -> 0..seq]
        /\ \A r \in active : \A s \in (joined[r] + 1)..acked'[r] :
             s \in delivered[r] \/ s \in obsolete
    BY Zenon, <1>0, <2>1, AdvanceTrue
  <2>3. /\ \A s \in whc \ whc' : \A r \in active : s <= acked'[r]
        /\ active = {} => whc' = {}
    BY Zenon, <1>0, <2>1, AckTrimSafe
  <2>4. ASSUME NEW r \in active, NEW s \in (joined[r] + 1)..seq
        PROVE  s \in whc' \/ s \in delivered[r] \/ s \in obsolete
    <3>1. s \in whc \/ s \in delivered[r] \/ s \in obsolete BY Zenon DEF IInv, NothingLost
    <3>2. ASSUME s \in whc \ whc' PROVE s \in (joined[r] + 1)..acked'[r]
      <4>1. s <= acked'[r] BY Zenon, <3>2, <2>3
      <4>2. joined[r] \in Nat /\ acked'[r] \in Nat BY <1>0, <2>2
      <4> QED BY <4>1, <4>2, <1>0
    <3> QED BY Zenon, <3>1, <3>2, <2>2
  <2> QED BY Zenon, <1>0, <2>1, <2>2, <2>3, <2>4
<1> QED BY Zenon, <1>1, <1>2

\* handle_AckNack as a whole.
LEMMA AckNackStep ==
  ASSUME IInv, NEW m, NEW limit \in 0..seq_xmit, NEW hb \in BOOLEAN, handle_AckNack(m, limit, hb)
  PROVE  IInv'
<1> DEFINE W == whc_after_ack(m)
           consume == hb /\ W = {} /\ seq = 0
           replies == reply(m, W, limit, seq_xmit)
           beats == IF hb THEN force_heartbeat_to_peer(m.from, W, seq', seq_xmit') ELSE {}
<1>1. /\ m \in msgs /\ m.type = "acknack" /\ m \in Message /\ m.from \in Reader
      /\ seq \in Nat /\ seq_xmit \in 0..seq /\ MAX_SEQ_NUMBER \in Nat
      /\ seq <= MAX_SEQ_NUMBER - 1
      /\ whc \subseteq 1..seq /\ obsolete \subseteq 1..seq
  BY MessageFields, ProtocolAssumption DEF handle_AckNack, IInv, TypeOK
<1>2. /\ whc' = W /\ UNCHANGED pwr /\ Send(replies \cup beats)
      /\ seq' = IF consume THEN 1 ELSE seq
      /\ seq_xmit' = IF consume THEN 1 ELSE seq_xmit
      /\ obsolete' = IF consume THEN obsolete \cup {1} ELSE obsolete
  BY Zenon DEF handle_AckNack
<1>3. W \subseteq whc /\ (W # {} => seq \in W) BY Zenon, <1>1, AckTrimSafe
<1> HIDE DEF W, replies, beats
<1>4. /\ seq' \in Nat /\ seq <= seq' /\ seq_xmit' \in 0..seq'
      /\ obsolete \subseteq obsolete' /\ obsolete' \subseteq 1..seq' /\ W \subseteq 1..seq
      /\ \A s \in (seq + 1)..seq' : s \in obsolete'
      /\ W # {} => seq' = seq
  BY <1>1, <1>2, <1>3
<1>5. Gone \subseteq Gone' /\ Gone' = (1..seq') \ W /\ (1..seq) \ W \subseteq (1..seq') \ W
  BY <1>1, <1>2, <1>3, <1>4 DEF Gone
<1>6. \A x \in replies : x \in Message /\ x.type # "acknack" /\ declared(x) \subseteq Gone'
  <2>1. W \in SUBSET (1..seq) BY Zenon, <1>4
  <2>2. \A x \in replies : /\ x \in Message /\ x.type # "acknack"
                           /\ declared(x) \subseteq (1..seq) \ W
    BY Zenon, <1>1, <2>1, ReplyTrue DEF replies
  <2> QED BY Zenon, <2>2, <1>5
<1>7. \A x \in beats : x \in Message /\ x.type # "acknack" /\ declared(x) \subseteq Gone'
  <2>1. CASE ~hb BY Zenon, <2>1 DEF beats
  <2>2. CASE hb
    <3>1. seq' # 0 BY <1>1, <1>2, <1>4, <2>2
    <3>2. W \in SUBSET (1..seq') /\ seq' \in Nat \ {0} BY Zenon, <3>1, <1>1, <1>4
    <3>3. beats = force_heartbeat_to_peer(m.from, W, seq', seq_xmit') BY Zenon, <2>2 DEF beats
    <3> QED BY <3>2, <3>3, <1>1, <1>4, <1>5, ForcedHeartbeatTrue
  <2> QED BY Zenon, <2>1, <2>2
<1>8. /\ msgs' \subseteq msgs \cup (replies \cup beats) BY Zenon, <1>2, SendAdds
<1>9. msgs' \subseteq Message /\ \A x \in msgs' : declared(x) \subseteq Gone'
  <2>1. msgs \subseteq Message /\ \A x \in msgs : declared(x) \subseteq Gone
    BY Zenon DEF IInv, TypeOK, OnlyGoneIsDeclared
  <2>2. replies \cup beats \subseteq Message BY Zenon, <1>6, <1>7
  <2>3. \A x \in replies \cup beats : declared(x) \subseteq Gone' BY Zenon, <1>6, <1>7
  <2> QED BY Zenon, <2>1, <2>2, <2>3, <1>5, <1>8, NetworkTrue
<1>10. /\ active' \subseteq Reader /\ demoted' \subseteq Reader /\ active' \cap demoted' = {}
       /\ acked' \in [Reader -> 0..seq] /\ joined' \in [Reader -> 0..seq]
       /\ active' = {} => whc' = {}
       /\ \A r \in active' : \A s \in (joined'[r] + 1)..acked'[r] :
            s \in delivered[r] \/ s \in obsolete
       /\ \A r \in active' : \A s \in (joined'[r] + 1)..seq :
            s \in whc' \/ s \in delivered[r] \/ s \in obsolete
  BY Zenon, AckedAfter
<1>11. TypeOK'
  <2>1. seq' \in 0..(MAX_SEQ_NUMBER - 1)
    <3>1. 1 <= MAX_SEQ_NUMBER - 1 BY ProtocolAssumption
    <3> QED BY <3>1, <1>1, <1>2
  <2> QED BY <2>1, <1>2, <1>4, <1>9, <1>10 DEF TypeOK, IInv, pwr
<1>12. NothingLost'
  <2> SUFFICES ASSUME NEW r \in active', NEW s \in (joined'[r] + 1)..seq'
               PROVE  s \in whc' \/ s \in delivered[r] \/ s \in obsolete'
    BY Zenon, <1>2 DEF NothingLost, pwr
  <2>1. joined'[r] \in Nat BY <1>10
  <2>2. s \in (joined'[r] + 1)..seq \/ s \in (seq + 1)..seq' BY <2>1, <1>1, <1>4
  <2> QED BY Zenon, <2>2, <1>4, <1>10
<1>13. AckedIsDelivered' BY Zenon, <1>2, <1>4, <1>10 DEF AckedIsDelivered, pwr
<1>14. OnlyGoneIsDeclared'
  <2>1. \A r \in Reader : gaps'[r] \subseteq Gone'
    BY Zenon, <1>2, <1>5 DEF IInv, OnlyGoneIsDeclared, pwr
  <2>2. \A x \in msgs' : declared(x)' \subseteq Gone' BY Zenon, <1>9 DEF declared
  <2> QED BY Zenon, <2>1, <2>2 DEF OnlyGoneIsDeclared
<1>15. PositionsBacked'
  BY Zenon, <1>2, <1>5, <1>6, <1>7, <1>8 DEF IInv, PositionsBacked, pwr
<1>16. CacheEndsAtSeq' BY Zenon, <1>2, <1>3, <1>4, <1>10 DEF CacheEndsAtSeq
<1> QED BY Zenon, <1>11, <1>12, <1>13, <1>14, <1>15, <1>16 DEF IInv

---------------------------------------------------------------------------
\* Every step keeps the inductive invariant.
LEMMA NextInductive == IInv /\ [Next]_vars => IInv'
<1> SUFFICES ASSUME IInv, [Next]_vars PROVE IInv' BY Zenon
<1>1. ASSUME NEW overwritten \in SUBSET whc, write_sample(overwritten) PROVE IInv'
  BY Zenon, <1>1, WriteStep
<1>2. CASE transmit_sample BY Zenon, <1>2, TransmitStep
<1>3. CASE handle_xevk_heartbeat BY Zenon, <1>3, HeartbeatStep
<1>4. CASE throttle_writer_timeout BY Zenon, <1>4, ThrottleStep
<1>5. ASSUME NEW m \in msgs, NEW limit \in 0..seq_xmit, NEW hb \in BOOLEAN,
             handle_AckNack(m, limit, hb)
      PROVE  IInv'
  BY Zenon, <1>5, AckNackStep
<1>6. ASSUME NEW r \in Reader, writer_add_connection(r) PROVE IInv' BY Zenon, <1>6, AddStep
<1>7. ASSUME NEW r \in Reader, writer_drop_connection(r) PROVE IInv' BY Zenon, <1>7, DropStep
<1>8. ASSUME NEW r \in Reader, proxy_reader_set_delete_and_ack_all_messages(r) PROVE IInv'
  BY Zenon, <1>8, DeleteStep
<1>9. ASSUME NEW r \in Reader, handle_xevk_acknack(r) PROVE IInv' BY Zenon, <1>9, AckNackSendStep
<1>10. ASSUME NEW r \in Reader, new_proxy_writer(r) PROVE IInv' BY Zenon, <1>10, RediscoverStep
<1>11. ASSUME NEW r \in Reader, NEW m \in msgs,
              handle_regular(r, m) \/ handle_Heartbeat(r, m) \/ handle_Gap(r, m)
       PROVE  IInv'
  BY Zenon, <1>11, ReceiveStep
<1>12. CASE UNCHANGED vars
  <2> USE <1>12 DEF IInv, vars
  <2>1. TypeOK' BY Zenon DEF TypeOK
  <2>2. NothingLost' BY Zenon DEF NothingLost
  <2>3. AckedIsDelivered' BY Zenon DEF AckedIsDelivered
  <2>4. OnlyGoneIsDeclared' BY Zenon DEF OnlyGoneIsDeclared, declared, Gone
  <2>5. PositionsBacked' BY Zenon DEF PositionsBacked, Gone
  <2>6. CacheEndsAtSeq' BY Zenon DEF CacheEndsAtSeq
  <2> QED BY Zenon, <2>1, <2>2, <2>3, <2>4, <2>5, <2>6
<1> QED
  BY Zenon, <1>1, <1>2, <1>3, <1>4, <1>5, <1>6, <1>7, <1>8, <1>9, <1>10, <1>11, <1>12 DEF Next

---------------------------------------------------------------------------
\* The inductive invariant holds throughout.
THEOREM Inductive == Spec => []IInv
BY InitInductive, NextInductive, PTL DEF Spec

\* The types, that a reader is matched once, and that a proxy writer holds back
\* only what lies beyond next_seq.
THEOREM TypeCorrect == Spec => []TypeOK
BY Inductive, PTL DEF IInv

\* The writer drops no sample that a matched, responsive reader still has a
\* claim on, whatever AckNacks are lost, repeated or late.
THEOREM NothingIsLost == Spec => []NothingLost
BY Inductive, PTL DEF IInv

\* The acknowledgements remove_acked_messages acts upon are true.
THEOREM AcksAreTrue == Spec => []AckedIsDelivered
BY Inductive, PTL DEF IInv

\* No Gap and no Heartbeat, however late, and no gap a proxy writer holds
\* covers a sample that the writer still has.
THEOREM DeclarationsAreTrue == Spec => []OnlyGoneIsDeclared
BY Inductive, PTL DEF IInv

\* What a proxy writer has moved past, and what it says so of in AckNacks on
\* their way, was delivered or is gone.
THEOREM PositionsAreBacked == Spec => []PositionsBacked
BY Inductive, PTL DEF IInv

\* The cache of a volatile writer is empty or ends at the newest sample.
THEOREM CacheEnds == Spec => []CacheEndsAtSeq
BY Inductive, PTL DEF IInv

\* A proxy writer passes a number only if it was delivered or is gone, and what
\* is gone was delivered to those who had a claim on it.
LEMMA DeliveryFromInvariant == IInv => ReliableDelivery
<1> SUFFICES ASSUME IInv, NEW r \in active, NEW s \in (joined[r] + 1)..(next_seq[r] - 1)
             PROVE  s \in delivered[r] \/ s \in obsolete
  BY Zenon DEF ReliableDelivery
<1>1. r \in Reader /\ joined[r] \in Nat /\ next_seq[r] \in Nat /\ seq \in Nat BY DEF IInv, TypeOK
<1>2. s \in 1..(next_seq[r] - 1) BY <1>1
<1>3. s \in delivered[r] \/ s \in Gone BY Zenon, <1>1, <1>2 DEF IInv, PositionsBacked
<1>4. ASSUME s \in Gone PROVE s \in delivered[r] \/ s \in obsolete
  <2>1. s \in (joined[r] + 1)..seq /\ s \notin whc BY <1>1, <1>4 DEF Gone
  <2> QED BY Zenon, <2>1 DEF IInv, NothingLost
<1> QED BY Zenon, <1>3, <1>4

\* Reliability as the application sees it.  A reader that has moved past a
\* sample it had a claim on was given that sample, under loss, duplication,
\* reordering, deletion and rediscovery.
THEOREM Reliable == Spec => []ReliableDelivery
BY Inductive, DeliveryFromInvariant, PTL

=============================================================================
