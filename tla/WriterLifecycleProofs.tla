----------------------- MODULE WriterLifecycleProofs -----------------------
(***************************************************************************)
(* The safety properties of WriterLifecycle for any set of receive         *)
(* threads, any range of virtual times, any water marks and any bounds.    *)
(*                                                                         *)
(* FreedUnused is not inductive: that nobody uses a writer when it is      *)
(* freed rests on the snapshot of virtual times in the request.  The       *)
(* invariant says of every thread with a pointer to a writer being deleted *)
(* that the request waits for exactly the virtual time the thread has now, *)
(* but for the write that has slept in throttle_writer; nobody can get a   *)
(* pointer any more, and as long as a thread has one its virtual time      *)
(* stands still.                                                           *)
(***************************************************************************)
EXTENDS WriterLifecycle, TLAPS

\* Who can be where, and what is known of a write that is blocked.
Places ==
  /\ \A t \in Thread : pc[t] \in {"send", "waiting", "transmit"} => t = W
  /\ \A t \in Thread : pc[t] = "schedule" => t = D
  /\ pc[W] = "waiting" => slept
  /\ pc[W] \in {"locking", "send"} => ~slept

\* The state of the writer, the tables and those who change them.
Phases ==
  /\ gid_hash \/ pc[D] = "locking" => state = "OPERATIONAL"
  /\ pc[D] = "locking" => ~gid_hash
  /\ timer \/ pc[D] = "schedule" \/ pc[T] \in {"lookup", "locking"} => state # "OPERATIONAL"
  /\ state = "DELETING" <=> ~guid_hash

\* There is a request only for a writer that is being deleted, and the
\* collector is in its callback only when it waits for nobody.
Requests ==
  /\ gcreq # NoReq \/ freed => state = "DELETING"
  /\ gcreq.cb = "none" => gcreq = NoReq
  /\ gpc # "check" => gcreq # NoReq /\ gcreq.vtimes = {}
  /\ freed => gcreq = NoReq
  /\ failed # {} => ~freed

\* The collector waits for every thread that has a pointer, or, having no more
\* to wait for, is not about to free the writer of a blocked write.
WaitedFor ==
  failed = {} /\ (gcreq # NoReq \/ freed) =>
    /\ \A t \in Thread : Holds(t) => <<t, vtime[t]>> \in gcreq.vtimes \/ (t = W /\ slept)
    /\ freed \/ gcreq.cb = "gc_delete_writer" => pc[W] # "waiting"

LInv == TypeOK /\ Places /\ Phases /\ Requests /\ WaitedFor /\ AssertsHold

---------------------------------------------------------------------------
(* Virtual time. *)

\* Waking up gives an even virtual time and going to sleep an odd one, also
\* where it wraps.
LEMMA VtimeParity ==
  ASSUME NEW v \in 0..(VtimeRange - 1)
  PROVE  /\ thread_state_awake(v) \in 0..(VtimeRange - 1)
         /\ vtime_awake_p(thread_state_awake(v))
         /\ thread_state_asleep(v) \in 0..(VtimeRange - 1)
         /\ ~vtime_awake_p(thread_state_asleep(v))
BY VtimeAssumption DEF thread_state_awake, thread_state_asleep, vtime_awake_p, Plus

\* A thread whose virtual time stands still has not made progress.
LEMMA NotAfterItself ==
  ASSUME NEW v \in 0..(VtimeRange - 1)
  PROVE  ~vtime_gt(v, v)
BY VtimeAssumption DEF vtime_gt, Minus

---------------------------------------------------------------------------
(* The start of the deletion. *)

\* The request waits for every thread that is awake, and for the blocked write
\* if there is one.
LEMMA DeletionStarts ==
  ASSUME TypeOK, NEW who, delete_writer_nolinger_locked(who)
  PROVE  /\ guid_hash' = FALSE /\ state' = "DELETING"
         /\ gcreq' \in [cb : {"gc_delete_writer", "gc_delete_writer_throttlewait"},
                        vtimes : SUBSET (Thread \X (0..(VtimeRange - 1)))]
         /\ \A t \in Thread : vtime_awake_p(vtime[t]) => <<t, vtime[t]>> \in gcreq'.vtimes
         /\ throttling => gcreq'.cb = "gc_delete_writer_throttlewait"
         /\ failed' = IF state = "DELETING" THEN failed \cup {who} ELSE failed
<1>1. threads_vtime_gather_for_wait \in SUBSET (Thread \X (0..(VtimeRange - 1)))
  BY DEF threads_vtime_gather_for_wait, TypeOK
<1>2. \A t \in Thread : vtime_awake_p(vtime[t]) => <<t, vtime[t]>> \in threads_vtime_gather_for_wait
  BY Zenon DEF threads_vtime_gather_for_wait
<1>3. failed' = IF state = "DELETING" THEN failed \cup {who} ELSE failed
  BY DEF delete_writer_nolinger_locked, writer_set_state, Rank, TypeOK
<1> QED BY Zenon, <1>1, <1>2, <1>3
        DEF delete_writer_nolinger_locked, writer_set_state, gcreq_writer, gcreq_new

\* A deletion that starts, in a thread that then is done, preserves the
\* invariant: who has a pointer is awake, but for a write that sleeps.
LEMMA Deleted ==
  ASSUME LInv, NEW t \in Thread, NEW who, delete_writer_nolinger_locked(who),
         failed = {}, pc[t] = "locking", state # "DELETING",
         pc' = [pc EXCEPT ![t] = "done"], gpc' = gpc,
         unacked' \in Nat, retransmitting' \in BOOLEAN,
         UNCHANGED <<vtime, todo, slept, gid_hash, throttling, freed, timer>>,
         gid_hash \/ pc[D] = "locking" => t = D /\ ~gid_hash
  PROVE  LInv'
<1> USE ThreadAssumption DEF LInv, NoReq
<1>0. /\ guid_hash' = FALSE /\ state' = "DELETING" /\ failed' = {}
      /\ gcreq' \in [cb : {"gc_delete_writer", "gc_delete_writer_throttlewait"},
                     vtimes : SUBSET (Thread \X (0..(VtimeRange - 1)))]
      /\ \A u \in Thread : vtime_awake_p(vtime[u]) => <<u, vtime[u]>> \in gcreq'.vtimes
      /\ throttling => gcreq'.cb = "gc_delete_writer_throttlewait"
  BY Zenon, DeletionStarts
<1>a. ~freed /\ gpc = "check" BY Zenon DEF Requests, TypeOK
<1>b. W \in Thread /\ D \in Thread /\ T \in Thread BY Zenon DEF Thread
<1>1. TypeOK' BY Zenon, <1>0, <1>b DEF TypeOK
<1>2. Places' BY Zenon, <1>b DEF TypeOK, Places
<1>3. Phases' BY Zenon, <1>0, <1>b DEF TypeOK, Phases
<1>4. Requests' BY Zenon, <1>0, <1>a DEF Requests
<1>5. WaitedFor' BY Zenon, <1>0, <1>a, <1>b DEF TypeOK, Places, WaitedFor, Holds
<1>6. AssertsHold' BY Zenon, <1>0 DEF AssertsHold
<1> QED BY Zenon, <1>1, <1>2, <1>3, <1>4, <1>5, <1>6

\* Acknowledgements that do not start the deletion preserve the invariant.
LEMMA Acknowledged ==
  ASSUME LInv, NEW t \in Receiver, pc[t] = "locking", pc' = [pc EXCEPT ![t] = "done"],
         gpc' \in {gpc, "callback"}, gpc = "check" => gpc' = "check",
         unacked' \in Nat, retransmitting' \in BOOLEAN,
         UNCHANGED <<vtime, todo, slept, guid_hash, gid_hash, state, throttling, freed, timer, gcreq, failed>>
  PROVE  LInv'
<1> USE ThreadAssumption DEF LInv, NoReq
<1>a. t \in Thread /\ W \in Thread /\ D \in Thread /\ T \in Thread /\ t # W /\ t # D /\ t # T
  BY Zenon DEF Thread
<1>1. TypeOK' BY <1>a DEF TypeOK
<1>2. Places' BY Zenon, <1>a DEF TypeOK, Places
<1>3. Phases' BY Zenon, <1>a DEF TypeOK, Phases
<1>4. Requests' BY Zenon DEF TypeOK, Requests
<1>5. WaitedFor' BY Zenon, <1>a DEF TypeOK, WaitedFor, Holds
<1>6. AssertsHold' BY Zenon DEF AssertsHold
<1> QED BY Zenon, <1>1, <1>2, <1>3, <1>4, <1>5, <1>6

---------------------------------------------------------------------------
(* Every action preserves the invariant. *)

\* The tables lose the writer by its gid; only the deleting thread goes on.
LEMMA Step_delete_writer_gid ==
  ASSUME LInv, delete_writer_gid
  PROVE  LInv'
<1> USE ThreadAssumption DEF LInv, At, Goto, Thread, wvars, tvars, NoReq
<1>1. TypeOK'
  <2>1. D \in Thread /\ W # D /\ pc[D] = "lookup" BY Zenon DEF delete_writer_gid
  <2>2. PICK v \in {"locking", "done"} : pc' = [pc EXCEPT ![D] = v] BY Zenon DEF delete_writer_gid
  <2>3. gid_hash' \in BOOLEAN /\ UNCHANGED <<vtime, todo, slept, guid_hash, state, throttling, unacked,
                                            retransmitting, freed, timer, gcreq, gpc>>
    BY Zenon DEF delete_writer_gid
  <2>4. pc' \in [Thread -> {"asleep", "lookup", "locking", "send", "waiting", "transmit", "schedule", "done"}]
        /\ \A t \in Thread : pc'[t] = IF t = D THEN v ELSE pc[t]
    BY Zenon, <2>1, <2>2 DEF TypeOK
  <2>5. \A t \in Thread : vtime_awake_p(vtime'[t]) <=> pc'[t] \notin {"asleep", "waiting"}
    BY Zenon, <2>1, <2>2, <2>3, <2>4 DEF TypeOK
  <2>6. pc'[W] = pc[W] BY Zenon, <2>1, <2>4
  <2> QED BY ONLY LInv, <2>3, <2>4, <2>5, <2>6 DEF LInv, TypeOK
<1>2. Places' BY DEF Places, delete_writer_gid
<1>3. Phases' BY DEF Phases, delete_writer_gid
<1>4. Requests' BY Zenon DEF Requests, delete_writer_gid
<1>5. WaitedFor' BY DEF Phases, Requests, WaitedFor, Holds, delete_writer_gid
<1>6. AssertsHold' BY Zenon DEF AssertsHold, delete_writer_gid
<1> QED BY Zenon, <1>1, <1>2, <1>3, <1>4, <1>5, <1>6

\* delete_writer starts the deletion or the linger time.
LEMMA Step_delete_writer ==
  ASSUME LInv, delete_writer
  PROVE  LInv'
<1> USE ThreadAssumption DEF LInv, At, Goto, Thread, wvars, tvars, NoReq
<1>1. CASE unacked = 0
  <2>1. /\ delete_writer_nolinger_locked("delete_writer") /\ pc' = [pc EXCEPT ![D] = "done"]
        /\ UNCHANGED <<vtime, todo, slept, gid_hash, throttling, unacked, retransmitting, freed, timer>>
        /\ failed = {} /\ pc[D] = "locking"
    BY Zenon, <1>1 DEF delete_writer
  <2>2. /\ state = "OPERATIONAL" /\ ~gid_hash /\ gpc' = gpc
        /\ D \in Thread /\ unacked' \in Nat /\ retransmitting' \in BOOLEAN
    BY Zenon, <1>1, <2>1 DEF delete_writer, Wake, Phases, Requests, TypeOK
  <2> HIDE DEF LInv
  <2> QED BY Zenon, <2>1, <2>2, Deleted
<1>2. CASE unacked # 0
  <2>1. /\ state' = "LINGERING" /\ pc' = [pc EXCEPT ![D] = "schedule"]
        /\ UNCHANGED <<vtime, todo, slept, guid_hash, gid_hash, throttling, unacked, retransmitting,
                       freed, timer, gcreq>>
        /\ gpc' = gpc /\ failed = {} /\ failed' = {} /\ pc[D] = "locking" /\ state = "OPERATIONAL"
    BY <1>2 DEF delete_writer, Wake, writer_set_state, Rank, Phases, Requests, TypeOK
  <2>2. gcreq = NoReq /\ ~freed BY Zenon, <2>1 DEF Requests
  <2>3. TypeOK' BY <2>1 DEF TypeOK
  <2>4. Places' BY Zenon, <2>1 DEF TypeOK, Places
  <2>5. Phases' BY Zenon, <2>1, <2>2 DEF TypeOK, Places, Phases, Requests
  <2>6. Requests' /\ WaitedFor' /\ AssertsHold'
    BY Zenon, <2>1, <2>2 DEF TypeOK, Requests, WaitedFor, AssertsHold
  <2> QED BY Zenon, <2>3, <2>4, <2>5, <2>6
<1> QED BY Zenon, <1>1, <1>2

\* The end of the linger time is scheduled only for a lingering writer.
LEMMA Step_qxev_delete_writer ==
  ASSUME LInv, qxev_delete_writer
  PROVE  LInv'
<1> USE ThreadAssumption DEF LInv, At, Goto, Thread, wvars, tvars, NoReq
<1>1. TypeOK' BY DEF TypeOK, qxev_delete_writer
<1>2. Places' BY DEF Places, qxev_delete_writer
<1>3. Phases' BY DEF Phases, qxev_delete_writer
<1>4. Requests' BY Zenon DEF Requests, qxev_delete_writer
<1>5. WaitedFor' BY DEF WaitedFor, Holds, qxev_delete_writer
<1>6. AssertsHold' BY Zenon DEF AssertsHold, qxev_delete_writer
<1> QED BY Zenon, <1>1, <1>2, <1>3, <1>4, <1>5, <1>6

\* A thread that finds the writer by its guid finds one that is not being
\* deleted.
LEMMA Step_LookupGuid ==
  ASSUME LInv, NEW t \in Thread, LookupGuid(t)
  PROVE  LInv'
<1> USE ThreadAssumption DEF LInv, At, Goto, Thread, wvars, tvars, NoReq
<1>1. TypeOK' BY DEF TypeOK, LookupGuid
<1>2. Places' BY DEF Places, LookupGuid
<1>3. Phases' BY DEF Phases, LookupGuid
<1>4. Requests' BY Zenon DEF Requests, LookupGuid
<1>5. WaitedFor' BY DEF Phases, Requests, WaitedFor, Holds, LookupGuid
<1>6. AssertsHold' BY Zenon DEF AssertsHold, LookupGuid
<1> QED BY Zenon, <1>1, <1>2, <1>3, <1>4, <1>5, <1>6

\* At the end of the linger time the deletion starts, or an assertion fails
\* because it had started already.
LEMMA Step_delete_writer_nolinger ==
  ASSUME LInv, delete_writer_nolinger
  PROVE  LInv'
<1> USE ThreadAssumption DEF LInv, NoReq
<1>1. /\ delete_writer_nolinger_locked("linger time-out") /\ pc' = [pc EXCEPT ![T] = "done"]
      /\ UNCHANGED <<vtime, todo, slept, gid_hash, throttling, unacked, retransmitting, freed, timer>>
      /\ failed = {} /\ pc[T] = "locking" /\ T \in Thread /\ D \in Thread /\ W \in Thread
  BY Zenon DEF delete_writer_nolinger, At, Goto, Thread
<1>2. state # "OPERATIONAL" /\ ~gid_hash /\ pc[D] # "locking" /\ gpc' = gpc
  BY Zenon, <1>1 DEF delete_writer_nolinger, Wake, Phases
<1>3. CASE state # "DELETING"
  <2>1. unacked' \in Nat /\ retransmitting' \in BOOLEAN BY Zenon, <1>1 DEF TypeOK
  <2> QED BY Zenon, <1>1, <1>2, <1>3, <2>1, Deleted
<1>4. CASE state = "DELETING"
  <2>0. gcreq.vtimes # {} \/ ~(gcreq # NoReq \/ freed)
    BY Zenon, <1>1 DEF WaitedFor, Holds
  <2>1. ~freed /\ gpc = "check" BY <2>0 DEF Requests
  <2>2. /\ guid_hash' = FALSE /\ state' = "DELETING" /\ failed' = {"linger time-out"}
        /\ gcreq' \in [cb : {"gc_delete_writer", "gc_delete_writer_throttlewait"},
                       vtimes : SUBSET (Thread \X (0..(VtimeRange - 1)))]
    BY Zenon, <1>1, <1>4, DeletionStarts
  <2>3. TypeOK' BY <1>1, <1>2, <2>2 DEF TypeOK
  <2>4. Places' BY Zenon, <1>1 DEF TypeOK, Places
  <2>5. Phases' BY Zenon, <1>1, <1>2, <2>2 DEF TypeOK, Phases
  <2>6. Requests' BY Zenon, <1>1, <1>2, <2>1, <2>2 DEF Requests
  <2>7. WaitedFor' /\ AssertsHold' BY Zenon, <2>2 DEF WaitedFor, AssertsHold
  <2> QED BY Zenon, <2>3, <2>4, <2>5, <2>6, <2>7
<1> QED BY Zenon, <1>3, <1>4

\* An AckNack may start the deletion of a lingering writer.
LEMMA Step_handle_AckNack ==
  ASSUME LInv, NEW t \in Receiver, NEW n \in Nat, NEW nack \in BOOLEAN, handle_AckNack(t, n, nack)
  PROVE  LInv'
<1> USE ThreadAssumption DEF LInv
<1>1. /\ pc' = [pc EXCEPT ![t] = "done"] /\ failed = {} /\ pc[t] = "locking"
      /\ UNCHANGED <<vtime, todo, slept, gid_hash, throttling, freed, timer>>
      /\ t \in Thread /\ t # D
  BY Zenon DEF handle_AckNack, At, Goto, Thread
<1>2. unacked' \in Nat /\ retransmitting' \in BOOLEAN
  BY Zenon DEF handle_AckNack, remove_acked_messages, TypeOK
<1>3. gpc' \in {gpc, "callback"} /\ (gpc = "check" => gpc' = "check")
  BY Zenon DEF handle_AckNack, remove_acked_messages, Wake, TypeOK
<1>4. CASE n < unacked /\ state = "LINGERING" /\ n = 0
  <2>1. delete_writer_nolinger_locked("remove_acked_messages")
    BY Zenon, <1>4 DEF handle_AckNack, remove_acked_messages
  <2>2. ~gid_hash /\ pc[D] # "locking" /\ gpc = "check"
    BY Zenon, <1>4 DEF Phases, Requests, TypeOK
  <2> QED BY Zenon, <1>1, <1>2, <1>3, <1>4, <2>1, <2>2, Deleted
<1>5. CASE ~(n < unacked /\ state = "LINGERING" /\ n = 0)
  <2>1. UNCHANGED <<guid_hash, state, gcreq, failed>>
    BY Zenon, <1>5 DEF handle_AckNack, remove_acked_messages
  <2> QED BY Zenon, <1>1, <1>2, <1>3, <2>1, Acknowledged
<1> QED BY Zenon, <1>4, <1>5

\* So may the deletion of a proxy reader.
LEMMA Step_proxy_reader ==
  ASSUME LInv, NEW t \in Receiver, NEW n \in Nat, proxy_reader_set_delete_and_ack_all_messages(t, n)
  PROVE  LInv'
<1> USE ThreadAssumption DEF LInv
<1>1. /\ pc' = [pc EXCEPT ![t] = "done"] /\ failed = {} /\ pc[t] = "locking"
      /\ UNCHANGED <<vtime, todo, slept, gid_hash, throttling, freed, timer>>
      /\ t \in Thread /\ t # D
  BY Zenon DEF proxy_reader_set_delete_and_ack_all_messages, At, Goto, Thread
<1>2. unacked' \in Nat /\ retransmitting' \in BOOLEAN
  BY Zenon DEF proxy_reader_set_delete_and_ack_all_messages, remove_acked_messages, TypeOK
<1>3. gpc' \in {gpc, "callback"} /\ (gpc = "check" => gpc' = "check")
  BY Zenon DEF proxy_reader_set_delete_and_ack_all_messages, remove_acked_messages, Wake, TypeOK
<1>4. CASE state = "LINGERING" /\ n = 0
  <2>1. delete_writer_nolinger_locked("remove_acked_messages")
    BY Zenon, <1>4 DEF proxy_reader_set_delete_and_ack_all_messages, remove_acked_messages
  <2>2. ~gid_hash /\ pc[D] # "locking" /\ gpc = "check"
    BY Zenon, <1>4 DEF Phases, Requests, TypeOK
  <2> QED BY Zenon, <1>1, <1>2, <1>3, <1>4, <2>1, <2>2, Deleted
<1>5. CASE ~(state = "LINGERING" /\ n = 0)
  <2>1. UNCHANGED <<guid_hash, state, gcreq, failed>>
    BY Zenon, <1>5 DEF proxy_reader_set_delete_and_ack_all_messages, remove_acked_messages
  <2> QED BY Zenon, <1>1, <1>2, <1>3, <2>1, Acknowledged
<1> QED BY Zenon, <1>4, <1>5

\* A write finds only a writer that is in operation.
LEMMA Step_rtps_write ==
  ASSUME LInv, rtps_write
  PROVE  LInv'
<1> USE ThreadAssumption DEF LInv, At, Goto, Thread, wvars, tvars, NoReq
<1>1. TypeOK' BY DEF TypeOK, rtps_write
<1>2. Places' BY DEF Places, rtps_write
<1>3. Phases' BY DEF Phases, rtps_write
<1>4. Requests' BY Zenon DEF Requests, rtps_write
<1>5. WaitedFor' BY DEF Phases, Requests, WaitedFor, Holds, rtps_write
<1>6. AssertsHold' BY Zenon DEF AssertsHold, rtps_write
<1> QED BY Zenon, <1>1, <1>2, <1>3, <1>4, <1>5, <1>6

\* A write that is blocked from the start has not slept.
LEMMA Step_write_sample ==
  ASSUME LInv, write_sample_kernel_seq_eot
  PROVE  LInv'
<1> USE ThreadAssumption DEF LInv, At, Goto, Thread, wvars, tvars, NoReq
<1>1. TypeOK'
  <2>1. unacked' \in Nat BY DEF write_sample_kernel_seq_eot, TypeOK
  <2>2. CASE pc' = [pc EXCEPT ![W] = "transmit"] /\ UNCHANGED throttling
    BY <2>1, <2>2 DEF write_sample_kernel_seq_eot, TypeOK
  <2>3. CASE pc' = [pc EXCEPT ![W] = "send"] /\ throttling' = TRUE
    BY <2>1, <2>3 DEF write_sample_kernel_seq_eot, TypeOK
  <2> QED BY Zenon, <2>2, <2>3 DEF write_sample_kernel_seq_eot
<1>2. Places' BY Zenon DEF TypeOK, Places, write_sample_kernel_seq_eot
<1>3. Phases' BY Zenon DEF TypeOK, Phases, write_sample_kernel_seq_eot
<1>4. Requests' BY Zenon DEF TypeOK, Requests, write_sample_kernel_seq_eot
<1>5. WaitedFor' BY Zenon DEF TypeOK, WaitedFor, Holds, write_sample_kernel_seq_eot
<1>6. AssertsHold' BY Zenon DEF TypeOK, AssertsHold, write_sample_kernel_seq_eot
<1> QED BY Zenon, <1>1, <1>2, <1>3, <1>4, <1>5, <1>6

\* A write goes to sleep only on a writer in operation.
LEMMA Step_ThrottleSleep ==
  ASSUME LInv, ThrottleSleep
  PROVE  LInv'
<1> USE ThreadAssumption DEF LInv, At, Goto, Thread, wvars, tvars, NoReq
<1>1. TypeOK' BY VtimeParity DEF TypeOK, ThrottleSleep
<1>2. Places' BY Zenon DEF TypeOK, Places, ThrottleSleep
<1>3. Phases' BY DEF Phases, ThrottleSleep
<1>4. Requests' BY Zenon DEF Requests, ThrottleSleep
<1>5. WaitedFor' BY Zenon DEF Requests, WaitedFor, ThrottleSleep, writer_may_continue
<1>6. AssertsHold' BY Zenon DEF AssertsHold, ThrottleSleep
<1> QED BY Zenon, <1>1, <1>2, <1>3, <1>4, <1>5, <1>6

\* A write that is no longer blocked has slept, or its virtual time stood still.
LEMMA Step_ThrottleDone ==
  ASSUME LInv, ThrottleDone
  PROVE  LInv'
<1> USE ThreadAssumption DEF LInv, At, Goto, Thread, wvars, tvars, NoReq
<1>1. TypeOK'
  <2>1. unacked' \in Nat BY DEF ThrottleDone, TypeOK
  <2>5. retransmitting' \in BOOLEAN BY Zenon DEF ThrottleDone, TypeOK
  <2>2. gpc' \in {"check", "callback", "waits"} BY Zenon DEF ThrottleDone, Wake, TypeOK
  <2>3. vtime' \in [Thread -> 0..(VtimeRange - 1)] BY Zenon, VtimeParity DEF ThrottleDone, TypeOK
  <2>4. \A t \in Thread : vtime_awake_p(vtime'[t]) <=> pc'[t] \notin {"asleep", "waiting"}
    BY Zenon, VtimeParity DEF ThrottleDone, TypeOK
  <2> QED BY <2>1, <2>2, <2>3, <2>4, <2>5 DEF ThrottleDone, TypeOK
<1>2. Places' BY DEF Places, ThrottleDone
<1>3. Phases' BY DEF Phases, ThrottleDone
<1>4. Requests' BY Zenon DEF Requests, ThrottleDone, Wake
<1>5. WaitedFor' BY DEF Places, WaitedFor, Holds, ThrottleDone
<1>6. AssertsHold' BY Zenon DEF AssertsHold, ThrottleDone
<1> QED BY Zenon, <1>1, <1>2, <1>3, <1>4, <1>5, <1>6

\* A write that is done has no pointer.
LEMMA Step_transmit_sample ==
  ASSUME LInv, transmit_sample
  PROVE  LInv'
<1> USE ThreadAssumption DEF LInv, At, Goto, Thread, wvars, tvars, NoReq
<1>1. TypeOK' BY DEF TypeOK, transmit_sample
<1>2. Places' BY DEF Places, transmit_sample
<1>3. Phases' BY DEF Phases, transmit_sample
<1>4. Requests' BY Zenon DEF Requests, transmit_sample
<1>5. WaitedFor' BY DEF WaitedFor, Holds, transmit_sample
<1>6. AssertsHold' BY Zenon DEF AssertsHold, transmit_sample
<1> QED BY Zenon, <1>1, <1>2, <1>3, <1>4, <1>5, <1>6

\* A thread that begins something new has no pointer.
LEMMA Step_Awake ==
  ASSUME LInv, NEW t \in Thread, Awake(t)
  PROVE  LInv'
<1> USE ThreadAssumption DEF LInv, At, Goto, Thread, wvars, tvars, NoReq
<1>1. TypeOK' BY VtimeParity DEF TypeOK, Awake
<1>2. Places' BY DEF Places, Awake
<1>3. Phases' BY Zenon DEF TypeOK, Phases, Awake
<1>4. Requests' BY Zenon DEF Requests, Awake
<1>5. WaitedFor' BY DEF WaitedFor, Holds, Awake
<1>6. AssertsHold' BY Zenon DEF AssertsHold, Awake
<1> QED BY Zenon, <1>1, <1>2, <1>3, <1>4, <1>5, <1>6

\* A thread that goes to sleep between two messages has no pointer.
LEMMA Step_Asleep ==
  ASSUME LInv, NEW t \in Thread, Asleep(t)
  PROVE  LInv'
<1> USE ThreadAssumption DEF LInv, At, Goto, Thread, wvars, tvars, NoReq
<1>1. TypeOK' BY VtimeParity DEF TypeOK, Asleep
<1>2. Places' BY DEF Places, Asleep
<1>3. Phases' BY DEF Phases, Asleep
<1>4. Requests' BY Zenon DEF Requests, Asleep
<1>5. WaitedFor' BY DEF WaitedFor, Holds, Asleep
<1>6. AssertsHold' BY Zenon DEF AssertsHold, Asleep
<1> QED BY Zenon, <1>1, <1>2, <1>3, <1>4, <1>5, <1>6

\* The check keeps the threads whose virtual time stands still.
LEMMA Step_Check ==
  ASSUME LInv, Check
  PROVE  LInv'
<1> USE ThreadAssumption DEF LInv, At, Goto, Thread, wvars, tvars, NoReq
<1>1. TypeOK' BY DEF TypeOK, Check, threads_vtime_check
<1>2. Places' BY Zenon DEF Places, Check
<1>3. Phases' BY Zenon DEF Phases, Check
<1>4. Requests' BY DEF Requests, Check
<1>5. WaitedFor' BY Zenon, NotAfterItself DEF TypeOK, WaitedFor, Holds, Check, threads_vtime_check
<1>6. AssertsHold' BY Zenon DEF AssertsHold, Check
<1> QED BY Zenon, <1>1, <1>2, <1>3, <1>4, <1>5, <1>6

\* A request is queued again only when no write is blocked.
LEMMA Step_throttlewait ==
  ASSUME LInv, gc_delete_writer_throttlewait
  PROVE  LInv'
<1> USE ThreadAssumption DEF LInv, At, Goto, Thread, wvars, tvars, NoReq
<1>1. TypeOK' BY DEF TypeOK, gc_delete_writer_throttlewait
<1>2. Places' BY Zenon DEF Places, gc_delete_writer_throttlewait
<1>3. Phases' BY Zenon DEF Phases, gc_delete_writer_throttlewait
<1>4. Requests' BY DEF TypeOK, Requests, gc_delete_writer_throttlewait
<1>5. WaitedFor' BY DEF TypeOK, WaitedFor, Holds, gc_delete_writer_throttlewait
<1>6. AssertsHold' BY Zenon DEF Requests, AssertsHold, gc_delete_writer_throttlewait
<1> QED BY Zenon, <1>1, <1>2, <1>3, <1>4, <1>5, <1>6

\* The writer is freed when the request waits for nobody.
LEMMA Step_gc_delete ==
  ASSUME LInv, gc_delete_writer
  PROVE  LInv'
<1> USE ThreadAssumption DEF LInv, At, Goto, Thread, wvars, tvars, NoReq
<1>1. TypeOK' BY DEF TypeOK, gc_delete_writer
<1>2. Places' BY Zenon DEF Places, gc_delete_writer
<1>3. Phases' BY Zenon DEF Phases, gc_delete_writer
<1>4. Requests' BY Zenon DEF TypeOK, Places, Requests, WaitedFor, gc_delete_writer, Holds
<1>5. WaitedFor' BY Zenon DEF Requests, WaitedFor, Holds, gc_delete_writer
<1>6. AssertsHold' BY Zenon DEF TypeOK, Places, Requests, WaitedFor, Holds, AssertsHold, gc_delete_writer
<1> QED BY Zenon, <1>1, <1>2, <1>3, <1>4, <1>5, <1>6

---------------------------------------------------------------------------
(* The theorems. *)

\* The writer has just been created and nobody uses it.
LEMMA InitInductive == Init => LInv
<1> SUFFICES ASSUME Init PROVE LInv BY Zenon
<1> USE ThreadAssumption, VtimeAssumption, MarksAssumption DEF Init, NoReq
<1>0. W \in Thread BY Zenon DEF Thread
<1>1. TypeOK
  <2>1. vtime \in [Thread -> 0..(VtimeRange - 1)] BY Zenon
  <2>2. \A t \in Thread : vtime_awake_p(vtime[t]) <=> pc[t] \notin {"asleep", "waiting"}
    BY DEF vtime_awake_p
  <2>3. throttling <=> pc[W] \in {"send", "waiting"} BY Zenon, <1>0
  <2> QED BY Zenon, <2>1, <2>2, <2>3 DEF TypeOK
<1>2. Places /\ Phases /\ Requests /\ WaitedFor /\ AssertsHold
  BY Zenon DEF Places, Phases, Requests, WaitedFor, AssertsHold, Thread
<1> QED BY Zenon, <1>1, <1>2 DEF LInv

\* Every step of the program preserves the invariant.
LEMMA StepInductive == LInv /\ [Next]_vars => LInv'
<1> SUFFICES ASSUME LInv, [Next]_vars PROVE LInv' BY Zenon
<1>1. CASE WriteStep
  BY Zenon, <1>1, Step_rtps_write, Step_write_sample, Step_ThrottleSleep, Step_ThrottleDone, Step_transmit_sample
     DEF WriteStep
<1>2. CASE DeleteStep
  BY Zenon, <1>2, Step_delete_writer_gid, Step_delete_writer, Step_qxev_delete_writer DEF DeleteStep
<1>3. CASE delete_writer_nolinger
  BY Zenon, <1>3, Step_delete_writer_nolinger
<1>4. ASSUME NEW t \in Receiver, ReceiveStep(t) PROVE LInv'
  <2>1. 0..unacked \subseteq Nat OBVIOUS
  <2> QED BY Zenon, <1>4, <2>1, Step_handle_AckNack, Step_proxy_reader DEF ReceiveStep
<1>5. ASSUME NEW t \in Thread, LookupGuid(t) \/ Awake(t) \/ Asleep(t) PROVE LInv'
  BY Zenon, <1>5, Step_LookupGuid, Step_Awake, Step_Asleep
<1>6. CASE gcreq_queue_thread
  BY Zenon, <1>6, Step_Check, Step_throttlewait, Step_gc_delete DEF gcreq_queue_thread
<1>7. CASE UNCHANGED vars
  BY <1>7 DEF vars, LInv, TypeOK, Places, Phases, Requests, WaitedFor, AssertsHold, Holds
<1> QED BY Zenon, <1>1, <1>2, <1>3, <1>4, <1>5, <1>6, <1>7 DEF Next

\* The invariant holds in every state of the program.
THEOREM Inductive == Spec => []LInv
BY InitInductive, StepInductive, PTL DEF Spec

\* Virtual times tell who sleeps, in every state and for every range of
\* virtual times (thread_state_awake, thread_state_asleep).
THEOREM TypeCorrect == Spec => []TypeOK
<1>1. LInv => TypeOK BY Zenon DEF LInv
<1> QED BY <1>1, Inductive, PTL

\* No assertion on the way to the end of a writer fails, but the one of
\* writer_set_state at the end of the linger time.
THEOREM AssertionsHold == Spec => []AssertsHold
<1>1. LInv => AssertsHold BY Zenon DEF LInv
<1> QED BY <1>1, Inductive, PTL

\* The collector frees a writer when no thread uses it any more, but for a
\* write that has slept in throttle_writer and now transmits.
THEOREM FreeIsSafe == Spec => []FreedUnused
<1>1. LInv => FreedUnused
  <2> SUFFICES ASSUME LInv, freed, NEW t \in Thread, Holds(t)
               PROVE  t = W /\ slept /\ pc[W] = "transmit"
    BY Zenon DEF FreedUnused
  <2>1. failed = {} /\ gcreq.vtimes = {} BY DEF LInv, Requests, NoReq
  <2>2. t = W /\ slept BY Zenon, <2>1 DEF LInv, WaitedFor
  <2>3. pc[W] # "waiting" BY Zenon, <2>1 DEF LInv, WaitedFor
  <2>4. pc[W] \notin {"locking", "send", "schedule"}
    BY Zenon, <2>2, ThreadAssumption DEF LInv, Places
  <2> QED BY Zenon, <2>2, <2>3, <2>4 DEF Holds
<1> QED BY <1>1, Inductive, PTL
=============================================================================
