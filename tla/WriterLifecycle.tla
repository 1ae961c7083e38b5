-------------------------- MODULE WriterLifecycle --------------------------
(***************************************************************************)
(* The end of a writer's life (q_entity.c, q_transmit.c, q_gc.c): while    *)
(* one thread writes, perhaps blocked on a full history cache, another     *)
(* deletes the writer, at once or, if samples are unacknowledged, when the *)
(* last one is acknowledged or the linger time is over.  Nobody counts     *)
(* references: the writer is taken out of the hash tables and the garbage  *)
(* collector frees it when every thread that was awake at that moment has  *)
(* been asleep, or begun something new, since.  Threads tell so by their   *)
(* virtual time, even when awake and odd when asleep.                      *)
(*                                                                         *)
(* The code under the writer's lock is one step.  unacked stands for       *)
(* whc_unacked_bytes, in samples.  The garbage collector's own virtual     *)
(* time is left out: it goes to sleep before each of its checks, so that   *)
(* it never holds up itself.                                               *)
(***************************************************************************)
EXTENDS Integers

CONSTANTS
  W,                   \* the thread that writes (channel_reader_thread)
  D,                   \* the thread that is told of the writer's deletion
  T,                   \* the thread of timed events (xevent_thread)
  Receiver,            \* threads that handle AckNacks or delete proxy readers
  VtimeRange,          \* virtual times are counted modulo this: 2^32
  FirstVtime,          \* of every thread
  whc_low, whc_high,   \* water marks of the history cache
  MaxOps               \* bound: messages and events a thread handles

Thread == {W, D, T} \cup Receiver

ASSUME ThreadAssumption ==
  /\ W # D /\ W # T /\ D # T
  /\ {W, D, T} \cap Receiver = {}

ASSUME VtimeAssumption ==
  /\ VtimeRange \in Nat /\ VtimeRange > 2 /\ VtimeRange % 2 = 0
  /\ FirstVtime \in 0..(VtimeRange - 1) /\ FirstVtime % 2 = 1

ASSUME MarksAssumption == whc_low \in Nat /\ whc_high \in Nat /\ MaxOps \in [Thread -> Nat]

VARIABLES
  vtime, pc, todo,     \* of each thread: virtual time, place, bound
  slept,               \* the write in progress has slept in throttle_writer
  guid_hash, gid_hash, \* whether the tables still have the writer
  state, throttling, unacked, retransmitting, freed,   \* struct writer
  timer,               \* the event that ends the linger time is scheduled
  gcreq,               \* the request to delete the writer, if there is one
  gpc,                 \* the collector: "check", in the "callback", or "waits"
  failed               \* assertions that have failed; the program then stops

tvars == <<vtime, pc, todo, slept>>
wvars == <<guid_hash, gid_hash, state, throttling, unacked, retransmitting, freed, timer>>
vars == <<vtime, pc, todo, slept, guid_hash, gid_hash, state, throttling, unacked,
          retransmitting, freed, timer, gcreq, gpc, failed>>

NoReq == [cb |-> "none", vtimes |-> {}]

Init ==
  /\ vtime = [t \in Thread |-> FirstVtime]
  /\ pc = [t \in Thread |-> "asleep"] /\ todo = MaxOps /\ slept = FALSE
  /\ guid_hash = TRUE /\ gid_hash = TRUE
  /\ state = "OPERATIONAL" /\ throttling = FALSE /\ unacked = 0
  /\ retransmitting = FALSE /\ freed = FALSE /\ timer = FALSE
  /\ gcreq = NoReq /\ gpc = "check" /\ failed = {}

---------------------------------------------------------------------------
(* Virtual time, q_thread_template.c.  It wraps. *)

vtime_awake_p(v) == v % 2 = 0
Plus(v, d) == IF v + d >= VtimeRange THEN v + d - VtimeRange ELSE v + d
Minus(v1, v0) == IF v1 >= v0 THEN v1 - v0 ELSE v1 - v0 + VtimeRange

\* The signed difference is positive.
vtime_gt(v1, v0) == Minus(v1, v0) > 0 /\ 2 * Minus(v1, v0) < VtimeRange

\* Mutant: a thread that is awake already is counted as one that was asleep.
thread_state_awake_Once(v) == Plus(v, 1)
thread_state_awake(v) == IF vtime_awake_p(v) THEN Plus(v, 2) ELSE Plus(v, 1)
thread_state_asleep(v) == IF vtime_awake_p(v) THEN Plus(v, 1) ELSE Plus(v, 2)

At(t, l) == failed = {} /\ pc[t] = l
Goto(t, l) == pc' = [pc EXCEPT ![t] = l]

---------------------------------------------------------------------------
(* Requests to the collector, q_gc.c. *)

\* The threads that are awake, and when.
threads_vtime_gather_for_wait == {<<t, vtime[t]>> : t \in {u \in Thread : vtime_awake_p(vtime[u])}}

\* Those that have not made progress.
threads_vtime_check(ivs) == {iv \in ivs : ~vtime_gt(vtime[iv[1]], iv[2])}

gcreq_new(cb) == [cb |-> cb, vtimes |-> threads_vtime_gather_for_wait]

\* Mutant: a blocked write is left to its time-out.
gcreq_writer_NoThrottlewait == gcreq' = gcreq_new("gc_delete_writer")

gcreq_writer ==
  gcreq' = gcreq_new(IF throttling THEN "gc_delete_writer_throttlewait" ELSE "gc_delete_writer")

---------------------------------------------------------------------------
(* Deletion, q_entity.c. *)

\* enum writer_state
Rank(s) == IF s = "OPERATIONAL" THEN 0 ELSE IF s = "LINGERING" THEN 1 ELSE 2

\* os_condBroadcast (&wr->throttle_cond) on some condition.  A thread in
\* throttle_writer wakes up at its time-out anyhow; the collector does not.
Wake(cond) == gpc' = IF cond /\ gpc = "waits" THEN "callback" ELSE gpc

writer_set_state(newstate, who) ==
  /\ state' = newstate
  /\ failed' = IF Rank(newstate) > Rank(state) THEN failed ELSE failed \cup {who}

\* Mutant: the writer can be found until the collector frees it.
delete_writer_nolinger_locked_Found(who) ==
  /\ writer_set_state("DELETING", who)
  /\ gcreq_writer
  /\ UNCHANGED guid_hash

delete_writer_nolinger_locked(who) ==
  /\ guid_hash' = FALSE
  /\ writer_set_state("DELETING", who)
  /\ gcreq_writer

\* With n samples left unacknowledged; the caller may have a reason of its own
\* to wake those who wait.
remove_acked_messages(n, wakes) ==
  /\ unacked' = n
  /\ Wake(wakes \/ (throttling /\ n <= whc_low) \/ (retransmitting /\ n = 0))
  /\ IF state = "LINGERING" /\ n = 0
     THEN delete_writer_nolinger_locked("remove_acked_messages")
     ELSE UNCHANGED <<guid_hash, state, gcreq, failed>>

\* handle_bubble or schedule_delete_writer, in some thread that is not the one
\* that writes.
delete_writer_gid ==
  /\ At(D, "lookup")
  /\ gid_hash' = FALSE
  /\ Goto(D, IF gid_hash /\ guid_hash THEN "locking" ELSE "done")
  /\ UNCHANGED <<vtime, todo, slept, guid_hash, state, throttling, unacked, retransmitting, freed,
                 timer, gcreq, gpc, failed>>

delete_writer ==
  /\ At(D, "locking")
  /\ Wake(state = "OPERATIONAL")
  /\ IF unacked = 0
     THEN delete_writer_nolinger_locked("delete_writer") /\ Goto(D, "done")
     ELSE /\ writer_set_state("LINGERING", "delete_writer")
          /\ Goto(D, "schedule")
          /\ UNCHANGED <<guid_hash, gcreq>>
  /\ UNCHANGED <<vtime, todo, slept, gid_hash, throttling, unacked, retransmitting, freed, timer>>

\* After the lock has been released; the writer's guid is still used.
qxev_delete_writer ==
  /\ At(D, "schedule")
  /\ timer' = TRUE
  /\ Goto(D, "done")
  /\ UNCHANGED <<vtime, todo, slept, guid_hash, gid_hash, state, throttling, unacked, retransmitting,
                 freed, gcreq, gpc, failed>>

\* handle_xevk_delete_writer and the receive threads look the writer up by its
\* guid, without the lock.
LookupGuid(t) ==
  /\ At(t, "lookup") /\ t \notin {W, D}
  /\ Goto(t, IF guid_hash THEN "locking" ELSE "done")
  /\ UNCHANGED <<vtime, todo, slept, wvars, gcreq, gpc, failed>>

delete_writer_nolinger ==
  /\ At(T, "locking")
  /\ Wake(state = "OPERATIONAL")
  /\ delete_writer_nolinger_locked("linger time-out")
  /\ Goto(T, "done")
  /\ UNCHANGED <<vtime, todo, slept, gid_hash, throttling, unacked, retransmitting, freed, timer>>

\* An AckNack acknowledges samples or not, and may ask for one that is not.
handle_AckNack(t, n, nack) ==
  /\ At(t, "locking")
  /\ n \in 0..unacked
  /\ IF n < unacked
     THEN remove_acked_messages(n, FALSE)
     ELSE UNCHANGED <<unacked, gpc, guid_hash, state, gcreq, failed>>
  /\ retransmitting' = (n > 0 /\ (retransmitting \/ nack))
  /\ Goto(t, "done")
  /\ UNCHANGED <<vtime, todo, slept, gid_hash, throttling, freed, timer>>

\* A proxy reader is deleted and its acknowledgements no longer matter.
proxy_reader_set_delete_and_ack_all_messages(t, n) ==
  /\ At(t, "locking")
  /\ n \in 0..unacked
  /\ remove_acked_messages(n, TRUE)
  /\ retransmitting' = FALSE
  /\ Goto(t, "done")
  /\ UNCHANGED <<vtime, todo, slept, gid_hash, throttling, freed, timer>>

---------------------------------------------------------------------------
(* Writing, q_main.c and q_transmit.c. *)

rtps_write ==
  /\ At(W, "lookup")
  /\ Goto(W, IF gid_hash THEN "locking" ELSE "done")
  /\ slept' = FALSE
  /\ UNCHANGED <<vtime, todo, wvars, gcreq, gpc, failed>>

writer_may_continue == (unacked <= whc_low /\ ~retransmitting) \/ state # "OPERATIONAL"

\* Over the high-water mark the write blocks, unless maybe_grow_whc has raised
\* the mark: throttle_writer sends what is outstanding, without the lock.
write_sample_kernel_seq_eot ==
  /\ At(W, "locking")
  /\ \/ /\ unacked > whc_high => ~retransmitting
        /\ unacked' = unacked + 1
        /\ Goto(W, "transmit")
        /\ UNCHANGED <<throttling, failed>>
     \/ /\ unacked > whc_high
        /\ failed' = IF throttling THEN failed \cup {"throttle_writer"} ELSE failed
        /\ throttling' = TRUE
        /\ Goto(W, "send")
        /\ UNCHANGED unacked
  /\ UNCHANGED <<vtime, todo, slept, guid_hash, gid_hash, state, retransmitting, freed, timer, gcreq, gpc>>

\* Blocked in the loop of throttle_writer, asleep for the collector.  A thread
\* that comes back from a wait is awake in between.
ThrottleSleep ==
  /\ At(W, "send") \/ At(W, "waiting")
  /\ ~writer_may_continue
  /\ vtime' = [vtime EXCEPT ![W] =
                 thread_state_asleep(IF pc[W] = "waiting" THEN thread_state_awake(@) ELSE @)]
  /\ slept' = TRUE
  /\ Goto(W, "waiting")
  /\ UNCHANGED <<todo, wvars, gcreq, gpc, failed>>

\* Mutant: the collector is not told that the write no longer blocks.
ThrottleDone_Silent ==
  /\ At(W, "send") \/ At(W, "waiting")
  /\ vtime' = IF pc[W] = "waiting" THEN [vtime EXCEPT ![W] = thread_state_awake(@)] ELSE vtime
  /\ throttling' = FALSE
  /\ IF writer_may_continue
     THEN unacked' = unacked + 1 /\ UNCHANGED retransmitting
     ELSE unacked' = 1 /\ retransmitting' = FALSE
  /\ Goto(W, "transmit")
  /\ UNCHANGED <<todo, slept, guid_hash, gid_hash, state, freed, timer, gcreq, gpc, failed>>

\* Back from throttle_writer because the writer may continue or because time is
\* up; then the readers that lag are given up and nothing is unacknowledged.
\* The sample is inserted and the lock released.
ThrottleDone ==
  /\ At(W, "send") \/ At(W, "waiting")
  /\ vtime' = IF pc[W] = "waiting" THEN [vtime EXCEPT ![W] = thread_state_awake(@)] ELSE vtime
  /\ throttling' = FALSE
  /\ IF writer_may_continue
     THEN unacked' = unacked + 1 /\ UNCHANGED retransmitting
     ELSE unacked' = 1 /\ retransmitting' = FALSE
  /\ Wake(~writer_may_continue \/ state # "OPERATIONAL")
  /\ Goto(W, "transmit")
  /\ UNCHANGED <<todo, slept, guid_hash, gid_hash, state, freed, timer, gcreq, failed>>

\* Takes the writer's lock for every fragment.
transmit_sample ==
  /\ At(W, "transmit")
  /\ Goto(W, "done")
  /\ UNCHANGED <<vtime, todo, slept, wvars, gcreq, gpc, failed>>

---------------------------------------------------------------------------
(* Every thread between two messages or events. *)

Awake(t) ==
  /\ At(t, "asleep") \/ At(t, "done")
  /\ todo[t] > 0
  /\ t = T => timer
  /\ vtime' = [vtime EXCEPT ![t] = thread_state_awake(@)]
  /\ todo' = [todo EXCEPT ![t] = @ - 1]
  /\ timer' = (timer /\ t # T)
  /\ Goto(t, "lookup")
  /\ UNCHANGED <<slept, guid_hash, gid_hash, state, throttling, unacked, retransmitting, freed, gcreq, gpc, failed>>

Asleep(t) ==
  /\ At(t, "done")
  /\ vtime' = [vtime EXCEPT ![t] = thread_state_asleep(@)]
  /\ Goto(t, "asleep")
  /\ UNCHANGED <<todo, slept, wvars, gcreq, gpc, failed>>

---------------------------------------------------------------------------
(* gcreq_queue_thread *)

Check ==
  /\ failed = {} /\ gcreq # NoReq /\ gpc = "check"
  /\ gcreq' = [gcreq EXCEPT !.vtimes = threads_vtime_check(@)]
  /\ gpc' = IF threads_vtime_check(gcreq.vtimes) = {} THEN "callback" ELSE "check"
  /\ UNCHANGED <<tvars, wvars, failed>>

\* The request is queued again as it is: with no threads to wait for.
gc_delete_writer_throttlewait ==
  /\ failed = {} /\ gpc = "callback" /\ gcreq.cb = "gc_delete_writer_throttlewait"
  /\ failed' = IF state = "DELETING" THEN failed ELSE failed \cup {"gc_delete_writer_throttlewait"}
  /\ IF throttling
     THEN gpc' = "waits" /\ UNCHANGED gcreq
     ELSE gpc' = "check" /\ gcreq' = [gcreq EXCEPT !.cb = "gc_delete_writer"]
  /\ UNCHANGED <<tvars, wvars>>

gc_delete_writer ==
  /\ failed = {} /\ gpc = "callback" /\ gcreq.cb = "gc_delete_writer"
  /\ failed' = IF state = "DELETING" /\ ~throttling THEN failed ELSE failed \cup {"gc_delete_writer"}
  /\ freed' = TRUE
  /\ gcreq' = NoReq /\ gpc' = "check"
  /\ UNCHANGED <<tvars, guid_hash, gid_hash, state, throttling, unacked, retransmitting, timer>>

---------------------------------------------------------------------------
WriteStep ==
  rtps_write \/ write_sample_kernel_seq_eot \/ ThrottleSleep \/ ThrottleDone \/ transmit_sample

DeleteStep == delete_writer_gid \/ delete_writer \/ qxev_delete_writer

ReceiveStep(t) ==
  \/ \E n \in 0..unacked, nack \in BOOLEAN : handle_AckNack(t, n, nack)
  \/ \E n \in 0..unacked : proxy_reader_set_delete_and_ack_all_messages(t, n)

gcreq_queue_thread == Check \/ gc_delete_writer_throttlewait \/ gc_delete_writer

Next ==
  \/ WriteStep
  \/ DeleteStep
  \/ delete_writer_nolinger
  \/ \E t \in Receiver : ReceiveStep(t)
  \/ \E t \in Thread : LookupGuid(t) \/ Awake(t) \/ Asleep(t)
  \/ gcreq_queue_thread

Spec == Init /\ [][Next]_vars

Busy(t) ==
  \/ LookupGuid(t) \/ Asleep(t)
  \/ t = W /\ WriteStep
  \/ t = D /\ DeleteStep
  \/ t = T /\ (delete_writer_nolinger \/ Awake(T))
  \/ t \in Receiver /\ ReceiveStep(t)

\* Threads go on, a wait in throttle_writer ends at its time-out at the latest,
\* and a scheduled event is handled.  Nobody has to write, delete or
\* acknowledge anything.
Fairness ==
  /\ \A t \in Thread : WF_vars(Busy(t))
  /\ WF_vars(ThrottleDone)
  /\ WF_vars(gcreq_queue_thread)

FairSpec == Spec /\ Fairness

---------------------------------------------------------------------------
(* Properties. *)

\* The thread has a pointer to the writer that it is going to use.
Holds(t) == pc[t] \in {"locking", "send", "waiting", "transmit", "schedule"}

\* The variables have their types; virtual times tell who sleeps, and
\* wr->throttling that a write is blocked.
TypeOK ==
  /\ vtime \in [Thread -> 0..(VtimeRange - 1)]
  /\ pc \in [Thread -> {"asleep", "lookup", "locking", "send", "waiting", "transmit", "schedule", "done"}]
  /\ todo \in [Thread -> Nat]
  /\ slept \in BOOLEAN /\ guid_hash \in BOOLEAN /\ gid_hash \in BOOLEAN /\ throttling \in BOOLEAN
  /\ retransmitting \in BOOLEAN /\ freed \in BOOLEAN /\ timer \in BOOLEAN
  /\ state \in {"OPERATIONAL", "LINGERING", "DELETING"}
  /\ unacked \in Nat
  /\ gcreq \in [cb : {"none", "gc_delete_writer", "gc_delete_writer_throttlewait"},
                vtimes : SUBSET (Thread \X (0..(VtimeRange - 1)))]
  /\ gpc \in {"check", "callback", "waits"}
  /\ \A t \in Thread : vtime_awake_p(vtime[t]) <=> pc[t] \notin {"asleep", "waiting"}
  /\ throttling <=> pc[W] \in {"send", "waiting"}

\* The assertions on the way hold: the state of the writer only advances
\* (writer_set_state), no write is blocked when the writer is freed
\* (gc_delete_writer) or when another begins to block (throttle_writer).  The
\* exception is the end of the linger time: delete_writer_nolinger looks the
\* writer up without its lock, and the last acknowledgement may have started
\* the deletion when it gets the lock.
AssertsHold == failed \subseteq {"linger time-out"}

\* The writer is freed when no thread is going to use it any more, however
\* often virtual times wrap and though a blocked write counts as asleep.  The
\* one exception is the write that slept in throttle_writer: the collector
\* waits for wr->throttling, not for the transmission that follows.
FreedUnused == freed => \A t \in Thread : Holds(t) => t = W /\ slept /\ pc[W] = "transmit"

\* "the garbage collector won't free the writer", "Therefore, we don't check
\* the writer is still there after waking up" (throttle_writer): no thread
\* uses the writer after it has been freed.
WriterOutlivesUse == freed => \A t \in Thread : ~Holds(t)

\* A writer that is deleted is freed in the end, also when a write is blocked
\* on it, when no acknowledgement ever comes and whatever the threads do.
EventuallyFreed == (state # "OPERATIONAL") ~> (freed \/ failed # {})
=============================================================================
