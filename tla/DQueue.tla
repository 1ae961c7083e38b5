------------------------------- MODULE DQueue -------------------------------
(***************************************************************************)
(* The delivery queue of q_radmin.c (struct nn_dqueue): receive threads    *)
(* put chains of samples in it and its own thread hands them to the        *)
(* readers.  Between the samples travel "bubbles": callbacks, the order to *)
(* stop, and RDGUID, which says that the next so many samples are for one  *)
(* reader only.  A receive thread that finds the queue full waits until it *)
(* is empty.                                                               *)
(*                                                                         *)
(* A step is what happens between two points where another thread may get  *)
(* in: the code under the queue's lock is one step, except that counting   *)
(* down nof_samples and waking those who wait do not take the lock and can *)
(* fall in the middle of it.                                               *)
(***************************************************************************)
EXTENDS Integers, Sequences

CONSTANTS
  Receiver,      \* receive threads
  Reader,        \* readers that samples may be for
  max_samples,   \* the queue is full with so many
  MaxElems       \* bound: elements enqueued in all

ASSUME DQueueAssumption == max_samples \in Nat \ {0} /\ MaxElems \in Nat

\* Names that are no thread's and no reader's.
Nobody == "nobody"
Everyone == "everyone"
DQ == "dqueue_thread"

ASSUME NamesAssumption == Nobody \notin Receiver /\ DQ \notin Receiver /\ Everyone \notin Reader

VARIABLES
  \* struct nn_dqueue: the chain, the counter, who has the lock and who waits
  \* on the condition variable
  sc, nof_samples, lock, waiting,
  \* dqueue_thread: where it is, the chain it took, the element in hand, and
  \* the reader the next rdguid_count samples are for
  pc, batch, elem, rdguid, rdguid_count, keepgoing,
  \* where the receive threads are, and whether the queue is being freed
  rpc, freeing,
  \* history: the samples enqueued, and those handed over, with whom for
  enqueued, handled, count

queue == <<sc, nof_samples, lock, waiting>>
thread == <<pc, batch, elem, rdguid, rdguid_count, keepgoing>>
vars == <<sc, nof_samples, lock, waiting, pc, batch, elem, rdguid, rdguid_count, keepgoing,
          rpc, freeing, enqueued, handled, count>>

Sample(n, dst) == [kind |-> "DATA", n |-> n, dst |-> dst]
GapElem(n, dst) == [kind |-> "GAP", n |-> n, dst |-> dst]
Rdguid(r, cnt) == [kind |-> "RDGUID", n |-> cnt, dst |-> r]
Callback == [kind |-> "CALLBACK", n |-> 0, dst |-> Everyone]
NoElem == [kind |-> "NONE", n |-> 0, dst |-> Everyone]
Stop == [kind |-> "STOP", n |-> 0, dst |-> Everyone]

Init ==
  /\ sc = << >> /\ nof_samples = 0 /\ lock = Nobody /\ waiting = {}
  /\ pc = "top" /\ batch = << >> /\ elem = NoElem /\ keepgoing = TRUE
  /\ rdguid = Everyone /\ rdguid_count = 0
  /\ rpc = [r \in Receiver |-> "idle"] /\ freeing = FALSE
  /\ enqueued = << >> /\ handled = << >> /\ count = 0

RGoto(t, l) == rpc' = [rpc EXCEPT ![t] = l] /\ UNCHANGED freeing

---------------------------------------------------------------------------
(* Putting things in: a bubble or none, and the samples of a chain or     *)
(* none, n of them all told.  Samples get consecutive numbers; every chain *)
(* of two has a gap for its second element.                                *)

\* Mutant: waiters are woken only if there was something in the queue.
enqueue_locked_NoWakeup(bubbles, samples, n) ==
  /\ lock = Nobody
  /\ ~freeing
  /\ count + Len(bubbles \o samples) <= MaxElems
  /\ sc' = sc \o (bubbles \o samples)
  /\ nof_samples' = nof_samples + n
  /\ waiting' = IF sc # << >> THEN {} ELSE waiting
  /\ count' = count + Len(bubbles \o samples)
  /\ enqueued' = enqueued \o samples
  /\ UNCHANGED <<lock, thread, handled>>

\* Appended under the lock; waiters are woken if the queue was empty.
enqueue_locked(bubbles, samples, n) ==
  /\ lock = Nobody
  /\ ~freeing
  /\ count + Len(bubbles \o samples) <= MaxElems
  /\ sc' = sc \o (bubbles \o samples)
  /\ nof_samples' = nof_samples + n
  /\ waiting' = IF sc = << >> THEN {} ELSE waiting
  /\ count' = count + Len(bubbles \o samples)
  /\ enqueued' = enqueued \o samples
  /\ UNCHANGED <<lock, thread, handled>>

Chain(n, dst) ==
  LET k == Len(enqueued)
  IN  IF n = 1 THEN <<Sample(k + 1, dst)>> ELSE <<Sample(k + 1, dst), GapElem(k + 2, dst)>>

nn_dqueue_enqueue(t, n) ==
  /\ rpc[t] = "idle"
  /\ enqueue_locked(<< >>, Chain(n, Everyone), n)
  /\ RGoto(t, "check")

\* Mutant: the bubble is not counted.
nn_dqueue_enqueue1_BubbleFree(t, r, n) ==
  /\ rpc[t] = "idle"
  /\ enqueue_locked(<<Rdguid(r, n)>>, Chain(n, r), n)
  /\ RGoto(t, "check")

nn_dqueue_enqueue1(t, r, n) ==
  /\ rpc[t] = "idle"
  /\ enqueue_locked(<<Rdguid(r, n)>>, Chain(n, r), n + 1)
  /\ RGoto(t, "check")

nn_dqueue_enqueue_callback == enqueue_locked(<<Callback>>, << >>, 1) /\ UNCHANGED <<rpc, freeing>>

\* Called when nobody enqueues any more; the thread is joined.
nn_dqueue_free ==
  /\ \A t \in Receiver : rpc[t] = "idle"
  /\ enqueue_locked(<<Stop>>, << >>, 1)
  /\ freeing' = TRUE
  /\ UNCHANGED rpc

---------------------------------------------------------------------------
(* nn_dqueue_wait_until_empty_if_full *)

\* Without the lock.
CheckFull(t) ==
  /\ rpc[t] = "check"
  /\ RGoto(t, IF nof_samples >= max_samples THEN "lock" ELSE "idle")
  /\ UNCHANGED <<queue, thread, enqueued, handled, count>>

\* The lock is taken, first or on return from os_condWait.
TakeLock(t) ==
  /\ rpc[t] \in {"lock", "waiting"} /\ t \notin waiting
  /\ lock = Nobody
  /\ lock' = t
  /\ RGoto(t, "test")
  /\ UNCHANGED <<sc, nof_samples, waiting, thread, enqueued, handled, count>>

TestEmpty(t) ==
  /\ rpc[t] = "test"
  /\ IF nof_samples > 0
     THEN RGoto(t, "wait") /\ UNCHANGED lock
     ELSE RGoto(t, "idle") /\ lock' = Nobody
  /\ UNCHANGED <<sc, nof_samples, waiting, thread, enqueued, handled, count>>

\* os_condWait lets go of the lock.
CondWait(t) ==
  /\ rpc[t] = "wait"
  /\ waiting' = waiting \cup {t}
  /\ lock' = Nobody
  /\ RGoto(t, "waiting")
  /\ UNCHANGED <<sc, nof_samples, thread, enqueued, handled, count>>

---------------------------------------------------------------------------
(* dqueue_thread *)

\* The whole chain is taken; with none there the thread waits, once.
TakeChain ==
  /\ pc \in {"top", "waiting"} /\ DQ \notin waiting
  /\ lock = Nobody
  /\ IF pc = "top" /\ sc = << >>
     THEN pc' = "waiting" /\ waiting' = waiting \cup {DQ} /\ UNCHANGED <<sc, batch>>
     ELSE pc' = "loop" /\ batch' = sc /\ sc' = << >> /\ UNCHANGED waiting
  /\ UNCHANGED <<nof_samples, lock, elem, rdguid, rdguid_count, keepgoing, rpc, freeing, enqueued, handled, count>>

\* Takes an element off and counts down, without the lock.
CountDown ==
  /\ pc = "loop" /\ batch # << >>
  /\ elem' = Head(batch) /\ batch' = Tail(batch)
  /\ nof_samples' = nof_samples - 1
  /\ pc' = IF nof_samples = 1 THEN "broadcast" ELSE "handle"
  /\ UNCHANGED <<sc, lock, waiting, rdguid, rdguid_count, keepgoing, rpc, freeing, enqueued, handled, count>>

\* Mutant: the lock is taken to wake those who wait, and not given back.
Broadcast_KeepsLock ==
  /\ pc = "broadcast" /\ lock = Nobody
  /\ pc' = "handle"
  /\ waiting' = {} /\ lock' = DQ
  /\ UNCHANGED <<sc, nof_samples, batch, elem, rdguid, rdguid_count, keepgoing,
                 rpc, freeing, enqueued, handled, count>>

Broadcast ==
  /\ pc = "broadcast"
  /\ pc' = "handle"
  /\ waiting' = {}
  /\ UNCHANGED <<sc, nof_samples, lock, batch, elem, rdguid, rdguid_count, keepgoing,
                 rpc, freeing, enqueued, handled, count>>

\* Mutant: a gap is not counted as one of the samples of the RDGUID bubble.
HandleSample_GapFree ==
  /\ handled' = Append(handled, [elem EXCEPT !.dst = rdguid])
  /\ rdguid_count' = IF rdguid_count > 0 /\ elem.kind = "DATA" THEN rdguid_count - 1 ELSE rdguid_count
  /\ rdguid' = IF rdguid_count = 1 /\ elem.kind = "DATA" THEN Everyone ELSE rdguid
  /\ UNCHANGED keepgoing

HandleSample ==
  /\ handled' = Append(handled, [elem EXCEPT !.dst = rdguid])
  /\ rdguid_count' = IF rdguid_count > 0 THEN rdguid_count - 1 ELSE 0
  /\ rdguid' = IF rdguid_count = 1 THEN Everyone ELSE rdguid
  /\ UNCHANGED keepgoing

HandleBubble ==
  /\ keepgoing' = (keepgoing /\ elem.kind # "STOP")
  /\ IF elem.kind = "RDGUID"
     THEN rdguid' = elem.dst /\ rdguid_count' = elem.n
     ELSE UNCHANGED <<rdguid, rdguid_count>>
  /\ UNCHANGED handled

Handle ==
  /\ pc = "handle"
  /\ IF elem.kind \in {"DATA", "GAP"} THEN HandleSample ELSE HandleBubble
  /\ pc' = "loop"
  /\ elem' = NoElem
  /\ UNCHANGED <<queue, batch, rpc, freeing, enqueued, count>>

EndOfChain ==
  /\ pc = "loop" /\ batch = << >>
  /\ pc' = IF keepgoing THEN "top" ELSE "stopped"
  /\ UNCHANGED <<queue, batch, elem, rdguid, rdguid_count, keepgoing, rpc, freeing, enqueued, handled, count>>

\* External: os_condWait may return without a broadcast.
SpuriousWakeup(t) ==
  /\ t \in waiting
  /\ waiting' = waiting \ {t}
  /\ UNCHANGED <<sc, nof_samples, lock, thread, rpc, freeing, enqueued, handled, count>>

---------------------------------------------------------------------------
WaitStep(t) == CheckFull(t) \/ TakeLock(t) \/ TestEmpty(t) \/ CondWait(t)
dqueue_thread == TakeChain \/ CountDown \/ Broadcast \/ Handle \/ EndOfChain

Next ==
  \/ \E t \in Receiver, n \in {1, 2} : nn_dqueue_enqueue(t, n)
  \/ \E t \in Receiver, r \in Reader, n \in {1, 2} : nn_dqueue_enqueue1(t, r, n)
  \/ nn_dqueue_enqueue_callback
  \/ nn_dqueue_free
  \/ \E t \in Receiver : WaitStep(t)
  \/ dqueue_thread
  \/ \E t \in Receiver \cup {DQ} : SpuriousWakeup(t)

Spec == Init /\ [][Next]_vars

\* The threads run, and one that wants the lock gets it some time.
Fairness ==
  /\ WF_vars(dqueue_thread) /\ SF_vars(TakeChain)
  /\ \A t \in Receiver : WF_vars(WaitStep(t)) /\ SF_vars(TakeLock(t))

FairSpec == Spec /\ Fairness

---------------------------------------------------------------------------
(* Properties. *)

Elem == [kind : {"DATA", "GAP", "RDGUID", "CALLBACK", "STOP"}, n : Nat, dst : Reader \cup {Everyone}]
Elements == Len(sc) + Len(batch)

\* The variables have their types; the lock is held only between taking it
\* and letting go of it; the thread waits only when the queue is empty.
TypeOK ==
  /\ pc \in {"top", "waiting", "loop", "broadcast", "handle", "stopped"}
  /\ rpc \in [Receiver -> {"idle", "check", "lock", "test", "wait", "waiting"}]
  /\ lock \in Receiver \cup {Nobody}
  /\ \A t \in Receiver : lock = t <=> rpc[t] \in {"test", "wait"}
  /\ waiting \subseteq Receiver \cup {DQ}
  /\ DQ \in waiting => pc = "waiting" /\ sc = << >> /\ batch = << >>
  /\ rdguid_count = 0 <=> rdguid = Everyone
  /\ pc = "stopped" => sc = << >> /\ batch = << >>

\* nof_samples counts the elements that have not been taken in hand, bubbles
\* and gaps included: it neither wraps below zero nor stays above it when the
\* queue is empty, so that "full" and "empty" mean what they say.
NofSamplesExact == nof_samples = Elements

\* Samples are handed over in the order they were enqueued, and each to whom
\* it was enqueued for: to the one reader of nn_dqueue_enqueue1, or to all.
\* The count in the RDGUID bubble and the samples behind it may be in
\* different chains taken by the thread.
HandledAsEnqueued == handled = SubSeq(enqueued, 1, Len(handled))

\* However many samples are enqueued, all of them are handed over some time:
\* the thread does not sleep on a queue that has something in it, and the
\* order to stop does not make it leave anything behind.
EventuallyHandled == []<>(handled = enqueued)

\* "samples destined for that queue are dropped until space becomes available
\* again" (q_config.c, DeliveryQueueMaxSamples): a receive thread that waits
\* for the queue to become empty goes on when it is.
EventuallyReleased == \A t \in Receiver : (rpc[t] = "waiting") ~> (rpc[t] = "idle")
=============================================================================
