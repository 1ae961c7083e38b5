# OpenSplice DDSI2E in TLA+

OpenSplice is a DDS implementation: applications write samples of topics, and
every matching reader on every node gets them. Between nodes the samples travel
over DDSI (RTPS), implemented by the `ddsi2e` service
(`src/src/services/ddsi2e/core`). This project models the part of that service
that makes delivery *reliable*: the protocol, the data structures on both sides,
the hand-over to the delivery threads and the end of a writer's life. TLC checks
it on small instances, and TLAPS proves the main safety properties for all of
them. Line references below are to files in `src/src/services/ddsi2e/core`.

## 1. The system

### Parts

| Part | Source | State | Operations | Here |
|---|---|---|---|---|
| Writer history cache | `q_whc.c` | samples by number, interval tree, open interval, cached maximum, per-instance rings, unacked bytes | insert, acknowledge, prune, downgrade, queries | `WHC`, `WriterHistory` |
| Reliable writer | `q_transmit.c`, `q_entity.c` | `seq`, `seq_xmit`, water marks, throttling | write, transmit, throttle, time-out | `WriterHistory`, `ReliableProtocol` |
| Matched readers | `q_entity.c` | AVL tree of `wr_prd_match` with summaries | match, unmatch, delete, demote, acknowledge | `AckTree`, `WriterHistory`, `ReliableProtocol` |
| Heartbeat control | `q_transmit.c`, `q_xevent.c` | intervals, scheduled event | whom to send to, whether to ask for an answer | `AckTree`; `ReliableProtocol` |
| Proxy writer | `q_receive.c`, `q_xevent.c`, `q_entity.c` | `last_seq`, `last_fragnum`, shared defragmenter and reorder administration | Data, DataFrag, Heartbeat, HeartbeatFrag, Gap; AckNack event; match, unmatch | `ProxyWriter`; `ReliableProtocol` |
| Reorder administration | `q_radmin.c` | interval tree of samples and gaps, `next_seq`, `n_samples` | sample, gap, nack map | `Reorder` |
| Defragmentation | `q_radmin.c` | fragment intervals per sample, `max_sample`, `n_samples` | fragment, gap, nack map | `Defrag` |
| Historical catch-up | `q_receive.c`, `q_entity.c` | `in_sync`, per-reader reorder, `end_of_tl_seq` | catch up, switch to in sync, notify | `ProxyWriter` |
| Delivery queue | `q_radmin.c` | chain of samples and bubbles, `nof_samples` | enqueue, deliver, wait until empty, free | `DQueue` |
| Writer lifecycle, garbage collector | `q_entity.c`, `q_gc.c`, `q_thread_template.c`, `../code/q_main.c` | writer state, hash tables, request, virtual times | delete, linger, wake a blocked write, free | `WriterLifecycle` |
| Events, retransmit queue | `q_xevent.c` | timed events, queued messages and bytes | schedule, run, delete | handlers only |
| Leases | `q_lease.c` | heap of leases | renew, expire | not modelled |
| Discovery | `q_ddsi_discovery.c` | participants and endpoints | SPDP, SEDP | by effect only |
| Everything else | see `PROJECT.json` | | | not modelled |

### How they interact

A write takes the writer's lock, waits (`throttle_writer`) while too much is
unacknowledged, takes the next sequence number, stores the sample if somebody
may need it and releases the lock; the packet leaves later, and only then does
`seq_xmit` follow. A heartbeat announces what the cache holds. At the remote
side the proxy writer puts samples and gaps in its reorder administration,
which releases them in order, and answers with an AckNack: everything before
its base is acknowledged, the bits in its map are asked for. The writer raises
the reader's level, drops what all readers have acknowledged, retransmits what
was asked for and declares in a Gap what it no longer has.

Large samples travel in fragments, which the proxy writer puts together before
it orders samples; of an incomplete sample it asks for the missing fragments. A
transient-local reader that is matched late is first *out of sync*: it orders
the samples it missed in a buffer of its own, until it has reached the point
where it can follow the shared one. Whatever can be delivered goes into a
delivery queue, whose thread gives it to the readers, with callbacks such as
"this reader has the historical data" in between.

Entities are not reference-counted. A deleted writer is taken out of the hash
tables, and a garbage collector frees it when every thread that was awake at
that time has been asleep or begun something new; each thread shows that by a
virtual time, even when it is awake and odd when it is asleep.

What makes this hard: any message may be lost, repeated, delayed or overtaken;
the state moves on between taking a number, transmitting it and hearing of it;
readers join, leave, are deleted in two steps, are given up on when they block
a writer, and come back; either side may forget the other and rediscover it
while messages of the earlier life are still in the network; buffers on both
sides are bounded. `PROJECT.json` lists these hazards, each at its line.

## 2. Modules

| Module | What it is |
|---|---|
| `WHC` | the history cache as operators on a record with the fields of `struct whc`, one operator per C function; a failed `assert` is recorded in the field `asserts` |
| `WriterHistory` | a writer that uses that cache: the state machine of every operation that changes it |
| `HistoryCache` | abstract specification: which samples a cache must keep and may keep |
| `Reorder` | `struct nn_reorder` and its operations |
| `InOrderDelivery` | abstract specification: in order, once, skipping only what was declared gone |
| `AckTree` | the augmented tree of matched readers and the choice of a heartbeat's destination |
| `Defrag` | `struct nn_defrag` and its operations, as operators |
| `ProxyWriter` | a proxy writer with its defragmenter, shared reorder administration and matched readers |
| `DQueue` | the delivery queue, its thread and the receive threads that wait for it |
| `WriterLifecycle` | deletion of a writer against threads that write, acknowledge and collect |
| `ReliableProtocol` | writer, network and proxy writers composed |
| `ReliableProtocolProofs`, `AckTreeProofs`, `WriterLifecycleProofs`, `DQueueProofs`, `ProxyWriterProofs`, `ReorderProofs` | theorems about those modules |
| `DefragProofs` | lemmas about the operators of `Defrag`, for `ProxyWriterProofs` |
| `ReorderBufferProofs` | lemmas about the operations on the interval tree, for `ReorderProofs` |
| `MC...` | instances for TLC |

### WHC and WriterHistory

Each action is one critical section of `wr->e.lock`. `throttle_writer` is two:
it releases the lock while it waits (`throttle_begin`), and continues under the
lock into the insertion of the blocked sample (`throttle_end`,
`throttle_timeout`), so the end of the wait and the write are one action.
`deleting` in a match stands for `prd->deleting` together with the removal from
the hash table; where a configuration says `late_acks` an AckNack handler that
had already looked the proxy reader up still gets the writer's lock. The tree of readers is reduced to
its minimum, which `AckTree` justifies. `history` is a ghost variable.

A sample is an instance key and a kind: an update, an unregister, or a message
without payload. Its size depends on the kind, so that byte counts that mix up
two samples show. Not here: coherent sets, `maybe_grow_whc` (it moves the
high-water mark, and the marks are constants of the instance), retransmit
statistics.

### Reorder

An interval keeps its chain of samples; an element for a gap is 0, also in
`delivered`, which is what the code returns. The cached
`max_sampleiv` is a field, so that a stale one shows. The loop of
`coalesce_intervals_touching_range` appends the chains of the intervals from left
to right; `Chained` gives the result by places, because a fold could be computed
but not reasoned about. All three modes are
modelled, and the refusal of samples in late-ack mode when the delivery queue is
full (the fullness is an input). Duplicated samples, reference counts and the
memory of receive buffers are not.

### AckTree

The summaries are recomputed from the leaves by `augment_wr_prd_match`: what it
computes is checked in every shape of the tree, but a change after which
`ut_avlAugmentUpdate`, or a rotation after which `augment`, is not called would not
be seen. An insertion or deletion may leave any balanced tree of the readers, since
every shape that `rebalance_one` of `ut_avl.c` allows can be reached by some order
of insertions; the rotations themselves are left out. The shape is the depth of each
reader's node (`tree`): the readers of a subtree are consecutive, its root is the
one of least depth, and `Root`, `Left` and `Right` find the children from that.
`Summary` is the recursion from the root down. A reader's reliability is fixed
(`qos`). A proxy reader is deleted in two steps, and an AckNack it sent may be
handled between them, as in the code.

### Defrag and ProxyWriter

A sample's fragments are byte intervals, as in the code, with the sentinel
interval at 0, the cached last interval and `max_sample`. The limit on
incomplete samples has its two policies, keep the earliest for a reliable writer
and the latest otherwise. A DataFrag brings one fragment or several in a row
(`Fragments`), which may overlap any of what is there. The chains of fragments and
their reference counts are left out, and so is a sender that changes its fragment
size. `ALL_FRAGS` is a number beyond every fragment number, like the `~0u` it stands for.

`ProxyWriter` puts the defragmenter in its place: `handle_regular` (with
`clean_defrag`), `handle_Heartbeat`, `handle_HeartbeatFrag`, `handle_Gap`,
`proxy_writer_add_connection` and `proxy_writer_drop_connection` are actions, and
`add_AckNack` says what a reader asks for. A reader has its `in_sync` state and
its own reorder administration. Reorder buffers are sets with ample room here;
their limit is the subject of `Reorder`. The delivery queue is what was put in it
for each reader (`queued`), and what was in it ahead of the reader's notification
(`ahead`). The remote writer and the network are the environment: any message
that is true of the writer may arrive, at any time and any number of times. A
late fragment of a sample that everyone has may arrive `MaxStale` times, since
otherwise the network alone could occupy the defragmenter for ever. A new
connection is that of an application's reader: the built-in readers, which
without `conservative_builtin_reader_startup` start in sync behind others
(`q_entity.c:1715`), and the entity-id message sent once the lock is released are left
out.

### DQueue

A step is what happens between two points where another thread can get in.
`nof_samples` is counted down and the condition broadcast without the lock, so
both are steps that can fall between the test and the wait of
`nn_dqueue_wait_until_empty_if_full` (`TestEmpty`, `CondWait`). Spurious wake-ups
are possible. `enqueued` and `handled` are history variables; a sample carries its
place in `enqueued`.

### WriterLifecycle

One thread writes, one is told of the deletion, one handles the timed event that
ends the linger time, others handle AckNacks and deletions of proxy readers, and
the collector. What is done under the writer's lock is a step; looking up a
writer in a hash table, and the transmission after the lock is released, are
others. Virtual times wrap at `VtimeRange`. `unacked` is the number of
unacknowledged samples; the cache itself is `WHC`. An `assert` that fails is
recorded in `failed` and stops the model, as it stops the program. Left out: the
clean-up in `gc_delete_writer` before it frees, termination of the service, and
the collector's own virtual time, which never holds it up. The snapshot of virtual
times is one step (a thread that goes on while the code takes it only has a later
time), every write counts as unacknowledged (a writer without reliable readers
never lingers or throttles), and `delete_writer_gid` takes the writer from the table
of gids and looks it up by its guid in one step.

### ReliableProtocol

The cache is a set of numbers, the reorder administration two sets; the two
modules above justify that. The network is a set of messages: a message may be
received any number of times and in any order as long as it is there, and
whenever something is sent any subset may be lost. The counts in heartbeats and
AckNacks are left out, because the code accepts an old count after two seconds
(`accept_ack_or_hb_w_timeout`), so nothing may depend on them.

| Action | Code |
|---|---|
| `write_sample` | `write_sample_kernel_seq_eot`, `insert_sample_in_whc`; a keep-last cache may overwrite one sample |
| `transmit_sample` | the packet leaves and `nn_xmsg_chain_release` raises `seq_xmit` |
| `handle_xevk_heartbeat` | the heartbeat event, with the range of `add_Heartbeat` |
| `throttle_writer_timeout` | lagging readers are demoted, the cache trimmed and the blocked sample written |
| `writer_add_connection`, `writer_drop_connection`, `proxy_reader_set_delete_and_ack_all_messages` | matching, unmatching, first step of deletion |
| `handle_AckNack` | acknowledgement, recovery of a demoted reader, retransmission, Gap, forced heartbeat; `limit` is where the schedule or the retransmit queue ends |
| `handle_regular`, `handle_Heartbeat`, `handle_Gap` | the receive path of the proxy writer |
| `handle_xevk_acknack` | the AckNack event |
| `new_proxy_writer` | the reader's side loses the writer and discovers it again |

`joined`, `obsolete` and `delivered` are ghost variables: where a reader's claim
on the writer begins, the numbers nobody has a claim on, and what a reader was
given. Simplifications: the writer is volatile; each proxy writer has one reader
that is in sync (`ProxyWriter` has the others); the map of an AckNack reaches
`last_seq` (the limits on a map are checked in `Reorder`); fragments (in
`ProxyWriter`) and late-ack mode are left out; a packet
holds one sample, and `transmit_sample` sends it and raises `seq_xmit` in one step, where
`q_xmsg.c:1078` raises it just after (a heartbeat in between announces less); `add_Heartbeat` has neither its `issync` branch nor a heartbeat
piggybacked on a sample when the cache is empty; deletion of a proxy reader is atomic per writer, as it is in
the code.

## 3. What TLC checks

Twelve runs: seven pass, five exhibit a disagreement between the code and what
it says of itself. Each property of a passing run has a mutant, a plausible
mistake in one of the modelled functions, under which it fails.

| Run | Instance | Question |
|---|---|---|
| `whc` | nine configurations: volatile keep-last, and keep-all with throttling, with two readers and late AckNacks, three writes; five transient-local ones with the two depths in every order, four writes; two in start-up mode | Is the cache right with readers at different levels, and when it also serves late joiners? |
| `reorder` | five numbers; ample buffers in each mode with gaps anywhere; buffers of 0 to 2 samples with gaps from 1 | Is delivery in order and complete, and the tree exact? |
| `acktree` | four readers, each reliable or best effort, who come, go, are given up on or deleted; two samples | Is the summary at the root what a walk would give? |
| `protocol` | one reader, three samples, one message in the network at a time, rediscovery, fairness | Reliable delivery with duplication, loss and rediscovery, and does every sample arrive? |
| `proxy_writer` | a late-joining reader and a best-effort one; up to three samples of one, two or six fragments, several in a message, one or two places for incomplete ones; reliable and best effort; fairness | Do samples come out whole, does a late joiner miss nothing, does it get everything? |
| `dqueue` | two receive threads, five elements, full at two, fairness | Is the counter exact, is everything handled as it was enqueued, and in the end? |
| `writer_lifecycle` | two writes, one deletion, two receive threads, virtual times that wrap, fairness | Is a deleted writer freed, once and not too early? |

Properties:

- `AssertsHold` (of `WriterHistory`): no `assert` of the cache fails and `check_whc` holds.
  `SeqAdminExact`: interval tree, open interval, cached maximum and hash agree,
  and so do the queries made from them. `IndexExact`: rings and nodes point at
  each other, in order of age. `UnackedBytesExact`: the byte count is that of
  exactly the samples some matched reader has yet to acknowledge.
  `ImplementsHistoryCache`: refinement of `HistoryCache`.
- `TreeExact`, `IntervalsBacked`: intervals are disjoint, not adjacent, counted,
  and stand only for samples they hold or that were declared gone.
  `NackmapExact`: an AckNack asks for missing samples only, and always for the
  one that holds up delivery. `PreferLowest`: eviction gives up a sample only
  for earlier ones. `ImplementsInOrderDelivery`: refinement.
- `SummaryExact`: the summary at the root is what a walk over the readers gives.
  `NobodyReturnsBelow`: a reader that joins, or counts again after it was given up
  on or while it is being deleted, starts no lower than what was dropped from the
  cache. `HeartbeatAsserts`: the assertions of `writer_hbcontrol_create_heartbeat`,
  whoever calls it and whatever is in the cache, but for one exception named below.
  `HeartbeatReachesUnacked`: when all readers are reliable and a heartbeat goes to
  one of them only, nobody else has anything to acknowledge or to answer.
- `NothingLost`, `AckedIsDelivered`, `OnlyGoneIsDeclared`, `PositionsBacked`,
  `CacheEndsAtSeq`, `ReliableDelivery`: see section 4.
- `EventuallyDelivered`: every sample gets to each reader that stays matched and
  is not given up on, unless a keep-last cache overwrites it.
- `DefragExact`: the asserts and cached fields of the defragmenter.
  `FragmentsAddUp`: it agrees with sets of bytes, for every run of fragments that
  may come next, whatever it overlaps: no byte is lost that was there, none is
  counted that has not come, a sample comes out only when it is whole, and each
  run makes progress. All of the run is taken, unless it reaches over both ends of
  an interval (see the disagreements). `EarlierSamplesKept`: at the limit, progress on earlier samples is
  never given up for later ones. `NackFragExact`: exactly the missing fragments
  are asked for.
- `AcknowledgedIsQueued`: what a transient-local reader acknowledges was put in
  the delivery queue for it, over the switch between buffers.
  `EventuallyQueued`: it gets every sample.
- `NofSamplesExact`, `HandledAsEnqueued` (order, and the reader it was meant
  for), `EventuallyHandled`.
- `AssertsHold` (of `WriterLifecycle`): the state only advances and no write is
  blocked when the writer is freed; `FreedUnused`: no thread uses a freed writer;
  both but for one exception named below. `EventuallyFreed`.

### Bounds

`MAX_SEQ_NUMBER` bounds the numbers (one less is usable; it doubles as the value
that marks a reader as having acknowledged everything, as in the code). Three
numbers give a missing sample between two others; four give a keep-last ring of
depth two that wraps with an acknowledged and an unacknowledged sample of the
same instance in it; five, in the reorder buffer, give three intervals and a
join of all of them. `MaxMsgs` bounds the messages in the network at one time,
not how many are sent: since a message stays until it is lost it may be
arbitrarily old, and each may be received again. With one message at a time
liveness with rediscovery can be checked on three samples, which the case of a
Gap in the middle needs. Overtaking, and readers that share a cache, are covered
by the proofs of section 4, which have none of these bounds.

In `acktree` four readers are as few as step 3c of `augment_wr_prd_match` needs to
name a best-effort reader; with two samples a reader can be at the
newest, behind it or at nothing.

In `proxy_writer` two samples compete for one place in the defragmenter, six
fragments, the last one shorter, give three intervals that are apart, so a run can
close one gap, extend an interval downwards, or reach over one or two of them, and
three samples give a late joiner with a sample on each side of its switch. Five
elements in `dqueue` are a bubble with its samples, another chain and the order
to stop. In `writer_lifecycle` `VtimeRange` 8 makes virtual times wrap and is
large enough that a difference keeps its sign over the steps a thread can take
while it is waited for; the second write meets the throttling the first one
causes.

Deadlock is not checked where the model stops because the numbers run out; the
code's numbers have 63 bits. `AckTree` never stops and is checked for it.
Symmetry is used for instance keys (a sample's size depends on its kind only)
and for readers in `whc`, which checks no liveness.

### Fairness

`protocol` assumes that a packet waiting to be transmitted leaves (weak
fairness: the sending thread is not blocked by anything in the model), and
strong fairness for: a heartbeat is sent and survives, an AckNack is, a reply
with what the reader waits for is, and each is received. The code justifies the
sending half: the heartbeat event reschedules itself while anything is
unacknowledged, the AckNack event while anything is missing. The other half is
the usual assumption on a lossy network: what is sent again and again gets
through. A proxy writer is rediscovered finitely often. No fairness is assumed
of joining, leaving, writing or timing out.

`proxy_writer` assumes the same of the answers to what a reader asks for first,
and of the periodic heartbeat. An answer that can have an effect again and again
has it some time, and of the fragments that complete a sample again and again some
come when the delivery queue is not full.
`dqueue`: the delivery thread and the receive threads go on, and a thread that
wants the lock again and again gets it. `writer_lifecycle`: threads go on, a
wait in `throttle_writer` ends at its time-out, a scheduled event is handled;
nobody has to write, delete or acknowledge.

### Disagreements found

| Run | What it shows |
|---|---|
| `reorder_small_gap` | `delete_last_sample` shortens the last interval by one although a gap extended it past its last sample; the evicted number is then skipped for good |
| `whc_nonresponsive` | a reader of a transient-local writer that was given up on and answers again takes the drop level back, and the assertion that it never decreases fails |
| `proxy_writer_notify` | when the last historical sample arrives, the notification that the history is complete is put in the delivery queue ahead of that sample |
| `dqueue_wakeup` | a receive thread that waits for a full queue to drain can miss the only wake-up, which is sent without the lock, and wait on an empty queue until something else is enqueued |
| `writer_lifecycle_throttle` | a write that slept in `throttle_writer` is not waited for when the writer is freed right after it wakes up: the request is queued again without a new snapshot of virtual times, and the transmission that follows uses the freed writer |

Further disagreements that are described here and not kept as runs:

- `writer_set_state` asserts that the state advances (`q_entity.c:2861`), but
  `delete_writer_nolinger` looks the writer up without its lock, and the last
  acknowledgement may start the deletion in between: the exception `"linger
  time-out"` in `AssertsHold`. Theorem `AssertionsHold` shows it is the only one.
- A keep-all transient-local writer never stops counting acknowledged samples as
  unacknowledged (`q_whc.c:577` returns at once): it throttles on every write
  once over its mark, and always lingers. `UnackedBytesExact` states what the
  code does, not what the field's comment says.
- Keep-last history with a keep-all durability service deletes samples
  (`q_whc.c:836`), against the comment "we can never ever delete anything"
  (`q_whc.c:579`).
- With best-effort readers in a tree of four the only heartbeat can go to a
  best-effort reader while another lags (case 3c, `q_entity.c:2364`).
  `HeartbeatReachesUnacked` is therefore stated for reliable readers.
- `writer_hbcontrol_create_heartbeat` asserts that an unacknowledged reader is known
  (`q_transmit.c:193`), but an AckNack that comes after the first step of a proxy
  reader's deletion makes the reader count again (`q_receive.c:866`). If nothing has
  been written it is at 0, with its heartbeat answered: it does not count as
  settled, since nobody does at 0, nor is it a candidate, and the assertion can
  fail. That is the exception `Revived` in `HeartbeatAsserts`. Theorem `HeartbeatAssertionsHold` shows it is
  the only one.
- "Partial and complete overlap of fragments is acceptable" (`q_radmin.c:829`), but a
  message that reaches over both ends of an interval loses what it brings beyond it:
  `node->maxp1 = succ_maxp1` (`q_radmin.c:1030`) shortens the interval, after which the
  condition under which "it may even allow merging with succ-succ" (line 1034)
  is never true. The lost fragments are asked for again, so the sample comes out
  in the end (`EventuallyQueued`); `FragmentsAddUp` names the case (`Swallows`). This
  code's own writer puts one fragment in a message (`q_transmit.c:508`) and does not
  cause it.
- A Gap sets a reader in sync by the end of the Gap (`q_receive.c:1681`), not by
  what the reader has: another way to the notification of `proxy_writer_notify`.

`grow_gap_to_next_seq` is modelled with what it returns when the next sample is
not transmitted yet: one less than one might expect, which costs a round trip
but no safety (`EventuallyDelivered` and `OnlyGoneIsDeclared` hold with it).

## 4. What is proved

### The protocol

`ReliableProtocolProofs` proves for `ReliableProtocol`, for every set of readers,
every bound on numbers and messages, with and without rediscovery, from
`ProtocolAssumption` alone (at least one usable number, natural bounds):

| Theorem | Property |
|---|---|
| `TypeCorrect` | `TypeOK` |
| `NothingIsLost` | `NothingLost`: what a reader has a claim on is in the cache, delivered to it or obsolete |
| `AcksAreTrue` | `AckedIsDelivered`: what the writer takes as acknowledged was delivered |
| `DeclarationsAreTrue` | `OnlyGoneIsDeclared`: no message and no stored gap, however old, covers a sample the writer has |
| `PositionsAreBacked` | `PositionsBacked`: the position of a reader, or of an AckNack on its way, covers only what was delivered or is gone |
| `CacheEnds` | `CacheEndsAtSeq`: a cache that is not empty ends at the newest sample |
| `Reliable` | `ReliableDelivery`: no reader passes a sample it has a claim on without its delivery |

The inductive invariant `IInv` is the conjunction of the first six. None is
inductive alone. Dropping a sample is safe only if acknowledgements are true;
they come from AckNacks, possibly of an earlier life of the proxy writer, so the
position in every message on its way must be backed by deliveries
(`PositionsBacked`); a position may also rest on numbers the writer declared
gone, so every declaration, in a message or waiting in a reorder
administration, must be true and stay true (`OnlyGoneIsDeclared`): gone is for
ever, since a number never re-enters the cache. A reader given up on restarts at
the newest sample, which loses nothing only because the cache ends there
(`CacheEndsAtSeq`). `Reliable` follows: what a reader passed was delivered or is
gone, and what is gone but claimed was delivered, by `NothingLost`.

The proof has one lemma per action (`WriteStep`, `TransmitStep`, `AckNackStep`,
...), lemmas on the pieces of `handle_AckNack` (`ReplyTrue`: retransmits and Gaps
tell the truth; `AdvanceTrue`, `AckTrimSafe`, `ResponsiveAgain`), one on the
reorder administration (`ReorderStep`) and one on the network (`NetworkTrue`:
true messages stay true when some are lost and true ones added).

### Deletion of a writer

`WriterLifecycleProofs` proves `TypeCorrect`, `AssertionsHold` (`AssertsHold`) and
`FreeIsSafe` (`FreedUnused`) for any set of receive threads, any even range of
virtual times, any water marks and any number of operations, from
`ThreadAssumption`, `VtimeAssumption` and `MarksAssumption`. `FreedUnused` says
nothing of how the collector knows, so it is not inductive. `LInv` adds: who can
be where (`Places`); how the state of the writer, the two hash tables and the
threads that change them go together (`Phases`), so that nobody gets a pointer
to a writer that is being deleted; when there is a request (`Requests`); and
`WaitedFor`: every thread with a pointer is in the request's snapshot with the
virtual time it has *now*, or is the write that slept. A thread with a pointer
does not change its virtual time, so the check cannot remove it; that needs only
that a virtual time is not after itself (`NotAfterItself`), whatever the range.
There is one lemma per action.

### The delivery queue

`DQueueProofs` proves `TypeCorrect`, `CounterExact` (`NofSamplesExact`) and
`HandedOverInOrder` (`HandledAsEnqueued`) for any number of receive threads and
readers, any limit and any number of elements, from `DQueueAssumption` and
`NamesAssumption`. `CounterExact` needs only that the thread has finished a chain
when it takes the next one (`CInv`). The order needs `DInv`. The samples on their
way (in hand, in the chain taken, in the queue) are those enqueued and not
handled, once each and in order (`Numbered`). Whom a sample is for is not in the
sample: the thread learns it from the bubble that precedes it and counts down.
So what the thread counts must be the samples at the front, a bubble must be
followed by as many samples as it says, and no other sample may be for one
reader (`Addressed`); the lock makes that so, since a bubble and its samples are
put in the queue together. Nothing follows the order to stop (`Thread`). Lemmas
say what taking an element off the front and appending a chain do to these.

### The defragmenter and the proxy writer

`DefragProofs` has the lemmas about the operators of `Defrag`; those about the
matched readers and their buffers are the first part of `ProxyWriterProofs`. That
module proves, for any readers, any number and sizes of samples and fragments, any limit on
incomplete samples, reliable or not, from `ProxyWriterAssumption`:

| Theorem | Property |
|---|---|
| `TypeCorrect` | `TypeOK` |
| `AckSound` | `AcknowledgedIsQueued` |
| `DefragCorrect` | `DefragExact` |
| `DefragAddsUp` | `FragmentsAddUp` |
| `EarlierFirst` | `EarlierSamplesKept` |
| `NackFragsRight` | `NackFragExact` |

For the defragmenter, the invariant `DefragOK` says that the intervals of an
incomplete sample are apart from each other, that the first starts at byte 0,
that `lastfrag`, `max_sample` and `n_samples` are what they cache, and that
every interval begins and ends where a fragment may (`Boundary`). What arrives is a run of fragments (`IsFragments`).
`defrag_try_merge_with_succ` lets an interval absorb the next one by taking over
its end. That never loses a byte that was there, since the next one ends beyond
where the interval ended before; it loses a byte that arrived only if the next one
has both its ends inside the run. `Brings` says this of each way a run may go, with
`NoneInside` for its exact part. By `Boundary` a single fragment is either in an
interval or apart from it, and so always taken whole. `NackFragsRight`
translates from bytes to fragments and back; the arithmetic of multiples is kept
in a few lemmas (`Multiples`, `FirstIndex`, `LastIndex`, `GapIndex`).

For the readers, `AcknowledgedIsQueued` speaks of the buffer a reader
acknowledges from, and is not inductive because that changes. `PInv` adds
`Caught`: for a reader that is out of sync, what its own buffer passed and what
the shared one passed *since it was matched* are both in the queue for it or
gone, and when the one reaches the other there is nothing in between. A gap
that a buffer holds is a sample the writer does not have, so passing it loses
nothing. Best-effort writers are exempt, as in the property.

### The reorder administration

`ReorderBufferProofs` and `ReorderProofs` prove for `Reorder`, for any number of
samples, any limit on what is stored and all modes, from `ReorderAssumption`:

| Theorem | Property |
|---|---|
| `TypeCorrect` | `TypeOK` |
| `TreeIsExact` | `TreeExact` |
| `NackmapIsExact` | `NackmapExact` |
| `LowestPreferred` | `PreferLowest` |
| `AllBacked` | `Sized => IntervalsBacked` |
| `DeliversInOrder` | `Sized =>` refinement of `InOrderDelivery` |

The first four hold without further conditions. Their invariant is `RInv`, which
is `BufferOK` of the buffer: `TreeExact`, with two things added that the code
relies on. Only in normal mode is anything stored. And in a chain there is room
for what follows a sample: if a sample is `k` places before the end of its chain,
it is more than `k` numbers before the end of its interval (`ChainOK`).
`TreeExact` alone says only that an interval has as many numbers as elements;
`delete_last_sample` takes an element and a number from the end, and the samples
that stay must then still lie in the interval. The count of elements is the
cardinality of a set of places. What replacing some intervals by another does to
it (`Replaced`), and that a limit on it limits the chains, follows from an
injection of places into numbers (`CountWithin`). There is a lemma for each way a
sample or a gap may go (`DeliverSampleOK`, `AppendSampleOK`, `InsertSampleOK`,
`GapAloneOK`, `GapJoinsOK`), one for eviction (`EvictOK`) and one for the chain
that is made of several (`ChainedIvs`).

The last two need that eviction and gaps do not meet: `Sized` says that a buffer
has room for all samples, or that the gaps it gets start at 1, as those from a
heartbeat do. That condition is not a convenience: without it they are false,
which is what `reorder_small_gap` shows. `BInv` adds that an interval's numbers are in
its chain or declared, and that in a buffer that may evict the chains consist of
consecutive samples (`Tight`), so that a number taken from the end is the sample
that is evicted. A gap that starts at 1 always reaches `next_seq`, hence is never
stored, and what it joins is returned at once.

### The tree of matched readers

`AckTreeProofs` proves, from `AckTreeAssumption` and for any
populations (so any number of readers, reliable and best effort in any mixture)
and every shape the tree takes: `TypeOK` (`TypeCorrect`), `SummaryExact`
(`SummaryIsExact`), `NobodyReturnsBelow` (`ReturnsAboveDropped`), `HeartbeatAsserts`
(`HeartbeatAssertionsHold`) and `HeartbeatReachesUnacked` (`DirectedHeartbeat`), with
late AckNacks of readers that are being deleted.

The argument is an induction over the subtrees. A subtree is a finite set of
readers, and `SubsetInduction` takes the place of induction over trees: were
there a counterexample there would be one of least cardinality. The recursive
function `Summary` is first shown to exist, by building it for the sets of up to
n readers (`SummaryUnfold`). Then `Walk` says what the summary of a subtree is in
terms of its readers, `Candidate` that a subtree without a candidate has only
settled reliable readers, and `OnlyOneLags` that with a single lagging reader no
subtree names another. None of this needs the tree to be balanced.

`Candidate` is not true of arbitrary matches: a child whose maximum is 0 is
passed over in step 3c, so a reliable reader that acknowledged nothing must not
have answered. The inductive invariant `AInv` is therefore the type invariant,
finiteness, and for each reader (`ReaderOK`): a best-effort reader is at the
largest number, and unless it is being deleted a reliable one that acknowledged
nothing has not answered a heartbeat, and one that was given up on means that
something was written. The last is what brings a reader back at a number above 0;
a reader that is being deleted may come back at 0, which is the exception in
`HeartbeatAsserts`. `NobodyReturnsBelow` rests on where a reader starts: at the
newest sample when it joins a volatile writer, and at the oldest sample the cache
still has when it counts again.

### What is not proved

Model-checked only: liveness (outside the prover's reach, as is `ENABLED`), and
`WriterHistory` with the refinement of `HistoryCache`, where pruning the cache
and its rings is a fold over the samples. What such an operator computes for every
input has to be shown by induction over data, for which the library's theorems
cannot be instantiated; the proofs above avoid them by minimal counterexamples,
which for several nested folds over a record of eight fields was not attempted.

## 5. Not modelled

Left out for good: parameter lists, QoS matching, address sets, transports,
configuration, serialisation (data handling or input and output); layout of
packets. Outside this development: the kernel, `spliced`, durability, the user
layer, the language bindings and the tools, each a system of its own and most of
the repository's code.

Within DDSI: leases (the race between renewal and expiry depends on clock
readings; both outcomes are events the other models allow); the heap of timed
events and the accounting of the retransmit queue; adaptive heartbeat and AckNack
intervals; discovery, except that peers appear, vanish and reappear; deletion of
proxy readers and proxy writers by the garbage collector; the writer's answer to
a NackFrag; reference counts of receive buffers; coherent sets.

What would come next: deletion of an event against its running handler; the
deletion of proxy entities in two steps with the collector of `WriterLifecycle`;
an abstract protocol that `ReliableProtocol` refines, with the simulation proved.
