------------------------------ MODULE AckTree ------------------------------
(***************************************************************************)
(* The matched readers of a reliable writer, wr->readers: an AVL tree of   *)
(* wr_prd_match whose nodes are augmented with a summary of their subtree. *)
(* The summary at the root decides what the history cache may drop and to  *)
(* whom a heartbeat goes: to all, or to the only reader that lags.         *)
(*                                                                         *)
(*   seq    wr->seq                                                        *)
(*   newest the last sample put in the history cache (volatile, keep all), *)
(*          0 if none was                                                  *)
(*   match  reader -> wr_prd_match; a reader's number is its GUID          *)
(*   qos    the remote readers there may be: reader -> whether it is       *)
(*          reliable, which does not change                                *)
(*   tree   the shape of the AVL tree: reader -> the depth of its node.    *)
(*          The readers of a subtree are consecutive, and its root is the  *)
(*          one of least depth.  An insertion or deletion may rebalance    *)
(*          the tree into any AVL tree of the readers.                     *)
(*                                                                         *)
(* Every change of a node is followed by ut_avlAugmentUpdate, which        *)
(* recomputes the node and those above it, so the summaries are always a   *)
(* function of match and tree.                                             *)
(***************************************************************************)
EXTENDS Integers, FiniteSets, FiniteSetsExt, Functions

CONSTANTS
  Populations,     \* the values of qos considered
  MAX_SEQ_NUMBER   \* os_int64 maximum; writing stops short of it

ASSUME AckTreeAssumption ==
  /\ \A p \in Populations : DOMAIN p \subseteq Nat \ {0} /\ Range(p) \subseteq BOOLEAN
  /\ MAX_SEQ_NUMBER \in Nat \ {0, 1}

VARIABLES seq, newest, match, tree, qos

vars == <<seq, newest, match, tree, qos>>

Reader == UNION {DOMAIN p : p \in Populations}

UNKNOWN == 0

Left(S, n) == {m \in S : m < n}
Right(S, n) == {m \in S : m > n}

\* The root of the subtree with readers S, UNKNOWN for the null pointer.
Root(t, S) == IF S = {} THEN UNKNOWN ELSE CHOOSE n \in S : \A m \in S : t[n] <= t[m]

Subtree(t, n) ==
  {m \in DOMAIN t : \A k \in DOMAIN t : (m <= k /\ k <= n) \/ (n <= k /\ k <= m) => t[k] >= t[n]}

Height(t, S) == IF S = {} THEN 0 ELSE 1 + Max({t[m] : m \in S}) - t[Root(t, S)]

\* Depth is 0 at the root and grows by one from a node to its children.
Balanced(t, n) ==
  LET l == Left(Subtree(t, n), n)
      r == Right(Subtree(t, n), n)
  IN  /\ \A S \in {l, r} \ {{}} : t[Root(t, S)] = t[n] + 1
      /\ Height(t, l) - Height(t, r) \in -1..1

AvlTrees ==
  UNION {{t \in [S -> 0..(Cardinality(S) - 1)] : (S # {} => t[Root(t, S)] = 0) /\ \A n \in S : Balanced(t, n)} :
           S \in SUBSET Reader}

\* The variables have their types, and what a reader has acknowledged never
\* exceeds wr->seq, which handle_AckNack says the writer requires.
TypeOK ==
  /\ seq \in 0..(MAX_SEQ_NUMBER - 1)
  /\ newest \in 0..seq
  /\ qos \in Populations /\ DOMAIN match \subseteq DOMAIN qos
  /\ match \in [DOMAIN match -> [seq : 0..MAX_SEQ_NUMBER, is_reliable : BOOLEAN,
                                 has_replied_to_hb : BOOLEAN, deleting : BOOLEAN]]
  /\ \A r \in DOMAIN match : match[r].seq \in (0..seq) \cup {MAX_SEQ_NUMBER}
  /\ tree \in AvlTrees /\ DOMAIN tree = DOMAIN match

---------------------------------------------------------------------------
(* The summary of a subtree.  The candidate for a directed heartbeat is    *)
(* inherited from below, and where the node's own maximum shows that a     *)
(* child's subtree lags, it is that child.                                 *)

NoSummary == [min_seq |-> MAX_SEQ_NUMBER, max_seq |-> 0, replied |-> TRUE,
              num |-> 0, arbitrary |-> UNKNOWN]

\* Mutant: step 3c forgotten.
arbitrary_unacked_reader_No3c(n, max_seq, left, l, right, r) ==
  LET m == match[n]
  IN  IF m.seq < max_seq THEN n
      ELSE IF m.is_reliable /\ (m.seq = MAX_SEQ_NUMBER \/ ~m.has_replied_to_hb) THEN n
      ELSE IF left.arbitrary # UNKNOWN THEN left.arbitrary
      ELSE right.arbitrary

arbitrary_unacked_reader(n, max_seq, left, l, right, r) ==
  LET m == match[n]
  IN  IF m.seq < max_seq THEN n
      ELSE IF m.is_reliable /\ (m.seq = MAX_SEQ_NUMBER \/ ~m.has_replied_to_hb) THEN n
      ELSE IF left.arbitrary # UNKNOWN THEN left.arbitrary
      ELSE IF right.arbitrary # UNKNOWN THEN right.arbitrary
      ELSE IF left.max_seq # 0 /\ left.max_seq < max_seq THEN l
      ELSE IF right.max_seq # 0 /\ right.max_seq < max_seq THEN r
      ELSE UNKNOWN

\* Mutant: the children count whatever their own maximum is.
augment_wr_prd_match_CountAll(n, left, l, right, r) ==
  LET m == match[n]
      max_seq == Max({IF m.seq < MAX_SEQ_NUMBER THEN m.seq ELSE 0, left.max_seq, right.max_seq})
      own == IF m.seq = max_seq /\ m.has_replied_to_hb THEN 1 ELSE 0
  IN  [min_seq |-> Min({m.seq, left.min_seq, right.min_seq}),
       max_seq |-> max_seq,
       replied |-> m.has_replied_to_hb /\ left.replied /\ right.replied,
       num |-> IF max_seq = 0 THEN 0 ELSE own + left.num + right.num,
       arbitrary |-> arbitrary_unacked_reader(n, max_seq, left, l, right, r)]

augment_wr_prd_match(n, left, l, right, r) ==
  LET m == match[n]
      max_seq == Max({IF m.seq < MAX_SEQ_NUMBER THEN m.seq ELSE 0, left.max_seq, right.max_seq})
      own == IF m.seq = max_seq /\ m.has_replied_to_hb THEN 1 ELSE 0
      from(child) == IF child.max_seq = max_seq THEN child.num ELSE 0
  IN  [min_seq |-> Min({m.seq, left.min_seq, right.min_seq}),
       max_seq |-> max_seq,
       replied |-> m.has_replied_to_hb /\ left.replied /\ right.replied,
       num |-> IF max_seq = 0 THEN 0 ELSE own + from(left) + from(right),
       arbitrary |-> arbitrary_unacked_reader(n, max_seq, left, l, right, r)]

\* The summary at the root of the subtree with readers S.  The inner set binds
\* the children's summaries so that each is computed once.
Summary[S \in SUBSET DOMAIN match] ==
  IF S = {} THEN NoSummary
  ELSE LET n == Root(tree, S)
           l == Left(S, n)
           r == Right(S, n)
       IN  CHOOSE s \in {augment_wr_prd_match(n, c[1], Root(tree, l), c[2], Root(tree, r)) :
                           c \in {<<Summary[l], Summary[r]>>}} : TRUE

root == Summary[DOMAIN match]

---------------------------------------------------------------------------
(* What the writer uses it for. *)

writer_max_drop_seq == IF root.min_seq = MAX_SEQ_NUMBER THEN seq ELSE root.min_seq

have_reliable_subs == root.min_seq # MAX_SEQ_NUMBER

\* Every change of the summary is followed by remove_acked_messages.
whc_empty == newest <= writer_max_drop_seq
oldest_seq == IF whc_empty THEN seq ELSE newest

num_reliable_readers == Cardinality({r \in DOMAIN match : match[r].is_reliable})
n_unacked == num_reliable_readers - root.num

\* Mutant: the other unacknowledged readers are forgotten.
writer_hbcontrol_create_heartbeat_AnyUnacked ==
  IF num_reliable_readers = 0 \/ seq # root.max_seq \/ n_unacked = 0
  THEN UNKNOWN
  ELSE root.arbitrary

\* The destination of a heartbeat: one reader, or UNKNOWN for multicast.
writer_hbcontrol_create_heartbeat ==
  IF num_reliable_readers = 0 \/ seq # root.max_seq \/ n_unacked # 1
  THEN UNKNOWN
  ELSE root.arbitrary

---------------------------------------------------------------------------
Init == seq = 0 /\ newest = 0 /\ match = << >> /\ tree = << >> /\ qos \in Populations

write_sample ==
  /\ seq + 1 < MAX_SEQ_NUMBER
  /\ seq' = seq + 1
  /\ newest' = IF have_reliable_subs THEN seq + 1 ELSE newest
  /\ UNCHANGED <<match, tree, qos>>

writer_add_connection(r, deleting) ==
  LET is_reliable == qos[r]
      m == [seq |-> IF deleting \/ ~is_reliable THEN MAX_SEQ_NUMBER ELSE seq,
            is_reliable |-> is_reliable, has_replied_to_hb |-> ~is_reliable,
            deleting |-> deleting]
  IN  /\ r \notin DOMAIN match
      /\ match' = [x \in DOMAIN match \cup {r} |-> IF x = r THEN m ELSE match[x]]
      /\ tree' \in {t \in AvlTrees : DOMAIN t = DOMAIN match'}
      /\ UNCHANGED <<seq, newest, qos>>

writer_drop_connection(r) ==
  /\ match' = Restrict(match, DOMAIN match \ {r})
  /\ tree' \in {t \in AvlTrees : DOMAIN t = DOMAIN match'}
  /\ UNCHANGED <<seq, newest, qos>>

proxy_reader_set_delete_and_ack_all_messages(r) ==
  /\ ~match[r].deleting
  /\ match' = [match EXCEPT ![r].deleting = TRUE, ![r].seq = MAX_SEQ_NUMBER]
  /\ UNCHANGED <<seq, newest, tree, qos>>

\* A writer that waited too long marks the lagging readers non-responsive.
throttle_helper ==
  /\ \E r \in DOMAIN match : match[r].seq < seq
  /\ match' = [r \in DOMAIN match |->
                 IF match[r].seq < seq
                 THEN [match[r] EXCEPT !.seq = MAX_SEQ_NUMBER, !.has_replied_to_hb = FALSE]
                 ELSE match[r]]
  /\ UNCHANGED <<seq, newest, tree, qos>>

\* Mutant: the base of the bitmap, the first number not acknowledged, is
\* taken for an acknowledged one.
handle_AckNack_OffByOne(r, seqbase, is_pure_ack, hb) ==
  LET m == match[r]
      nonhist == is_pure_ack /\ seqbase - 1 >= m.seq
      back == m.seq = MAX_SEQ_NUMBER
      s == Max({seqbase, IF back THEN oldest_seq ELSE m.seq})
  IN  /\ m.is_reliable
      /\ match' = [match EXCEPT
                     ![r].seq = s,
                     ![r].has_replied_to_hb = @ \/ back \/ (seqbase > 1 /\ nonhist)]
      /\ UNCHANGED <<seq, newest, tree, qos>>

\* Mutant: a reader that is back starts where its AckNack says.
handle_AckNack_Lowered(r, seqbase, is_pure_ack, hb) ==
  LET m == match[r]
      nonhist == is_pure_ack /\ seqbase - 1 >= m.seq
      back == m.seq = MAX_SEQ_NUMBER
      s == Max({seqbase - 1, IF back THEN 0 ELSE m.seq})
  IN  /\ m.is_reliable
      /\ match' = [match EXCEPT
                     ![r].seq = Min({s, seq}),
                     ![r].has_replied_to_hb = @ \/ back \/ (seqbase > 1 /\ nonhist)]
      /\ seq' = IF hb /\ seq = 0 THEN 1 ELSE seq
      /\ UNCHANGED <<newest, tree, qos>>

\* What an AckNack does to the match.  is_pure_ack: it asks for nothing.
\* hb: a heartbeat is sent in response, for which a writer that has not
\* written anything consumes its first sequence number.  Nothing tells a
\* reader that is being deleted, and whose AckNack comes late, from one that
\* was given up on: the match counts again until it is dropped.
handle_AckNack(r, seqbase, is_pure_ack, hb) ==
  LET m == match[r]
      nonhist == is_pure_ack /\ seqbase - 1 >= m.seq
      back == m.seq = MAX_SEQ_NUMBER
      s == Max({seqbase - 1, IF back THEN oldest_seq ELSE m.seq})
  IN  /\ m.is_reliable
      /\ match' = [match EXCEPT
                     ![r].seq = Min({s, seq}),
                     ![r].has_replied_to_hb = @ \/ back \/ (seqbase > 1 /\ nonhist)]
      /\ seq' = IF hb /\ seq = 0 THEN 1 ELSE seq
      /\ UNCHANGED <<newest, tree, qos>>

\* A reader acknowledges at most what the writer has written.
AckNack ==
  \E r \in DOMAIN match, seqbase \in 1..(seq + 1), is_pure_ack \in BOOLEAN, hb \in {FALSE, seq = 0} :
    handle_AckNack(r, seqbase, is_pure_ack, hb)

Next ==
  \/ write_sample
  \/ \E r \in DOMAIN qos, deleting \in BOOLEAN : writer_add_connection(r, deleting)
  \/ \E r \in DOMAIN match : writer_drop_connection(r)
  \/ \E r \in DOMAIN match : proxy_reader_set_delete_and_ack_all_messages(r)
  \/ throttle_helper
  \/ AckNack

Spec == Init /\ [][Next]_vars

---------------------------------------------------------------------------
(* The summary at the root says what a walk over all readers would say:    *)
(* the lowest acknowledged number (which the history cache drops up to),   *)
(* the highest one short of the demoted, how many readers are there having *)
(* answered a heartbeat, and whether all have answered one.                *)
SummaryExact ==
  LET readers == DOMAIN match
      active == {r \in readers : match[r].seq < MAX_SEQ_NUMBER}
      top == Max({0} \cup {match[r].seq : r \in active})
  IN  /\ root.min_seq = Min({MAX_SEQ_NUMBER} \cup {match[r].seq : r \in readers})
      /\ root.max_seq = top
      /\ root.replied = \A r \in readers : match[r].has_replied_to_hb
      /\ top > 0 => root.num = Cardinality({r \in active : match[r].seq = top
                                                          /\ match[r].has_replied_to_hb})

\* A reader that joins, or counts again after it was given up on or while it
\* is being deleted, starts no lower than what remove_acked_messages has
\* dropped from the cache already, so it never waits for a sample that is gone.
NobodyReturnsBelow ==
  [][\A r \in DOMAIN match' :
       /\ match'[r].seq < MAX_SEQ_NUMBER
       /\ r \notin DOMAIN match \/ match[r].seq = MAX_SEQ_NUMBER
       => match'[r].seq >= writer_max_drop_seq]_vars

Unacked(r) ==
  /\ match[r].is_reliable
  /\ match[r].seq # seq \/ ~match[r].has_replied_to_hb

\* A reader that is being deleted, and whose late AckNack made it count again
\* before the writer had written anything.
Revived(r) ==
  /\ match[r].is_reliable /\ match[r].deleting
  /\ match[r].seq = 0 /\ match[r].has_replied_to_hb

\* The assertions of writer_hbcontrol_create_heartbeat, whoever calls it:
\* n_unacked is not negative, and when it is positive some unacknowledged
\* reader is known.  The second has one exception: a reader revived at 0 is
\* not counted in n_unacked's second term (nobody is while max_seq is 0), but
\* has answered and so is no candidate, and step 3c passes over a child at 0.
HeartbeatAsserts ==
  (num_reliable_readers > 0 /\ seq = root.max_seq) =>
    /\ n_unacked >= 0
    /\ n_unacked > 0 => root.arbitrary # UNKNOWN \/ \E r \in DOMAIN match : Revived(r)

\* While no best-effort reader is matched, a heartbeat that goes to a single
\* reader goes to the only one that has something to acknowledge or an answer
\* to give.
HeartbeatReachesUnacked ==
  (\A r \in DOMAIN match : match[r].is_reliable) =>
    \A r \in DOMAIN match : Unacked(r) => writer_hbcontrol_create_heartbeat \in {UNKNOWN, r}
=============================================================================
