---------------------------- MODULE HistoryCache ----------------------------
(***************************************************************************)
(* What a writer history cache promises, whatever its data structure.      *)
(*                                                                         *)
(*   log      every sample the writer numbered: log[s].sample has sequence *)
(*            number s, log[s].stored tells whether the cache was given it *)
(*   stored   the sequence numbers now available for retransmission        *)
(*   policy   the depths of the writer history and of the transient-local  *)
(*            history                                                      *)
(*   acked    the level all matched reliable readers have acknowledged     *)
(*   dropped  the level up to which the cache has dropped samples          *)
(***************************************************************************)
EXTENDS Naturals, Sequences, FiniteSets

VARIABLES log, stored, policy, acked, dropped

Given == {s \in DOMAIN log : log[s].stored}

\* Later updates of the instance of s, and whether it was unregistered.
SameKey(s, t) == log[s].sample.key = log[t].sample.key
Unregisters(s) == {t \in Given : t > s /\ SameKey(s, t) /\ log[t].sample.kind = "unreg"}
Updates(s) == {t \in Given : /\ t > s /\ SameKey(s, t) /\ log[t].sample.kind = "write"
                             /\ \A u \in Unregisters(s) : t < u}

IsUpdate(s) == log[s].sample.kind = "write"
KeepAllTL == policy.is_transient_local /\ policy.tldepth = 0

\* Unacknowledged: needed by a matched reader, unless the writer's keep-last
\* history has moved past it.
Unacked(s) ==
  s > acked /\ (policy.hdepth = 0 \/ ~IsUpdate(s) \/ Cardinality(Updates(s)) < policy.hdepth)

\* Historical: a late joining reader is entitled to it.
Historical(s) ==
  /\ policy.is_transient_local
  /\ IF policy.tldepth = 0
     THEN policy.hdepth = 0
     ELSE IsUpdate(s) /\ Unregisters(s) = {} /\ Cardinality(Updates(s)) < policy.tldepth

Required == {s \in Given : Unacked(s) \/ Historical(s)}

\* An acknowledged sample is only kept on account of a history that still
\* contains it.
Depth == IF policy.hdepth > policy.tldepth THEN policy.hdepth ELSE policy.tldepth
Allowed ==
  {s \in Given : \/ s > dropped
                 \/ KeepAllTL
                 \/ /\ policy.tldepth > 0 /\ IsUpdate(s)
                    /\ Unregisters(s) = {} /\ Cardinality(Updates(s)) < Depth}

Bounds == Required \subseteq stored /\ stored \subseteq Allowed

Init == log = << >> /\ stored = {} /\ acked = 0 /\ dropped = 0

\* Only the sample written last enters; the levels never go back.
Next ==
  /\ \/ log' = log
     \/ \E x \in {log'[Len(log')]} : log' = Append(log, x)
  /\ stored' \subseteq stored \cup (DOMAIN log' \ DOMAIN log)
  /\ acked' >= acked /\ dropped' >= dropped
  /\ Bounds'

Spec == Init /\ [][Next]_<<log, stored, policy, acked, dropped>>
=============================================================================
