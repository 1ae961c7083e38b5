----------------------------- MODULE MCReorder -----------------------------
(* The reorder buffer on small instances. *)
EXTENDS Reorder

Buffer(mode, max_samples, late) ==
  [mode |-> mode, max_samples |-> max_samples, late_ack_mode |-> late]

\* Buffers that never fill up, in each mode.
AmpleBuffers ==
  {Buffer(m, MaxSeq, FALSE) : m \in {"NORMAL", "MONOTONICALLY_INCREASING", "ALWAYS_DELIVER"}}

\* Reliable buffers at their limit.
SmallBuffers == {Buffer("NORMAL", n, late) : n \in 0..2, late \in BOOLEAN}
AnyBuffers == AmpleBuffers \cup SmallBuffers
TwoSampleBuffer == {Buffer("NORMAL", 2, FALSE)}

\* Gaps as in Gap messages, anywhere; or as in Heartbeats, from 1, if the
\* buffer may fill up.
Anywhere(n) == 1..MaxSeq
FromOneIfSmall(n) == IF n < MaxSeq THEN {1} ELSE 1..MaxSeq
=============================================================================
