------------------------- MODULE MCWriterLifecycle -------------------------
(* WriterLifecycle with two threads that handle AckNacks and virtual times    *)
(* that wrap.                                                                 *)
EXTENDS WriterLifecycle

CONSTANTS r1, r2

MCReceiver == {r1, r2}
MCMaxOps == [t \in Thread |-> IF t = W THEN 2 ELSE 1]
=============================================================================
