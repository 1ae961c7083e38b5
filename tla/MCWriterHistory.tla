-------------------------- MODULE MCWriterHistory --------------------------
(* Writer history on small instances. *)
EXTENDS WriterHistory, TLC

CONSTANTS k1, k2, r1, r2
MCKey == {k1, k2}
TwoReaders == {r1, r2}
ReaderSymmetry == Permutations(TwoReaders)
KeySymmetry == Permutations(MCKey)
Symmetry == ReaderSymmetry \cup KeySymmetry
MCSize == [k \in Kinds |-> IF k = "write" THEN 2 ELSE 1]

\* A volatile writer has up to two readers and late acknowledgements, any
\* other one reader; n samples.
Config(tl, startup, h, t, low, high, n) ==
  [is_transient_local |-> tl, startup_mode |-> startup, hdepth |-> h, tldepth |-> t,
   whc_low |-> low, whc_high |-> high,
   max_readers |-> IF tl \/ startup THEN 1 ELSE 2, max_seq |-> n,
   late_acks |-> ~(tl \/ startup)]
KeepLast(tl, startup, h, t, n) == Config(tl, startup, h, t, Unlimited, Unlimited, n)

\* Volatile writers, keep-last, and keep-all with throttling; transient-local
\* writers, not throttled, with the depths of the two histories in every
\* order; and writers that start up.
AllConfigs ==
  {KeepLast(FALSE, FALSE, 1, 0, 3), Config(FALSE, FALSE, 0, 0, 0, 2, 3)}
    \cup {KeepLast(TRUE, FALSE, d[1], d[2], 4) :
             d \in {<<0, 0>>, <<0, 1>>, <<1, 0>>, <<1, 2>>, <<2, 1>>}}
    \cup {KeepLast(FALSE, TRUE, 1, 1, 3), Config(FALSE, TRUE, 0, 0, 0, 2, 3)}

\* Transient-local keep-all writers that throttle; the durability service
\* keeps the last sample of an instance.
ThrottledTransientLocalConfig == {Config(TRUE, FALSE, 0, 1, 0, 1, 6)}

=============================================================================
