--------------------------- MODULE MCProxyWriter ---------------------------
(***************************************************************************)
(* Instances of ProxyWriter: a best-effort volatile reader and a reliable  *)
(* transient-local one, who come and go.                                   *)
(***************************************************************************)
EXTENDS ProxyWriter

CONSTANTS r0, r1

MCReader == {r0, r1}
MCTLReader == {r1}

Whole == [size |-> 2, fragsize |-> 2]
TwoFragments == [size |-> 3, fragsize |-> 2]
SixFragments == [size |-> 11, fragsize |-> 2]

Setup(reliable, max_seq, overwritten, max_samples, info) ==
  [reliable |-> reliable, max_seq |-> max_seq, overwritten |-> overwritten,
   max_samples |-> max_samples, info |-> info]

\* Late joiners and samples that disappear; fragments competing for one or two
\* places; fragments in every order and several at a time; and best effort.
AllSetups ==
  {Setup(TRUE, 3, {1, 2}, 1, Whole), Setup(TRUE, 2, {1}, 1, TwoFragments),
   Setup(TRUE, 2, {}, 2, TwoFragments), Setup(TRUE, 1, {}, 1, SixFragments),
   Setup(FALSE, 3, {}, 2, TwoFragments)}
=============================================================================
