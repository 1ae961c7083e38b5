------------------------------ MODULE MCDQueue ------------------------------
(* Two receive threads and one reader that samples may be for. *)
EXTENDS DQueue
CONSTANTS t1, t2, r1
MCReceiver == {t1, t2}
MCReader == {r1}
=============================================================================
