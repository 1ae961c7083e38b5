------------------------- MODULE MCReliableProtocol -------------------------
(* A small instance of ReliableProtocol: one remote reader. *)
EXTENDS ReliableProtocol

CONSTANT r1

OneReader == {r1}
=============================================================================
