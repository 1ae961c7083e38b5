----------------------------- MODULE MCAckTree -----------------------------
(* Instances of AckTree: an AVL tree of three readers is complete, one of  *)
(* four has a node with a child on one side only.  Of four readers, any    *)
(* may be best effort.                                                     *)
EXTENDS AckTree

FourReaders == [1..4 -> BOOLEAN]
=============================================================================
