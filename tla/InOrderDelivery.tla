-------------------------- MODULE InOrderDelivery --------------------------
(***************************************************************************)
(* What a reorder buffer promises the readers behind it, whatever its data *)
(* structure: samples come out in sequence number order, each at most      *)
(* once, and in the reliable mode a sequence number is only passed over    *)
(* when the writer declared it unavailable.                                *)
(***************************************************************************)
EXTENDS Naturals, Sequences

VARIABLES
  next_seq,   \* everything below has been dealt with
  delivered,  \* what is handed to the readers, in order; 0 is no sample
  declared,   \* the sequence numbers the writer said are unavailable
  promise     \* "reliable", "ordered" (samples may be missed) or "none"

Init == next_seq = 1 /\ delivered = << >> /\ declared = {}

\* What is handed over when delivered is extended.
New == (DOMAIN delivered') \ (DOMAIN delivered)

Deliver ==
  /\ delivered = SubSeq(delivered', 1, Len(delivered))
  /\ \A x \in New : delivered'[x] # 0 =>
       /\ delivered'[x] \in next_seq..(next_seq' - 1)
       /\ \A y \in New : x < y /\ delivered'[y] # 0 => delivered'[x] < delivered'[y]
  /\ promise = "reliable" =>
       \A s \in next_seq..(next_seq' - 1) : s \in declared' \/ \E x \in New : delivered'[x] = s

Next ==
  /\ promise' = promise
  /\ declared \subseteq declared'
  /\ promise # "none" => next_seq' >= next_seq /\ Deliver

Spec == Init /\ [][Next]_<<next_seq, delivered, declared, promise>>
=============================================================================
