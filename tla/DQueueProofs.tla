---------------------------- MODULE DQueueProofs ----------------------------
(***************************************************************************)
(* The delivery queue for any number of receive threads and readers, any   *)
(* limit and any number of elements.                                       *)
(*                                                                         *)
(* NofSamplesExact is inductive once the thread is known to have finished  *)
(* a chain when it takes the next one (CInv).  HandledAsEnqueued is about  *)
(* what has left the queue; it needs to be known of what is still in it,   *)
(* the element in hand, the chain taken and the chain in the queue put     *)
(* together (Pending), that it holds exactly the samples yet to be handed  *)
(* over, in order (Numbered), and that an RDGUID bubble stands before the  *)
(* samples of one reader and before no other (Addressed).                  *)
(***************************************************************************)
EXTENDS DQueue, SequenceTheorems, TLAPS

\* The chain in the queue and the one the thread has taken, which it has
\* finished when it takes another.
Chains ==
  /\ sc \in Seq(Elem) /\ batch \in Seq(Elem) /\ count \in Nat
  /\ enqueued \in Seq(Elem) /\ handled \in Seq(Elem)
  /\ pc \in {"top", "waiting"} => batch = << >>

CInv == Chains /\ NofSamplesExact

IsSample(e) == e.kind \in {"DATA", "GAP"}
InHand == IF elem = NoElem THEN << >> ELSE <<elem>>
Pending == InHand \o (batch \o sc)

\* The samples in P are those of E after the first h, once each and in order.
Numbered(P, h, E) ==
  /\ h <= Len(E)
  /\ \A i \in 1..Len(P) : IsSample(P[i]) => P[i].n \in (h + 1)..Len(E) /\ E[P[i].n] = P[i]
  /\ \A i, j \in 1..Len(P) : IsSample(P[i]) /\ IsSample(P[j]) /\ i < j => P[i].n < P[j].n
  /\ \A n \in (h + 1)..Len(E) : \E i \in 1..Len(P) : IsSample(P[i]) /\ P[i].n = n

\* The first c elements of P are samples for reader r; an RDGUID bubble is
\* followed by as many samples for its reader as it says; and every other
\* sample is for everyone.
Addressed(P, r, c) ==
  /\ \A i \in 1..c : i \in 1..Len(P) /\ IsSample(P[i]) /\ P[i].dst = r
  /\ \A j \in 1..Len(P) : P[j].kind = "RDGUID" =>
       /\ P[j].n > 0 /\ P[j].dst # Everyone
       /\ \A i \in (j + 1)..(j + P[j].n) : i \in 1..Len(P) /\ IsSample(P[i]) /\ P[i].dst = P[j].dst
  /\ \A i \in 1..Len(P) : IsSample(P[i]) /\ P[i].dst # Everyone =>
       i <= c \/ \E j \in 1..(i - 1) : P[j].kind = "RDGUID" /\ i <= j + P[j].n

\* What the thread has in hand and whom it is for; nothing follows the order
\* to stop.
Thread ==
  /\ elem \in Elem \cup {NoElem}
  /\ elem # NoElem <=> pc \in {"broadcast", "handle"}
  /\ rdguid \in Reader \cup {Everyone} /\ rdguid_count \in Nat
  /\ keepgoing \in BOOLEAN /\ freeing \in BOOLEAN
  /\ pc = "stopped" => ~keepgoing
  /\ ~keepgoing => freeing /\ Pending = << >>
  /\ \A i \in 1..Len(Pending) : Pending[i].kind = "STOP" => i = Len(Pending) /\ freeing

DInv ==
  /\ CInv
  /\ TypeOK
  /\ Thread
  /\ Numbered(Pending, Len(handled), enqueued)
  /\ Addressed(Pending, rdguid, rdguid_count)
  /\ \A i \in 1..Len(handled) : handled[i] = enqueued[i]

---------------------------------------------------------------------------
(* Taking an element off the front, and putting elements at the end. *)

\* The first sample that is pending is the next one to be handed over.
LEMMA NumberedFront ==
  ASSUME NEW P \in Seq(Elem), NEW h \in Nat, NEW E \in Seq(Elem), Numbered(P, h, E),
         P # << >>, IsSample(P[1])
  PROVE  P[1].n = h + 1 /\ h + 1 \in 1..Len(E) /\ E[h + 1] = P[1]
<1>1. 1 \in 1..Len(P) /\ Len(P) \in Nat /\ Len(E) \in Nat OBVIOUS
<1>2. P[1].n \in (h + 1)..Len(E) /\ E[P[1].n] = P[1] BY Zenon, <1>1 DEF Numbered
<1>3. h + 1 \in (h + 1)..Len(E) BY <1>1, <1>2
<1>4. PICK i \in 1..Len(P) : IsSample(P[i]) /\ P[i].n = h + 1 BY Zenon, <1>3 DEF Numbered
<1>5. ASSUME i # 1 PROVE FALSE
  <2>1. P[1].n < P[i].n BY <1>1, <1>4, <1>5 DEF Numbered
  <2> QED BY <1>1, <1>2, <1>4, <2>1
<1> QED BY <1>1, <1>2, <1>4, <1>5

\* Once that one is handed over, the rest is pending.
LEMMA NumberedTail ==
  ASSUME NEW P \in Seq(Elem), NEW h \in Nat, NEW E \in Seq(Elem), Numbered(P, h, E),
         P # << >>, NEW Q \in Seq(Elem), Len(Q) = Len(P) - 1,
         \A i \in 1..Len(Q) : Q[i] = P[i + 1]
  PROVE  Numbered(Q, IF IsSample(P[1]) THEN h + 1 ELSE h, E)
<1> DEFINE g == IF IsSample(P[1]) THEN h + 1 ELSE h
<1>1. 1 \in 1..Len(P) /\ Len(P) \in Nat /\ Len(Q) \in Nat /\ Len(E) \in Nat OBVIOUS
<1>2. \A i \in 1..Len(Q) : i + 1 \in 1..Len(P) BY <1>1
<1>3. g \in Nat /\ g <= Len(E) /\ h <= g
  <2>1. h <= Len(E) BY Zenon DEF Numbered
  <2>2. IsSample(P[1]) => h + 1 \in 1..Len(E) BY Zenon, NumberedFront
  <2> QED BY ONLY <1>1, <2>1, <2>2, h \in Nat
<1>4. ASSUME NEW i \in 1..Len(Q), IsSample(Q[i])
      PROVE  Q[i].n \in (g + 1)..Len(E) /\ E[Q[i].n] = Q[i]
  <2>1. /\ i + 1 \in 1..Len(P) /\ IsSample(P[i + 1]) /\ Q[i] = P[i + 1] /\ 1 < i + 1
    BY <1>1, <1>2, <1>4
  <2>2. P[i + 1].n \in (h + 1)..Len(E) /\ E[P[i + 1].n] = P[i + 1]
    BY Zenon, <2>1 DEF Numbered
  <2>3. ASSUME IsSample(P[1]) PROVE h + 1 < P[i + 1].n
    <3>1. P[1].n < P[i + 1].n BY Zenon, <1>1, <2>1, <2>3 DEF Numbered
    <3>2. P[1].n = h + 1 BY Zenon, <2>3, NumberedFront
    <3> QED BY Zenon, <3>1, <3>2
  <2> QED BY <1>1, <2>1, <2>2, <2>3
<1>5. ASSUME NEW i \in 1..Len(Q), NEW j \in 1..Len(Q), IsSample(Q[i]), IsSample(Q[j]), i < j
      PROVE  Q[i].n < Q[j].n
  <2>1. i + 1 \in 1..Len(P) /\ j + 1 \in 1..Len(P) /\ i + 1 < j + 1 BY <1>1, <1>5
  <2> QED BY Zenon, <1>5, <2>1 DEF Numbered
<1>6. ASSUME NEW n \in (g + 1)..Len(E)
      PROVE  \E i \in 1..Len(Q) : IsSample(Q[i]) /\ Q[i].n = n
  <2>1. n \in (h + 1)..Len(E) BY <1>1, <1>3
  <2>2. PICK k \in 1..Len(P) : IsSample(P[k]) /\ P[k].n = n BY Zenon, <2>1 DEF Numbered
  <2>3. ASSUME k = 1 PROVE FALSE
    <3>1. P[1].n = h + 1 /\ g = h + 1 BY Zenon, <2>2, <2>3, NumberedFront
    <3> QED BY <1>1, <2>2, <2>3, <3>1
  <2>4. k - 1 \in 1..Len(Q) /\ Q[k - 1] = P[k] BY <1>1, <2>3
  <2> QED BY Zenon, <2>2, <2>4
<1> HIDE DEF g
<1>7. Numbered(Q, g, E) BY Zenon, <1>3, <1>4, <1>5, <1>6 DEF Numbered
<1> QED BY Zenon, <1>7 DEF g

\* The first sample that is pending is for the reader of the last RDGUID
\* bubble as long as that one's count lasts, and for everyone otherwise.
LEMMA AddressedFront ==
  ASSUME NEW P \in Seq(Elem), NEW c \in Nat, NEW r, Addressed(P, r, c), P # << >>,
         c = 0 <=> r = Everyone
  PROVE  /\ IsSample(P[1]) => P[1].dst = r
         /\ ~IsSample(P[1]) => c = 0
<1>1. 1 \in 1..Len(P) OBVIOUS
<1>2. CASE c = 0
  <2>1. ASSUME IsSample(P[1]), P[1].dst # Everyone PROVE FALSE
    BY <1>1, <1>2, <2>1 DEF Addressed
  <2> QED BY Zenon, <1>2, <2>1
<1>3. CASE c # 0
  <2>1. 1 \in 1..c BY <1>3
  <2> QED BY Zenon, <2>1 DEF Addressed
<1> QED BY Zenon, <1>2, <1>3

\* A bubble or a sample is taken off, and the count follows.
LEMMA AddressedTail ==
  ASSUME NEW P \in Seq(Elem), NEW c \in Nat, NEW r, Addressed(P, r, c), P # << >>,
         c = 0 <=> r = Everyone,
         NEW Q \in Seq(Elem), Len(Q) = Len(P) - 1, \A i \in 1..Len(Q) : Q[i] = P[i + 1],
         NEW d \in Nat, NEW q,
         IsSample(P[1]) => (d = IF c > 0 THEN c - 1 ELSE 0) /\ (d > 0 => q = r),
         ~IsSample(P[1]) => IF P[1].kind = "RDGUID" THEN d = P[1].n /\ q = P[1].dst ELSE d = c
  PROVE  Addressed(Q, q, d)
<1>1. 1 \in 1..Len(P) /\ Len(P) \in Nat /\ Len(Q) \in Nat OBVIOUS
<1>2. /\ \A i \in 1..Len(Q) : i + 1 \in 1..Len(P)
      /\ \A i \in 1..Len(P) : i > 1 => i - 1 \in 1..Len(Q) /\ Q[i - 1] = P[i]
  BY <1>1
<1>3. ~IsSample(P[1]) => c = 0 BY Zenon, AddressedFront
<1>4. \A i \in 1..Len(P) : P[i].n \in Nat
  <2>1. \A e \in Elem : e.n \in Nat BY Zenon DEF Elem
  <2> QED BY <2>1
<1>5. ASSUME NEW i \in 1..d PROVE i \in 1..Len(Q) /\ IsSample(Q[i]) /\ Q[i].dst = q
  <2>1. i + 1 \in 1..Len(P) /\ IsSample(P[i + 1]) /\ P[i + 1].dst = q
    <3>1. CASE IsSample(P[1])
      <4>1. i + 1 \in 1..c /\ q = r BY <3>1
      <4> QED BY Zenon, <4>1 DEF Addressed
    <3>2. CASE ~IsSample(P[1]) /\ P[1].kind = "RDGUID"
      <4>1. i + 1 \in (1 + 1)..(1 + P[1].n) /\ q = P[1].dst BY <1>1, <1>4, <3>2
      <4> QED BY Zenon, <1>1, <3>2, <4>1 DEF Addressed
    <3>3. CASE ~IsSample(P[1]) /\ P[1].kind # "RDGUID" BY <1>3, <3>3
    <3> QED BY Zenon, <3>1, <3>2, <3>3
  <2> QED BY <1>1, <1>2, <2>1
<1>6. ASSUME NEW j \in 1..Len(Q), Q[j].kind = "RDGUID"
      PROVE  /\ Q[j].n > 0 /\ Q[j].dst # Everyone
             /\ \A i \in (j + 1)..(j + Q[j].n) : i \in 1..Len(Q) /\ IsSample(Q[i]) /\ Q[i].dst = Q[j].dst
  <2>1. j + 1 \in 1..Len(P) /\ P[j + 1].kind = "RDGUID" /\ Q[j] = P[j + 1] BY Zenon, <1>2, <1>6
  <2>2. Q[j].n > 0 /\ Q[j].dst # Everyone /\ Q[j].n \in Nat BY Zenon, <1>4, <2>1 DEF Addressed
  <2>3. ASSUME NEW i \in (j + 1)..(j + Q[j].n)
        PROVE  i \in 1..Len(Q) /\ IsSample(Q[i]) /\ Q[i].dst = Q[j].dst
    <3>1. i + 1 \in ((j + 1) + 1)..((j + 1) + P[j + 1].n) BY <1>1, <2>1, <2>2
    <3>2. i + 1 \in 1..Len(P) /\ IsSample(P[i + 1]) /\ P[i + 1].dst = P[j + 1].dst
      BY Zenon, <2>1, <3>1 DEF Addressed
    <3> QED BY <1>1, <1>2, <2>1, <2>2, <3>2
  <2> QED BY Zenon, <2>2, <2>3
<1>7. ASSUME NEW i \in 1..Len(Q), IsSample(Q[i]), Q[i].dst # Everyone
      PROVE  i <= d \/ \E j \in 1..(i - 1) : Q[j].kind = "RDGUID" /\ i <= j + Q[j].n
  <2>1. i + 1 \in 1..Len(P) /\ IsSample(P[i + 1]) /\ P[i + 1].dst # Everyone BY Zenon, <1>2, <1>7
  <2>2. CASE i + 1 <= c BY <1>3, <2>2
  <2>3. ASSUME NEW j \in 1..(i + 1 - 1), P[j].kind = "RDGUID", i + 1 <= j + P[j].n
        PROVE  i <= d \/ \E k \in 1..(i - 1) : Q[k].kind = "RDGUID" /\ i <= k + Q[k].n
    <3>1. j \in 1..Len(P) /\ P[j].n \in Nat BY <1>1, <1>4
    <3>2. CASE j = 1
      <4>1. ~IsSample(P[1]) BY Zenon, <2>3, <3>2 DEF IsSample
      <4>2. d = P[1].n BY Zenon, <2>3, <3>2, <4>1
      <4> QED BY <1>1, <2>3, <3>1, <3>2, <4>2
    <3>3. CASE j # 1
      <4>1. j - 1 \in 1..(i - 1) /\ j > 1 BY <1>1, <3>1, <3>3
      <4>2. Q[j - 1] = P[j] BY Zenon, <1>2, <3>1, <4>1
      <4>3. i <= (j - 1) + Q[j - 1].n BY <1>1, <2>3, <3>1, <4>2
      <4> QED BY Zenon, <2>3, <4>1, <4>2, <4>3
    <3> QED BY Zenon, <3>2, <3>3
  <2> QED BY <2>1, <2>2, <2>3 DEF Addressed
<1> QED BY Zenon, <1>5, <1>6, <1>7 DEF Addressed

\* What a caller of enqueue_locked passes, k samples having been enqueued
\* before: samples for everyone; a bubble; or an RDGUID bubble and the samples
\* it announces.
Package(b, s, k) ==
  /\ b \in Seq(Elem) /\ s \in Seq(Elem)
  /\ \A i \in 1..Len(b) : ~IsSample(b[i])
  /\ \A i \in 1..Len(s) : IsSample(s[i]) /\ s[i].n = k + i
  /\ \/ Len(b) = 0 /\ \A i \in 1..Len(s) : s[i].dst = Everyone
     \/ Len(b) = 1 /\ b[1].kind # "RDGUID" /\ Len(s) = 0
     \/ /\ Len(b) = 1 /\ b[1].kind = "RDGUID" /\ b[1].n = Len(s) /\ Len(s) > 0
        /\ b[1].dst # Everyone /\ \A i \in 1..Len(s) : s[i].dst = b[1].dst

\* R is P with b and then s appended.
Appended(P, b, s, R) ==
  /\ R \in Seq(Elem) /\ Len(R) = Len(P) + Len(b) + Len(s)
  /\ Len(P) \in Nat /\ Len(b) \in Nat /\ Len(s) \in Nat
  /\ \A i \in 1..Len(P) : R[i] = P[i]
  /\ \A i \in 1..Len(b) : R[Len(P) + i] = b[i]
  /\ \A i \in 1..Len(s) : R[Len(P) + Len(b) + i] = s[i]

\* Where the elements of a package are in the queue it was appended to.
LEMMA AppendedElements ==
  ASSUME NEW P \in Seq(Elem), NEW b \in Seq(Elem), NEW s \in Seq(Elem), NEW R, R = P \o (b \o s)
  PROVE  Appended(P, b, s, R)
<1>1. /\ b \o s \in Seq(Elem) /\ Len(b \o s) = Len(b) + Len(s)
      /\ \A i \in 1..(Len(b) + Len(s)) : (b \o s)[i] = IF i <= Len(b) THEN b[i] ELSE s[i - Len(b)]
  BY Zenon, ConcatProperties
<1>2. /\ R \in Seq(Elem) /\ Len(R) = Len(P) + Len(b \o s)
      /\ \A i \in 1..(Len(P) + Len(b \o s)) : R[i] = IF i <= Len(P) THEN P[i] ELSE (b \o s)[i - Len(P)]
  BY Zenon, <1>1, ConcatProperties
<1>3. Len(P) \in Nat /\ Len(b) \in Nat /\ Len(s) \in Nat OBVIOUS
<1>4. \A i \in 1..Len(P) : R[i] = P[i] BY <1>1, <1>2, <1>3
<1>5. ASSUME NEW i \in 1..Len(b) PROVE R[Len(P) + i] = b[i]
  <2>1. /\ Len(P) + i \in 1..(Len(P) + Len(b \o s)) /\ ~(Len(P) + i <= Len(P))
        /\ (Len(P) + i) - Len(P) = i /\ i \in 1..(Len(b) + Len(s)) /\ i <= Len(b)
    BY <1>1, <1>3
  <2> QED BY Zenon, <1>1, <1>2, <2>1
<1>6. ASSUME NEW i \in 1..Len(s) PROVE R[Len(P) + Len(b) + i] = s[i]
  <2> DEFINE k == Len(P) + Len(b) + i
  <2>1. /\ k \in 1..(Len(P) + Len(b \o s)) /\ ~(k <= Len(P)) /\ k - Len(P) = Len(b) + i
        /\ Len(b) + i \in 1..(Len(b) + Len(s)) /\ ~(Len(b) + i <= Len(b)) /\ (Len(b) + i) - Len(b) = i
    BY <1>1, <1>3
  <2>2. R[k] = (b \o s)[k - Len(P)] BY Zenon, <1>2, <2>1
  <2>3. (b \o s)[Len(b) + i] = s[(Len(b) + i) - Len(b)] BY Zenon, <1>1, <2>1
  <2> QED BY Zenon, <2>1, <2>2, <2>3
<1> QED BY <1>1, <1>2, <1>3, <1>4, <1>5, <1>6 DEF Appended

\* A package continues the numbers.
LEMMA NumberedAppend ==
  ASSUME NEW P \in Seq(Elem), NEW h \in Nat, NEW E \in Seq(Elem), Numbered(P, h, E),
         NEW b \in Seq(Elem), NEW s \in Seq(Elem), Package(b, s, Len(E)),
         NEW R, Appended(P, b, s, R), NEW F, Appended(E, << >>, s, F)
  PROVE  Numbered(R, h, F)
<1> PICK p \in Nat : p = Len(P) BY Zenon DEF Appended
<1> PICK q \in Nat : q = p + Len(b) BY DEF Appended
<1> PICK e \in Nat : e = Len(E) BY Zenon DEF Appended
<1> PICK m \in Nat : m = Len(s) BY Zenon DEF Appended
<1> /\ R \in Seq(Elem) /\ Len(R) = q + m /\ Len(b) \in Nat
    /\ \A i \in 1..p : R[i] = P[i]
    /\ \A i \in 1..Len(b) : R[p + i] = b[i]
    /\ \A i \in 1..m : R[q + i] = s[i]
  BY Zenon DEF Appended
<1> /\ F \in Seq(Elem) /\ Len(F) = e + m
    /\ \A i \in 1..e : F[i] = E[i]
    /\ \A i \in 1..m : F[e + i] = s[i]
  <2>1. e + Len(<< >>) = e OBVIOUS
  <2> QED BY <2>1 DEF Appended
<1>1. h <= e BY Zenon DEF Numbered
\* A sample of R is one of P or one of s.
<1>2. ASSUME NEW i \in 1..Len(R), IsSample(R[i])
      PROVE  \/ i \in 1..p /\ R[i] = P[i] /\ R[i].n \in (h + 1)..e /\ E[R[i].n] = R[i]
             \/ i - q \in 1..m /\ R[i] = s[i - q] /\ R[i].n = e + (i - q)
  <2>1. CASE i <= p
    <3>1. i \in 1..p BY <2>1
    <3>2. R[i] = P[i] BY Zenon, <3>1
    <3> QED BY <1>2, <3>1, <3>2 DEF Numbered
  <2>2. CASE p < i /\ i <= q
    <3>1. i - p \in 1..Len(b) /\ p + (i - p) = i BY <2>2
    <3>2. R[p + (i - p)] = b[i - p] BY Zenon, <3>1
    <3>3. ~IsSample(b[i - p]) BY Zenon, <3>1 DEF Package
    <3> QED BY Zenon, <1>2, <3>1, <3>2, <3>3
  <2>3. CASE q < i
    <3>1. i - q \in 1..m /\ q + (i - q) = i BY <2>3
    <3>2. s[i - q].n = e + (i - q) BY Zenon, <3>1 DEF Package
    <3> QED BY Zenon, <3>1, <3>2
  <2> QED BY <2>1, <2>2, <2>3
<1>3. ASSUME NEW i \in 1..Len(R), IsSample(R[i])
      PROVE  R[i].n \in (h + 1)..Len(F) /\ F[R[i].n] = R[i]
  <2>1. CASE i \in 1..p /\ R[i] = P[i] /\ R[i].n \in (h + 1)..e /\ E[R[i].n] = R[i]
    <3>1. R[i].n \in 1..e BY <1>1, <2>1
    <3> QED BY <1>1, <2>1, <3>1
  <2>2. CASE i - q \in 1..m /\ R[i] = s[i - q] /\ R[i].n = e + (i - q)
    <3>1. F[e + (i - q)] = s[i - q] BY Zenon, <1>1, <2>2
    <3>2. R[i].n \in (h + 1)..Len(F)
      <4>1. i \in Int /\ Len(F) = e + m OBVIOUS
      <4> QED BY ONLY <1>1, <2>2, <4>1, e \in Nat, h \in Nat, q \in Nat, m \in Nat
    <3> QED BY Zenon, <2>2, <3>1, <3>2
  <2> QED BY Zenon, <1>2, <1>3, <2>1, <2>2
<1>4. ASSUME NEW i \in 1..Len(R), NEW j \in 1..Len(R), IsSample(R[i]), IsSample(R[j]), i < j
      PROVE  R[i].n < R[j].n
  <2>0. i \in Int /\ j \in Int OBVIOUS
  <2>1. CASE i \in 1..p /\ j \in 1..p
    <3>1. R[i] = P[i] /\ R[j] = P[j] BY Zenon, <2>1
    <3> QED BY Zenon, <1>4, <2>1, <3>1 DEF Numbered
  <2>2. CASE i \in 1..p /\ j \notin 1..p
    <3>0. i - q \notin 1..m
      <4>1. p <= q OBVIOUS
      <4> QED BY ONLY <2>2, <4>1, p \in Nat, q \in Nat, m \in Nat
    <3>1. R[i].n \in (h + 1)..e BY Zenon, <1>2, <1>4, <2>2, <3>0
    <3>2. j - q \in 1..m /\ R[j].n = e + (j - q) BY Zenon, <1>2, <1>4, <2>2
    <3>3. R[i].n \in Int /\ R[i].n <= e BY ONLY <3>1, e \in Nat, h \in Nat
    <3>4. e < R[j].n BY ONLY <2>0, <3>2, e \in Nat, q \in Nat, m \in Nat
    <3> QED BY ONLY <2>0, <3>2, <3>3, <3>4, e \in Nat, q \in Nat
  <2>3. CASE i \notin 1..p
    <3>1. j \notin 1..p BY <1>4, <2>3
    <3>2. R[i].n = e + (i - q) /\ R[j].n = e + (j - q) BY Zenon, <1>2, <1>4, <2>3, <3>1
    <3> QED BY ONLY <1>4, <2>0, <3>2, e \in Nat, q \in Nat
  <2> QED BY Zenon, <2>1, <2>2, <2>3
<1>5. ASSUME NEW n \in (h + 1)..Len(F)
      PROVE  \E i \in 1..Len(R) : IsSample(R[i]) /\ R[i].n = n
  <2>1. CASE n <= e
    <3>1. n \in (h + 1)..e BY <1>1, <2>1
    <3>2. PICK i \in 1..p : IsSample(P[i]) /\ P[i].n = n BY Zenon, <3>1 DEF Numbered
    <3>3. i \in 1..Len(R) /\ R[i] = P[i] BY <3>2
    <3> QED BY Zenon, <3>2, <3>3
  <2>2. CASE n > e
    <3>1. n - e \in 1..m /\ e + (n - e) = n BY <1>1, <2>2
    <3>2. q + (n - e) \in 1..Len(R) BY <3>1
    <3>3. R[q + (n - e)] = s[n - e] BY Zenon, <3>1
    <3>4. IsSample(s[n - e]) /\ s[n - e].n = e + (n - e) BY Zenon, <3>1 DEF Package
    <3>5. IsSample(R[q + (n - e)]) /\ R[q + (n - e)].n = n BY Zenon, <3>1, <3>3, <3>4
    <3> QED BY Zenon, <3>2, <3>5
  <2> QED BY <1>1, <2>1, <2>2
<1>6. h <= Len(F) BY <1>1
<1> QED BY Zenon, <1>3, <1>4, <1>5, <1>6 DEF Numbered

\* A package has the bubble that its samples need, and no other.
LEMMA AddressedAppend ==
  ASSUME NEW P \in Seq(Elem), NEW c \in Nat, NEW r, Addressed(P, r, c),
         NEW b \in Seq(Elem), NEW s \in Seq(Elem), NEW k, Package(b, s, k),
         NEW R, Appended(P, b, s, R)
  PROVE  Addressed(R, r, c)
<1> PICK p \in Nat : p = Len(P) BY Zenon DEF Appended
<1> PICK q \in Nat : q = p + Len(b) BY DEF Appended
<1> PICK m \in Nat : m = Len(s) BY Zenon DEF Appended
<1> /\ R \in Seq(Elem) /\ Len(R) = q + m /\ Len(b) \in Nat
    /\ \A i \in 1..p : R[i] = P[i]
    /\ \A i \in 1..Len(b) : R[p + i] = b[i]
    /\ \A i \in 1..m : R[q + i] = s[i]
  BY Zenon DEF Appended
<1>1. /\ 1..p \subseteq 1..Len(R)
      /\ \A i \in 1..Len(R) : i > q => i - q \in 1..m /\ R[i] = s[i - q] /\ IsSample(R[i])
  <2>1. ASSUME NEW i \in 1..Len(R), i > q PROVE i - q \in 1..m /\ R[i] = s[i - q] /\ IsSample(R[i])
    <3>1. i - q \in 1..m /\ q + (i - q) = i BY <2>1
    <3>2. IsSample(s[i - q]) BY Zenon, <3>1 DEF Package
    <3> QED BY Zenon, <3>1, <3>2
  <2> QED BY <2>1
<1>2. ASSUME NEW i \in 1..c PROVE i \in 1..Len(R) /\ IsSample(R[i]) /\ R[i].dst = r
  <2>1. i \in 1..p /\ IsSample(P[i]) /\ P[i].dst = r BY Zenon DEF Addressed
  <2> QED BY Zenon, <1>1, <2>1
<1>3. ASSUME NEW j \in 1..Len(R), R[j].kind = "RDGUID"
      PROVE  /\ R[j].n > 0 /\ R[j].dst # Everyone
             /\ \A i \in (j + 1)..(j + R[j].n) : i \in 1..Len(R) /\ IsSample(R[i]) /\ R[i].dst = R[j].dst
  <2>1. CASE j <= p
    <3>1. j \in 1..p /\ R[j] = P[j] BY <2>1
    <3>2. P[j].n > 0 /\ P[j].dst # Everyone BY Zenon, <1>3, <3>1 DEF Addressed
    <3>3. ASSUME NEW i \in (j + 1)..(j + P[j].n)
          PROVE  i \in 1..Len(R) /\ IsSample(R[i]) /\ R[i].dst = P[j].dst
      <4>1. i \in 1..p /\ IsSample(P[i]) /\ P[i].dst = P[j].dst BY Zenon, <1>3, <3>1, <3>3 DEF Addressed
      <4> QED BY Zenon, <1>1, <4>1
    <3> QED BY Zenon, <3>1, <3>2, <3>3
  <2>2. CASE p < j /\ j <= q
    <3>1. j - p \in 1..Len(b) /\ R[j] = b[j - p]
      <4>1. j - p \in 1..Len(b) /\ p + (j - p) = j BY <2>2
      <4> QED BY Zenon, <4>1
    <3>2. Len(b) = 1 BY <3>1 DEF Package
    <3>3. j = q /\ q = p + 1 /\ R[j] = b[1] BY <2>2, <3>1, <3>2
    <3>4. b[1].n = m /\ m > 0 /\ b[1].dst # Everyone /\ \A i \in 1..m : IsSample(s[i]) /\ s[i].dst = b[1].dst
      BY <1>3, <3>2, <3>3 DEF Package
    <3>5. ASSUME NEW i \in (j + 1)..(j + R[j].n)
          PROVE  i \in 1..Len(R) /\ IsSample(R[i]) /\ R[i].dst = R[j].dst
      <4>1. i \in 1..Len(R) /\ i > q BY <3>3, <3>4
      <4>2. i - q \in 1..m /\ R[i] = s[i - q] BY Zenon, <1>1, <4>1
      <4>3. IsSample(s[i - q]) /\ s[i - q].dst = b[1].dst BY Zenon, <3>4, <4>2
      <4> QED BY Zenon, <3>3, <4>1, <4>2, <4>3
    <3> QED BY Zenon, <3>3, <3>4, <3>5
  <2>3. CASE j > q BY Zenon, <1>1, <1>3, <2>3 DEF IsSample
  <2> QED BY <2>1, <2>2, <2>3
<1>4. ASSUME NEW i \in 1..Len(R), IsSample(R[i]), R[i].dst # Everyone
      PROVE  i <= c \/ \E j \in 1..(i - 1) : R[j].kind = "RDGUID" /\ i <= j + R[j].n
  <2>1. CASE i <= p
    <3>1. i \in 1..p /\ R[i] = P[i] BY <2>1
    <3>2. ASSUME NEW j \in 1..(i - 1) PROVE j \in 1..p /\ R[j] = P[j] BY <3>1
    <3> QED BY <1>4, <3>1, <3>2 DEF Addressed
  <2>2. CASE p < i /\ i <= q
    <3>1. i - p \in 1..Len(b) /\ p + (i - p) = i BY <2>2
    <3>2. R[p + (i - p)] = b[i - p] BY Zenon, <3>1
    <3>3. ~IsSample(b[i - p]) BY Zenon, <3>1 DEF Package
    <3> QED BY Zenon, <1>4, <3>1, <3>2, <3>3
  <2>3. CASE i > q
    <3>1. i - q \in 1..m /\ R[i] = s[i - q] BY Zenon, <1>1, <2>3
    <3>2. Len(b) = 1 /\ b[1].kind = "RDGUID" /\ b[1].n = m BY <1>4, <3>1 DEF Package
    <3>3. q \in 1..(i - 1) /\ q = p + 1 /\ i <= q + m BY <2>3, <3>1, <3>2
    <3>4. R[q] = b[1] BY <3>2, <3>3
    <3> QED BY Zenon, <3>2, <3>3, <3>4
  <2> QED BY <2>1, <2>2, <2>3
<1> QED BY Zenon, <1>2, <1>3, <1>4 DEF Addressed

---------------------------------------------------------------------------
(* What the steps do to Pending. *)

\* What is on its way is a sequence of elements.
LEMMA PendingSeq ==
  ASSUME Chains, elem \in Elem \cup {NoElem}
  PROVE  InHand \in Seq(Elem) /\ batch \o sc \in Seq(Elem) /\ Pending \in Seq(Elem)
<1>1. InHand \in Seq(Elem)
  <2>1. CASE elem = NoElem BY <2>1 DEF InHand
  <2>2. CASE elem # NoElem BY <2>2 DEF InHand
  <2> QED BY Zenon, <2>1, <2>2
<1>2. batch \o sc \in Seq(Elem) BY DEF Chains
<1> QED BY <1>1, <1>2 DEF Pending

\* What is enqueued comes at the end.
LEMMA PendingAppend ==
  ASSUME Chains, elem \in Elem \cup {NoElem}, NEW X \in Seq(Elem),
         sc' = sc \o X, UNCHANGED <<batch, elem>>
  PROVE  Pending' = Pending \o X
<1>1. batch \in Seq(Elem) /\ sc \in Seq(Elem) BY Zenon DEF Chains
<1>2. InHand' = InHand BY Zenon DEF InHand
<1>3. batch \o (sc \o X) = (batch \o sc) \o X BY <1>1, ConcatAssociative
<1>4. InHand \in Seq(Elem) /\ batch \o sc \in Seq(Elem) BY Zenon, PendingSeq
<1>5. InHand \o ((batch \o sc) \o X) = (InHand \o (batch \o sc)) \o X
  <2>1. PICK u, v \in Seq(Elem) : u = InHand /\ v = batch \o sc BY Zenon, <1>4
  <2>2. u \o (v \o X) = (u \o v) \o X
    BY ONLY u \in Seq(Elem), v \in Seq(Elem), X \in Seq(Elem), ConcatAssociative
  <2> QED BY Zenon, <2>1, <2>2
<1> QED BY Zenon, <1>2, <1>3, <1>5 DEF Pending

\* Taking the chain and taking an element in hand leave it the same.
LEMMA PendingTaken ==
  ASSUME Chains, elem \in Elem \cup {NoElem},
         \/ batch = << >> /\ batch' = sc /\ sc' = << >> /\ elem' = elem
         \/ /\ elem = NoElem /\ batch # << >> /\ sc' = sc
            /\ elem' = Head(batch) /\ batch' = Tail(batch)
  PROVE  Pending' = Pending
<1>1. batch \in Seq(Elem) /\ sc \in Seq(Elem) BY Zenon DEF Chains
<1>2. CASE batch = << >> /\ batch' = sc /\ sc' = << >> /\ elem' = elem
  <2>1. InHand' = InHand BY Zenon, <1>2 DEF InHand
  <2>2. << >> \o sc = sc /\ sc \o << >> = sc BY Zenon, <1>1, ConcatEmptySeq
  <2> QED BY Zenon, <1>2, <2>1, <2>2 DEF Pending
<1>3. CASE /\ elem = NoElem /\ batch # << >> /\ sc' = sc
           /\ elem' = Head(batch) /\ batch' = Tail(batch)
  <2>1. Head(batch) \in Elem /\ Tail(batch) \in Seq(Elem) BY <1>1, <1>3
  <2>2. NoElem \notin Elem BY Zenon DEF NoElem, Elem
  <2>3. InHand' = <<Head(batch)>> /\ InHand = << >> BY Zenon, <1>3, <2>1, <2>2 DEF InHand
  <2>4. <<Head(batch)>> \in Seq(Elem) BY <2>1
  <2>5. <<Head(batch)>> \o Tail(batch) = batch
    <3>1. /\ <<Head(batch)>> \o Tail(batch) \in Seq(Elem)
          /\ Len(<<Head(batch)>> \o Tail(batch)) = Len(batch)
          /\ \A i \in 1..Len(batch) : (<<Head(batch)>> \o Tail(batch))[i] = batch[i]
      BY <1>1, <1>3, <2>1, <2>4
    <3> QED BY Zenon, <1>1, <3>1, SeqEqual
  <2>6. <<Head(batch)>> \o (Tail(batch) \o sc) = (<<Head(batch)>> \o Tail(batch)) \o sc
    BY <1>1, <2>1, <2>4, ConcatAssociative
  <2>7. << >> \o (batch \o sc) = batch \o sc BY Zenon, PendingSeq, ConcatEmptySeq
  <2> QED BY Zenon, <1>3, <2>3, <2>5, <2>6, <2>7 DEF Pending
<1> QED BY Zenon, <1>2, <1>3

\* Once the element in hand is done with, the rest is pending.
LEMMA PendingHandled ==
  ASSUME Chains, elem \in Elem, elem' = NoElem, UNCHANGED <<batch, sc>>
  PROVE  /\ Pending # << >> /\ Pending[1] = elem
         /\ Pending' \in Seq(Elem) /\ Len(Pending') = Len(Pending) - 1
         /\ \A i \in 1..Len(Pending') : Pending'[i] = Pending[i + 1]
<1> DEFINE R == batch \o sc
<1>1. R \in Seq(Elem) BY Zenon, PendingSeq
<1>2. elem # NoElem BY DEF NoElem, Elem
<1>3. Pending = <<elem>> \o R BY Zenon, <1>2 DEF Pending, InHand
<1>4. Pending' = R
  <2>1. Pending' = << >> \o R BY Zenon DEF Pending, InHand
  <2> QED BY Zenon, <1>1, <2>1, ConcatEmptySeq
<1>5. <<elem>> \in Seq(Elem) /\ Len(<<elem>>) = 1 /\ <<elem>>[1] = elem OBVIOUS
<1> HIDE DEF R
<1>6. /\ Len(Pending) = 1 + Len(R)
      /\ \A i \in 1..(1 + Len(R)) : Pending[i] = IF i <= 1 THEN <<elem>>[i] ELSE R[i - 1]
  BY Zenon, <1>1, <1>3, <1>5, ConcatProperties
<1>7. Pending \in Seq(Elem) BY Zenon, PendingSeq
<1>8. ASSUME NEW i \in 1..Len(R) PROVE R[i] = Pending[i + 1]
  <2>1. i + 1 \in 1..(1 + Len(R)) /\ ~(i + 1 <= 1) /\ (i + 1) - 1 = i BY <1>1
  <2> QED BY Zenon, <1>6, <2>1
<1> QED BY <1>1, <1>4, <1>5, <1>6, <1>7, <1>8

---------------------------------------------------------------------------
(* The steps. *)

\* The queue starts empty.
LEMMA InitInductive == Init => DInv
<1> SUFFICES ASSUME Init PROVE DInv BY Zenon
<1>1. Pending = << >>
  <2>1. InHand = << >> /\ batch = << >> /\ sc = << >> BY Zenon DEF Init, InHand
  <2> QED BY <2>1 DEF Pending
<1>2. CInv BY DEF Init, CInv, Chains, NofSamplesExact, Elements
<1>3. TypeOK BY Zenon, NamesAssumption DEF Init, TypeOK
<1>4. Thread
  <2>1. keepgoing \in BOOLEAN /\ freeing \in BOOLEAN /\ keepgoing BY Zenon DEF Init
  <2> QED BY <1>1, <2>1 DEF Init, Thread
<1>5. Numbered(Pending, Len(handled), enqueued) BY <1>1 DEF Init, Numbered
<1>6. Addressed(Pending, rdguid, rdguid_count) BY <1>1 DEF Init, Addressed
<1> QED BY Zenon, <1>2, <1>3, <1>4, <1>5, <1>6 DEF Init, DInv

\* Appending counts what is appended.
LEMMA EnqueueCounts ==
  ASSUME CInv, NEW b, NEW s, Package(b, s, Len(enqueued)), enqueue_locked(b, s, Len(b) + Len(s))
  PROVE  CInv'
<1>1. /\ sc' = sc \o (b \o s) /\ batch' = batch /\ pc' = pc /\ handled' = handled
      /\ nof_samples' = nof_samples + (Len(b) + Len(s))
      /\ count' = count + Len(b \o s) /\ enqueued' = enqueued \o s
  BY Zenon DEF enqueue_locked, thread
<1>2. b \in Seq(Elem) /\ s \in Seq(Elem) BY Zenon DEF Package
<1>3. b \o s \in Seq(Elem) /\ Len(b \o s) = Len(b) + Len(s) BY <1>2
<1>4. sc' \in Seq(Elem) /\ Len(sc') = Len(sc) + Len(b \o s) /\ enqueued' \in Seq(Elem)
  BY <1>1, <1>2, <1>3 DEF CInv, Chains
<1>5. /\ Len(b \o s) \in Nat /\ Len(sc) \in Nat /\ Len(batch) \in Nat
      /\ Len(b) \in Nat /\ Len(s) \in Nat
  BY <1>2, <1>3 DEF CInv, Chains
<1> QED BY <1>1, <1>3, <1>4, <1>5 DEF CInv, Chains, NofSamplesExact, Elements

\* A package is put in the queue, by a receive thread t or by nobody in
\* particular.  Only the order to stop ends it all.
LEMMA EnqueueStep ==
  ASSUME DInv, NEW b, NEW s, Package(b, s, Len(enqueued)), enqueue_locked(b, s, Len(b) + Len(s)),
         freeing' \in BOOLEAN,
         \A i \in 1..Len(b) : b[i].kind = "STOP" => freeing',
         rpc' \in [Receiver -> {"idle", "check", "lock", "test", "wait", "waiting"}],
         \A t \in Receiver : rpc'[t] = rpc[t] \/ {rpc[t], rpc'[t]} \cap {"test", "wait"} = {}
  PROVE  DInv'
<1>1. b \in Seq(Elem) /\ s \in Seq(Elem) /\ b \o s \in Seq(Elem) BY DEF Package
<1>2. /\ sc' = sc \o (b \o s) /\ enqueued' = enqueued \o s /\ ~freeing
      /\ waiting' = IF sc = << >> THEN {} ELSE waiting
      /\ UNCHANGED <<lock, pc, batch, elem, rdguid, rdguid_count, keepgoing, handled>>
  BY Zenon DEF enqueue_locked, thread
<1>3. /\ Chains /\ elem \in Elem \cup {NoElem} /\ enqueued \in Seq(Elem) /\ handled \in Seq(Elem)
      /\ rdguid_count \in Nat
  BY Zenon DEF DInv, CInv, Chains, Thread
<1>4. Pending' = Pending \o (b \o s) /\ Pending \in Seq(Elem)
  BY Zenon, <1>1, <1>2, <1>3, PendingAppend, PendingSeq
<1>5. CInv' BY Zenon, EnqueueCounts DEF DInv
<1>6. Appended(Pending, b, s, Pending') BY Zenon, <1>1, <1>4, AppendedElements
<1>7. Appended(enqueued, << >>, s, enqueued')
  <2>1. << >> \in Seq(Elem) /\ << >> \o s = s BY Zenon, <1>1, EmptySeq, ConcatEmptySeq
  <2> QED BY Zenon, <1>1, <1>2, <1>3, <2>1, AppendedElements
<1>8. Numbered(Pending', Len(handled'), enqueued')
  <2>1. Len(handled) \in Nat /\ Numbered(Pending, Len(handled), enqueued) BY <1>3 DEF DInv
  <2>2. Numbered(Pending', Len(handled), enqueued')
    BY Zenon, <1>1, <1>3, <1>4, <1>6, <1>7, <2>1, NumberedAppend
  <2> QED BY Zenon, <1>2, <2>2
<1>9. Addressed(Pending', rdguid', rdguid_count')
  <2>1. Addressed(Pending, rdguid, rdguid_count) BY Zenon DEF DInv
  <2>2. Addressed(Pending', rdguid, rdguid_count)
    BY Zenon, <1>1, <1>3, <1>4, <1>6, <2>1, AddressedAppend
  <2> QED BY Zenon, <1>2, <2>2
<1>10. \A i \in 1..Len(handled') : handled'[i] = enqueued'[i]
  <2>1. \A i \in 1..Len(handled) : i \in 1..Len(enqueued) BY <1>3 DEF DInv, Numbered
  <2> QED BY Zenon, <1>2, <1>7, <2>1 DEF DInv, Appended
<1>11. keepgoing /\ pc # "stopped" BY Zenon, <1>2 DEF DInv, Thread
<1>12. TypeOK'
  <2>1. lock' \in Receiver \cup {Nobody} /\ pc' \in {"top", "waiting", "loop", "broadcast", "handle", "stopped"}
    BY Zenon, <1>2 DEF DInv, TypeOK
  <2>2. \A t \in Receiver : lock' = t <=> rpc'[t] \in {"test", "wait"}
    BY Zenon, <1>2 DEF DInv, TypeOK
  <2>3. waiting' \subseteq Receiver \cup {DQ} BY Zenon, <1>2 DEF DInv, TypeOK
  <2>4. DQ \notin waiting' BY Zenon, <1>2 DEF DInv, TypeOK
  <2>5. rdguid_count' = 0 <=> rdguid' = Everyone BY Zenon, <1>2 DEF DInv, TypeOK
  <2> QED BY Zenon, <1>2, <1>11, <2>1, <2>2, <2>3, <2>4, <2>5 DEF TypeOK
<1>13. Thread'
  <2>1. ASSUME NEW i \in 1..Len(Pending'), Pending'[i].kind = "STOP"
        PROVE  i = Len(Pending') /\ freeing'
    <3>1. CASE i <= Len(Pending)
      <4>1. i \in 1..Len(Pending) /\ Pending'[i] = Pending[i] BY <1>6, <3>1 DEF Appended
      <4> QED BY Zenon, <1>2, <2>1, <4>1 DEF DInv, Thread
    <3>2. CASE i > Len(Pending) /\ i <= Len(Pending) + Len(b)
      <4>1. i - Len(Pending) \in 1..Len(b) /\ Len(Pending) + (i - Len(Pending)) = i BY <1>6, <3>2 DEF Appended
      <4>2. b[i - Len(Pending)].kind = "STOP" BY Zenon, <1>6, <2>1, <4>1 DEF Appended
      <4>3. Len(b) = 1 /\ b[1].kind = "STOP" BY <4>1, <4>2 DEF Package
      <4>4. Len(s) = 0 BY <4>3 DEF Package
      <4> QED BY <1>6, <4>1, <4>2, <4>3, <4>4 DEF Appended
    <3>3. CASE i > Len(Pending) + Len(b)
      <4> DEFINE k == i - (Len(Pending) + Len(b))
      <4>1. k \in 1..Len(s) /\ (Len(Pending) + Len(b)) + k = i BY <1>6, <3>3 DEF Appended
      <4>2. s[k].kind = "STOP" BY Zenon, <1>6, <2>1, <4>1 DEF Appended
      <4> QED BY Zenon, <4>1, <4>2 DEF Package, IsSample
    <3> QED BY <1>6, <3>1, <3>2, <3>3 DEF Appended
  <2>2. keepgoing' /\ pc' # "stopped" /\ keepgoing' \in BOOLEAN BY Zenon, <1>2, <1>11 DEF DInv, Thread
  <2> QED BY Zenon, <1>2, <2>1, <2>2 DEF DInv, Thread
<1> QED BY Zenon, <1>5, <1>8, <1>9, <1>10, <1>12, <1>13 DEF DInv

\* A chain for one destination is as long as its caller says, and numbered.
LEMMA ChainPackage ==
  ASSUME enqueued \in Seq(Elem), NEW n \in {1, 2}, NEW r \in Reader \cup {Everyone}
  PROVE  /\ Chain(n, r) \in Seq(Elem) /\ Len(Chain(n, r)) = n
         /\ \A i \in 1..n : /\ IsSample(Chain(n, r)[i])
                            /\ Chain(n, r)[i].n = Len(enqueued) + i /\ Chain(n, r)[i].dst = r
<1>0. PICK k \in Nat : k = Len(enqueued) OBVIOUS
<1>1. PICK x : x = Sample(k + 1, r) BY Zenon
<1>2. PICK y : y = GapElem(k + 2, r) BY Zenon
<1>3. x \in Elem /\ IsSample(x) /\ x.n = k + 1 /\ x.dst = r BY <1>1 DEF Elem, Sample, IsSample
<1>4. y \in Elem /\ IsSample(y) /\ y.n = k + 2 /\ y.dst = r BY <1>2 DEF Elem, GapElem, IsSample
<1>5. CASE n = 1
  <2>1. Chain(n, r) = <<x>> BY Zenon, <1>0, <1>1, <1>5 DEF Chain
  <2>2. <<x>> \in Seq(Elem) /\ Len(<<x>>) = 1 /\ <<x>>[1] = x BY <1>3
  <2>3. \A i \in 1..n : i = 1 BY <1>5
  <2>4. \A i \in 1..n : Chain(n, r)[i] = x /\ x.n = Len(enqueued) + i BY Zenon, <1>0, <1>3, <2>1, <2>2, <2>3
  <2> QED BY Zenon, <1>3, <1>5, <2>1, <2>2, <2>4
<1>6. CASE n = 2
  <2>1. Chain(n, r) = <<x, y>> BY <1>0, <1>1, <1>2, <1>6 DEF Chain
  <2>2. <<x, y>> \in Seq(Elem) /\ Len(<<x, y>>) = 2 /\ <<x, y>>[1] = x /\ <<x, y>>[2] = y BY <1>3, <1>4
  <2>3. \A i \in 1..n : i = 1 \/ i = 2 BY <1>6
  <2>4. \A i \in 1..n : \/ Chain(n, r)[i] = x /\ x.n = Len(enqueued) + i
                        \/ Chain(n, r)[i] = y /\ y.n = Len(enqueued) + i
    <3>1. Chain(n, r)[1] = x /\ Chain(n, r)[2] = y BY Zenon, <2>1, <2>2
    <3>2. x.n = Len(enqueued) + 1 /\ y.n = Len(enqueued) + 2 BY Zenon, <1>0, <1>3, <1>4
    <3> TAKE i \in 1..n
    <3>3. CASE i = 1 BY Zenon, <1>0, <3>1, <3>2, <3>3
    <3>4. CASE i = 2 BY Zenon, <1>0, <3>1, <3>2, <3>4
    <3> QED BY Zenon, <2>3, <3>3, <3>4
  <2> QED BY Zenon, <1>3, <1>4, <1>6, <2>1, <2>2, <2>4
<1> QED BY Zenon, <1>5, <1>6

\* nn_dqueue_enqueue, nn_dqueue_enqueue1, nn_dqueue_enqueue_callback and
\* nn_dqueue_free each enqueue a package.
LEMMA EnqueueSteps ==
  ASSUME DInv,
         \/ \E t \in Receiver, n \in {1, 2} : nn_dqueue_enqueue(t, n)
         \/ \E t \in Receiver, r \in Reader, n \in {1, 2} : nn_dqueue_enqueue1(t, r, n)
         \/ nn_dqueue_enqueue_callback
         \/ nn_dqueue_free
  PROVE  DInv'
<1>0. /\ enqueued \in Seq(Elem) /\ freeing \in BOOLEAN
      /\ rpc \in [Receiver -> {"idle", "check", "lock", "test", "wait", "waiting"}]
  BY Zenon DEF DInv, CInv, Chains, TypeOK, Thread
<1>1. << >> \in Seq(Elem) /\ Len(<< >>) = 0 OBVIOUS
<1>2. \A a \in Elem : <<a>> \in Seq(Elem) /\ Len(<<a>>) = 1 /\ <<a>>[1] = a OBVIOUS
<1>3. ASSUME NEW t \in Receiver, NEW n \in {1, 2}, nn_dqueue_enqueue(t, n) PROVE DInv'
  <2>1. PICK s : s = Chain(n, Everyone) BY Zenon
  <2>2. /\ s \in Seq(Elem) /\ Len(s) = n
        /\ \A i \in 1..n : IsSample(s[i]) /\ s[i].n = Len(enqueued) + i /\ s[i].dst = Everyone
    <3>1. Everyone \in Reader \cup {Everyone} BY Zenon
    <3>2. /\ Chain(n, Everyone) \in Seq(Elem) /\ Len(Chain(n, Everyone)) = n
          /\ \A i \in 1..n : /\ IsSample(Chain(n, Everyone)[i])
                             /\ Chain(n, Everyone)[i].n = Len(enqueued) + i /\ Chain(n, Everyone)[i].dst = Everyone
      BY ONLY Zenon, <1>0, <3>1, n \in {1, 2}, ChainPackage
    <3> QED BY ONLY Zenon, <2>1, <3>2
  <2>3. Package(<< >>, s, Len(enqueued)) BY <1>1, <2>2 DEF Package
  <2>4. enqueue_locked(<< >>, s, Len(<< >>) + Len(s))
    BY <1>1, <1>3, <2>1, <2>2 DEF nn_dqueue_enqueue
  <2>5. rpc' = [rpc EXCEPT ![t] = "check"] /\ rpc[t] = "idle" /\ freeing' = freeing
    BY Zenon, <1>3 DEF nn_dqueue_enqueue, RGoto
  <2> QED BY <1>0, <1>1, <2>3, <2>4, <2>5, EnqueueStep
<1>4. ASSUME NEW t \in Receiver, NEW r \in Reader, NEW n \in {1, 2}, nn_dqueue_enqueue1(t, r, n)
      PROVE  DInv'
  <2>1. PICK s : s = Chain(n, r) BY Zenon
  <2>2. /\ s \in Seq(Elem) /\ Len(s) = n
        /\ \A i \in 1..n : IsSample(s[i]) /\ s[i].n = Len(enqueued) + i /\ s[i].dst = r
    <3>1. r \in Reader \cup {Everyone} BY Zenon
    <3>2. /\ Chain(n, r) \in Seq(Elem) /\ Len(Chain(n, r)) = n
          /\ \A i \in 1..n : /\ IsSample(Chain(n, r)[i])
                             /\ Chain(n, r)[i].n = Len(enqueued) + i /\ Chain(n, r)[i].dst = r
      BY ONLY Zenon, <1>0, <3>1, n \in {1, 2}, ChainPackage
    <3> QED BY ONLY Zenon, <2>1, <3>2
  <2>3. PICK b : b = <<Rdguid(r, n)>> BY Zenon
  <2>4. /\ Rdguid(r, n) \in Elem /\ Rdguid(r, n).kind = "RDGUID" /\ Rdguid(r, n).n = n
        /\ Rdguid(r, n).dst = r /\ r # Everyone
    BY NamesAssumption DEF Rdguid, Elem
  <2>5. b \in Seq(Elem) /\ Len(b) = 1 /\ b[1] = Rdguid(r, n) BY Zenon, <1>2, <2>3, <2>4
  <2>6. Package(b, s, Len(enqueued)) BY <2>2, <2>4, <2>5 DEF Package, IsSample
  <2>7. enqueue_locked(b, s, Len(b) + Len(s))
    <3>1. enqueue_locked(<<Rdguid(r, n)>>, Chain(n, r), n + 1) BY Zenon, <1>4 DEF nn_dqueue_enqueue1
    <3>2. n + 1 = Len(b) + Len(s) BY <2>2, <2>5
    <3> QED BY Zenon, <2>1, <2>3, <3>1, <3>2
  <2>8. rpc' = [rpc EXCEPT ![t] = "check"] /\ rpc[t] = "idle" /\ freeing' = freeing
    BY Zenon, <1>4 DEF nn_dqueue_enqueue1, RGoto
  <2>9. \A i \in 1..Len(b) : b[i].kind # "STOP" BY <2>4, <2>5
  <2> QED BY Zenon, <1>0, <2>6, <2>7, <2>8, <2>9, EnqueueStep
<1>5. ASSUME NEW a \in {Callback, Stop}, enqueue_locked(<<a>>, << >>, 1), UNCHANGED rpc,
             freeing' \in BOOLEAN, a = Stop => freeing'
      PROVE  DInv'
  <2>1. PICK b : b = <<a>> BY Zenon
  <2>2. a \in Elem /\ ~IsSample(a) /\ a.kind # "RDGUID" /\ (a.kind = "STOP" => a = Stop)
    BY DEF Callback, Stop, Elem, IsSample
  <2>3. b \in Seq(Elem) /\ Len(b) = 1 /\ b[1] = a BY Zenon, <1>2, <2>1, <2>2
  <2>4. Package(b, << >>, Len(enqueued)) BY <1>1, <2>2, <2>3 DEF Package
  <2>5. enqueue_locked(b, << >>, Len(b) + Len(<< >>)) BY <1>1, <1>5, <2>1, <2>3
  <2>6. \A i \in 1..Len(b) : b[i].kind = "STOP" => freeing' BY <1>5, <2>2, <2>3
  <2> QED BY Zenon, <1>0, <1>5, <2>4, <2>5, <2>6, EnqueueStep
<1>6. ASSUME nn_dqueue_enqueue_callback PROVE DInv'
  <2>1. Callback # Stop BY Zenon DEF Callback, Stop
  <2> QED BY Zenon, <1>0, <1>5, <1>6, <2>1 DEF nn_dqueue_enqueue_callback
<1>7. ASSUME nn_dqueue_free PROVE DInv' BY Zenon, <1>5, <1>7 DEF nn_dqueue_free
<1> QED BY Zenon, <1>3, <1>4, <1>6, <1>7

\* nn_dqueue_wait_until_empty_if_full moves the lock and the waiters only.
LEMMA WaitSteps ==
  ASSUME DInv, NEW t \in Receiver, WaitStep(t)
  PROVE  DInv'
<1>1. /\ UNCHANGED <<sc, nof_samples, thread, freeing, enqueued, handled, count>>
      /\ rpc' = [rpc EXCEPT ![t] = rpc'[t]]
  BY Zenon DEF WaitStep, CheckFull, TakeLock, TestEmpty, CondWait, RGoto, queue, DInv, TypeOK
<1>2. Pending' = Pending BY Zenon, <1>1 DEF Pending, InHand, thread
<1>3. CInv' BY Zenon, <1>1 DEF DInv, CInv, Chains, NofSamplesExact, Elements, thread
<1>4. TypeOK'
  <2>1. DQ # t BY Zenon, NamesAssumption
  <2>2. /\ rpc' \in [Receiver -> {"idle", "check", "lock", "test", "wait", "waiting"}]
        /\ lock' \in Receiver \cup {Nobody} /\ waiting' \subseteq Receiver \cup {DQ}
        /\ DQ \in waiting' => DQ \in waiting
    BY Zenon, <2>1 DEF WaitStep, CheckFull, TakeLock, TestEmpty, CondWait, RGoto, queue, DInv, TypeOK
  <2>3. \A u \in Receiver : lock' = u <=> rpc'[u] \in {"test", "wait"}
    <3>1. CASE CheckFull(t) BY Zenon, <3>1 DEF CheckFull, RGoto, queue, DInv, TypeOK
    <3>2. CASE TakeLock(t) BY Zenon, <3>2, NamesAssumption DEF TakeLock, RGoto, DInv, TypeOK
    <3>3. CASE TestEmpty(t) BY Zenon, <3>3, NamesAssumption DEF TestEmpty, RGoto, DInv, TypeOK
    <3>4. CASE CondWait(t) BY Zenon, <3>4, NamesAssumption DEF CondWait, RGoto, DInv, TypeOK
    <3> QED BY Zenon, <3>1, <3>2, <3>3, <3>4 DEF WaitStep
  <2> QED BY Zenon, <1>1, <2>2, <2>3 DEF DInv, TypeOK, thread
<1>5. Thread' BY Zenon, <1>1, <1>2 DEF DInv, Thread, thread
<1> QED BY Zenon, <1>1, <1>2, <1>3, <1>4, <1>5 DEF DInv, thread

\* A wakeup, by a broadcast or out of nothing, leaves the queue alone.
LEMMA WakeupSteps ==
  ASSUME DInv, Broadcast \/ \E t \in Receiver \cup {DQ} : SpuriousWakeup(t)
  PROVE  DInv'
<1>1. /\ UNCHANGED <<sc, nof_samples, lock, batch, elem, rdguid, rdguid_count, keepgoing,
                     rpc, freeing, enqueued, handled, count>>
      /\ waiting' \subseteq waiting
      /\ pc' = pc \/ (pc = "broadcast" /\ pc' = "handle")
  <2>1. CASE Broadcast BY Zenon, <2>1 DEF Broadcast, DInv, TypeOK
  <2>2. CASE \E t \in Receiver \cup {DQ} : SpuriousWakeup(t)
    <3>1. PICK t \in Receiver \cup {DQ} : SpuriousWakeup(t) BY Zenon, <2>2
    <3>2. waiting' \subseteq waiting BY Zenon, <3>1 DEF SpuriousWakeup
    <3> QED BY Zenon, <3>1, <3>2 DEF SpuriousWakeup, thread
  <2> QED BY Zenon, <2>1, <2>2
<1>2. Pending' = Pending BY Zenon, <1>1 DEF Pending, InHand
<1>3. CInv' BY Zenon, <1>1 DEF DInv, CInv, Chains, NofSamplesExact, Elements
<1>4. TypeOK' BY Zenon, <1>1 DEF DInv, TypeOK
<1>5. Thread' BY Zenon, <1>1, <1>2 DEF DInv, Thread
<1> QED BY Zenon, <1>1, <1>2, <1>3, <1>4, <1>5 DEF DInv

\* The thread takes the chain, takes an element off it, or is done with it:
\* what is pending stays the same.
LEMMA TakeSteps ==
  ASSUME DInv, TakeChain \/ CountDown \/ EndOfChain
  PROVE  DInv'
<1>1. /\ UNCHANGED <<lock, rdguid, rdguid_count, keepgoing, rpc, freeing, enqueued, handled, count>>
      /\ pc \in {"top", "waiting", "loop"}
  BY Zenon DEF TakeChain, CountDown, EndOfChain, queue
<1>2. Chains /\ elem = NoElem /\ nof_samples = Len(sc) + Len(batch)
  BY Zenon, <1>1 DEF DInv, CInv, Thread, NofSamplesExact, Elements
<1>3. Pending' = Pending
  <2>1. CASE EndOfChain BY Zenon, <2>1 DEF EndOfChain, Pending, InHand, queue
  <2>2. CASE TakeChain /\ pc = "top" /\ sc = << >> BY Zenon, <2>2 DEF TakeChain, Pending, InHand
  <2>3. CASE TakeChain /\ ~(pc = "top" /\ sc = << >>)
    <3>1. batch = << >> BY Zenon, <1>2, <2>3 DEF TakeChain, Chains
    <3>2. elem' = elem /\ batch' = sc /\ sc' = << >> BY Zenon, <2>3 DEF TakeChain
    <3> QED BY Zenon, <1>2, <3>1, <3>2, PendingTaken
  <2>4. CASE CountDown BY Zenon, <1>2, <2>4, PendingTaken DEF CountDown
  <2> QED BY Zenon, <2>1, <2>2, <2>3, <2>4
<1>4. CInv'
  <2>1. CASE EndOfChain
    BY Zenon, <1>2, <2>1 DEF DInv, CInv, EndOfChain, Chains, NofSamplesExact, Elements, queue
  <2>2. CASE TakeChain BY <1>2, <2>2 DEF DInv, CInv, TakeChain, Chains, NofSamplesExact, Elements
  <2>3. CASE CountDown
    <3>1. /\ batch \in Seq(Elem) /\ batch # << >> /\ batch' = Tail(batch) /\ sc' = sc
          /\ nof_samples' = nof_samples - 1 /\ pc' \in {"broadcast", "handle"}
      BY Zenon, <1>2, <2>3 DEF CountDown, Chains
    <3>2. batch' \in Seq(Elem) /\ Len(batch') = Len(batch) - 1 /\ Len(batch) \in Nat BY <3>1
    <3>3. Len(sc) \in Nat BY <1>2 DEF Chains
    <3> QED BY <1>1, <1>2, <3>1, <3>2, <3>3 DEF CInv, Chains, NofSamplesExact, Elements
  <2> QED BY Zenon, <2>1, <2>2, <2>3
<1>5. elem' \in Elem \cup {NoElem} /\ (elem' # NoElem <=> pc' \in {"broadcast", "handle"})
  <2>1. CASE CountDown
    <3>1. elem' \in Elem BY <1>2, <2>1 DEF CountDown, Chains
    <3>2. NoElem \notin Elem BY Zenon DEF NoElem, Elem
    <3> QED BY Zenon, <2>1, <3>1, <3>2 DEF CountDown
  <2>2. CASE TakeChain \/ EndOfChain BY Zenon, <1>2, <2>2 DEF TakeChain, EndOfChain
  <2> QED BY Zenon, <2>1, <2>2
<1>6. pc' = "stopped" => ~keepgoing /\ EndOfChain BY Zenon DEF TakeChain, CountDown, EndOfChain, DInv, Thread
<1>7. TypeOK'
  <2>1. pc' = "stopped" => sc' = << >> /\ batch' = << >>
    <3> SUFFICES ASSUME pc' = "stopped" PROVE sc' = << >> /\ batch' = << >> BY Zenon
    <3>1. UNCHANGED <<sc, batch>> /\ Pending = << >> /\ InHand = << >>
      BY Zenon, <1>2, <1>6 DEF EndOfChain, queue, DInv, Thread, InHand
    <3>2. Len(Pending) = Len(InHand) + Len(batch \o sc) /\ Len(batch \o sc) = Len(batch) + Len(sc)
      BY <1>2, <3>1 DEF Pending, Chains
    <3> QED BY <1>2, <3>1, <3>2 DEF Chains
  <2>2. /\ pc' \in {"top", "waiting", "loop", "broadcast", "handle", "stopped"}
        /\ waiting' \subseteq Receiver \cup {DQ}
        /\ DQ \in waiting' => pc' = "waiting" /\ sc' = << >> /\ batch' = << >>
    <3>1. CASE EndOfChain BY Zenon, <3>1 DEF EndOfChain, queue, DInv, TypeOK
    <3>2. CASE TakeChain BY Zenon, <1>2, <3>2 DEF TakeChain, DInv, TypeOK, Chains
    <3>3. CASE CountDown BY Zenon, <3>3 DEF CountDown, DInv, TypeOK
    <3> QED BY Zenon, <3>1, <3>2, <3>3
  <2> QED BY Zenon, <1>1, <2>1, <2>2 DEF DInv, TypeOK
<1>8. Thread' BY Zenon, <1>1, <1>3, <1>5, <1>6 DEF DInv, Thread
<1> QED BY Zenon, <1>1, <1>3, <1>4, <1>7, <1>8 DEF DInv

\* A sample goes to the reader it was enqueued for; a bubble is carried out.
LEMMA HandleStep ==
  ASSUME DInv, Handle
  PROVE  DInv'
<1>1. /\ UNCHANGED <<sc, nof_samples, lock, waiting, batch, rpc, freeing, enqueued, count>>
      /\ pc = "handle" /\ pc' = "loop" /\ elem' = NoElem
  BY Zenon DEF Handle, queue
<1>2. /\ Chains /\ elem \in Elem /\ enqueued \in Seq(Elem) /\ handled \in Seq(Elem)
      /\ rdguid \in Reader \cup {Everyone} /\ rdguid_count \in Nat /\ keepgoing \in BOOLEAN
      /\ (rdguid_count = 0 <=> rdguid = Everyone)
  BY Zenon, <1>1 DEF DInv, CInv, Chains, Thread, TypeOK
<1>3. /\ Pending \in Seq(Elem) /\ Pending # << >> /\ Pending[1] = elem
      /\ Pending' \in Seq(Elem) /\ Len(Pending') = Len(Pending) - 1
      /\ \A i \in 1..Len(Pending') : Pending'[i] = Pending[i + 1]
  BY Zenon, <1>1, <1>2, PendingHandled, PendingSeq
<1>4. /\ Len(handled) \in Nat /\ Numbered(Pending, Len(handled), enqueued)
      /\ Addressed(Pending, rdguid, rdguid_count)
      /\ \A i \in 1..Len(handled) : handled[i] = enqueued[i]
  BY <1>2 DEF DInv
<1>5. Len(Pending) \in Nat /\ 1 \in 1..Len(Pending) BY <1>3
<1>6. /\ keepgoing
      /\ elem.kind = "STOP" => Pending' = << >> /\ freeing
  <2>1. keepgoing BY Zenon, <1>2, <1>3 DEF DInv, Thread
  <2>2. ASSUME elem.kind = "STOP" PROVE Pending' = << >> /\ freeing
    <3>1. 1 = Len(Pending) /\ freeing BY Zenon, <1>3, <1>5, <2>2 DEF DInv, Thread
    <3> QED BY <1>3, <3>1, EmptySeq
  <2> QED BY Zenon, <2>1, <2>2
<1>7. /\ IsSample(elem) => elem.dst = rdguid /\ enqueued[Len(handled) + 1] = elem
      /\ IsSample(elem) => Len(handled) + 1 \in 1..Len(enqueued)
      /\ ~IsSample(elem) => rdguid_count = 0
  BY Zenon, <1>2, <1>3, <1>4, NumberedFront, AddressedFront
<1>8. /\ IsSample(elem) => HandleSample
      /\ ~IsSample(elem) => HandleBubble
  BY Zenon DEF Handle, IsSample
<1>9. /\ handled' \in Seq(Elem)
      /\ Len(handled') = IF IsSample(elem) THEN Len(handled) + 1 ELSE Len(handled)
      /\ \A i \in 1..Len(handled') : handled'[i] = enqueued[i]
  <2>1. CASE IsSample(elem)
    <3>1. [elem EXCEPT !.dst = rdguid] = elem BY Zenon, <1>2, <1>7, <2>1 DEF Elem
    <3>2. handled' = Append(handled, elem) BY Zenon, <1>8, <2>1, <3>1 DEF HandleSample
    <3>3. /\ handled' \in Seq(Elem) /\ Len(handled') = Len(handled) + 1
          /\ \A i \in 1..Len(handled) : handled'[i] = handled[i]
          /\ handled'[Len(handled) + 1] = elem
      BY <1>2, <3>2, AppendProperties
    <3> QED BY <1>4, <1>7, <2>1, <3>3
  <2>2. CASE ~IsSample(elem) BY Zenon, <1>2, <1>4, <1>8, <2>2 DEF HandleBubble
  <2> QED BY Zenon, <2>1, <2>2
<1>10. Numbered(Pending', Len(handled'), enqueued')
  <2>1. Numbered(Pending', IF IsSample(Pending[1]) THEN Len(handled) + 1 ELSE Len(handled), enqueued)
    BY Zenon, <1>2, <1>3, <1>4, NumberedTail
  <2> QED BY Zenon, <1>1, <1>3, <1>9, <2>1
<1>11. elem.n \in Nat /\ elem.dst \in Reader \cup {Everyone}
  <2>1. \A e \in Elem : e.n \in Nat /\ e.dst \in Reader \cup {Everyone} BY Zenon DEF Elem
  <2> QED BY Zenon, <1>2, <2>1
<1>12. /\ rdguid_count' \in Nat /\ rdguid' \in Reader \cup {Everyone}
       /\ rdguid_count' = 0 <=> rdguid' = Everyone
  <2>1. CASE IsSample(elem) BY <1>2, <1>8, <2>1 DEF HandleSample
  <2>2. CASE ~IsSample(elem) /\ elem.kind = "RDGUID"
    <3>1. elem.n > 0 /\ elem.dst # Everyone BY Zenon, <1>3, <1>4, <1>5, <2>2 DEF Addressed
    <3> QED BY <1>8, <1>11, <2>2, <3>1 DEF HandleBubble
  <2>3. CASE ~IsSample(elem) /\ elem.kind # "RDGUID" BY Zenon, <1>2, <1>8, <2>3 DEF HandleBubble
  <2> QED BY Zenon, <2>1, <2>2, <2>3
<1>13. Addressed(Pending', rdguid', rdguid_count')
  <2>1. /\ IsSample(elem) => (rdguid_count' = IF rdguid_count > 0 THEN rdguid_count - 1 ELSE 0)
                            /\ (rdguid_count' > 0 => rdguid' = rdguid)
        /\ ~IsSample(elem) => IF elem.kind = "RDGUID" THEN rdguid_count' = elem.n /\ rdguid' = elem.dst
                                                       ELSE rdguid_count' = rdguid_count
    BY <1>2, <1>8 DEF HandleSample, HandleBubble
  <2> QED BY ZenonT(40), <1>2, <1>3, <1>4, <1>12, <2>1, AddressedTail
<1>14. CInv' BY Zenon, <1>1, <1>2, <1>9 DEF DInv, CInv, Chains, NofSamplesExact, Elements
<1>15. TypeOK' BY Zenon, <1>1, <1>12 DEF DInv, TypeOK
<1>16. Thread'
  <2>1. keepgoing' \in BOOLEAN /\ (~keepgoing' => elem.kind = "STOP")
    BY Zenon, <1>2, <1>6, <1>8 DEF HandleSample, HandleBubble
  <2>2. ASSUME NEW i \in 1..Len(Pending'), Pending'[i].kind = "STOP"
        PROVE  i = Len(Pending') /\ freeing'
    <3>1. i + 1 \in 1..Len(Pending) /\ Pending[i + 1].kind = "STOP" BY <1>3, <1>5, <2>2
    <3>2. i + 1 = Len(Pending) /\ freeing BY Zenon, <3>1 DEF DInv, Thread
    <3> QED BY <1>1, <1>3, <1>5, <3>2
  <2>3. freeing' \in BOOLEAN /\ freeing' = freeing BY Zenon, <1>1 DEF DInv, Thread
  <2> QED BY <1>1, <1>6, <1>12, <2>1, <2>2, <2>3 DEF Thread
<1> QED BY Zenon, <1>1, <1>9, <1>10, <1>13, <1>14, <1>15, <1>16 DEF DInv

\* Every step keeps the invariant.
LEMMA StepInductive == DInv /\ [Next]_vars => DInv'
<1> SUFFICES ASSUME DInv, [Next]_vars PROVE DInv' BY Zenon
<1>1. CASE \/ \E t \in Receiver, n \in {1, 2} : nn_dqueue_enqueue(t, n)
           \/ \E t \in Receiver, r \in Reader, n \in {1, 2} : nn_dqueue_enqueue1(t, r, n)
           \/ nn_dqueue_enqueue_callback
           \/ nn_dqueue_free
  BY Zenon, <1>1, EnqueueSteps
<1>2. CASE \E t \in Receiver : WaitStep(t) BY Zenon, <1>2, WaitSteps
<1>3. CASE dqueue_thread BY Zenon, <1>3, TakeSteps, WakeupSteps, HandleStep DEF dqueue_thread
<1>4. CASE \E t \in Receiver \cup {DQ} : SpuriousWakeup(t) BY Zenon, <1>4, WakeupSteps
<1>5. CASE UNCHANGED vars
  <2>1. Pending' = Pending BY Zenon, <1>5 DEF vars, Pending, InHand
  <2> QED BY Zenon, <1>5, <2>1 DEF vars, DInv, CInv, Chains, NofSamplesExact, Elements, TypeOK, Thread
<1> QED BY Zenon, <1>1, <1>2, <1>3, <1>4, <1>5 DEF Next

\* DInv holds of every state: the elements on their way are those enqueued and
\* not handled, and the thread knows whom each is for.
LEMMA Inductive == Spec => []DInv
BY InitInductive, StepInductive, PTL DEF Spec

---------------------------------------------------------------------------
(* The theorems. *)

\* In nn_dqueue_enqueue, nn_dqueue_wait_until_empty_if_full and dqueue_thread
\* the lock is held only where the code holds it, the thread waits only on an
\* empty queue and stops only with nothing left, and a reader is singled out
\* as long as there are samples for it alone.
THEOREM TypeCorrect == Spec => []TypeOK
<1>1. DInv => TypeOK BY Zenon DEF DInv
<1> QED BY <1>1, Inductive, PTL

\* nn_dqueue_enqueue, enqueue1, enqueue_callback, free and dqueue_thread keep
\* nof_samples equal to the number of elements that are in the queue or in the
\* chain that is being worked off, whatever the limit and however many threads
\* enqueue: the unsigned counter never goes below zero.
THEOREM CounterExact == Spec => []NofSamplesExact
<1>1. DInv => NofSamplesExact BY Zenon DEF DInv, CInv
<1> QED BY <1>1, Inductive, PTL

\* dqueue_thread hands samples over in the order they were enqueued and each
\* to the reader that nn_dqueue_enqueue1 named, or to all, even though the
\* RDGUID bubble and the samples it announces may be taken in different chains.
THEOREM HandedOverInOrder == Spec => []HandledAsEnqueued
<1>1. DInv => HandledAsEnqueued
  <2> SUFFICES ASSUME DInv PROVE HandledAsEnqueued BY Zenon
  <2>1. /\ enqueued \in Seq(Elem) /\ handled \in Seq(Elem)
        /\ Len(handled) <= Len(enqueued)
        /\ \A i \in 1..Len(handled) : handled[i] = enqueued[i]
    BY Zenon DEF DInv, CInv, Chains, Numbered
  <2> DEFINE S == SubSeq(enqueued, 1, Len(handled))
  <2>2. S \in Seq(Elem) /\ Len(S) = Len(handled) /\ \A i \in 1..Len(S) : S[i] = enqueued[i]
    BY <2>1
  <2>3. handled = S
    <3> HIDE DEF S
    <3> QED BY Zenon, <2>1, <2>2, SeqEqual
  <2> QED BY Zenon, <2>3 DEF HandledAsEnqueued
<1> QED BY <1>1, Inductive, PTL
=============================================================================
