---------------------------- MODULE DefragProofs ----------------------------
(***************************************************************************)
(* The operations of the defragmenter for samples of any size and any      *)
(* fragment size: what one or more fragments that arrive together do to    *)
(* the bytes of their sample, to the intervals they are kept in and to the *)
(* other samples, and which of the fragments nn_defrag_nackmap asks for.   *)
(*                                                                         *)
(* What arrives makes one new interval out of itself and the intervals it  *)
(* touches, at most two of them.  That interval ends where the last one    *)
(* touched ended.  Bytes of what has arrived are lost if they lie beyond,  *)
(* which takes an interval with both its ends inside what has arrived.     *)
(***************************************************************************)
EXTENDS Defrag, FiniteSetTheorems, TLAPS

\* Where a fragment may begin or end.
Boundary(b, info) == b = info.size \/ \E k \in Nat : b = k * info.fragsize

InfoOK(info) == info.size \in Nat \ {0} /\ info.fragsize \in Nat \ {0}

\* Fragments k..j: they begin at a multiple of the fragment size.
IsFragments(f, info) ==
  \E k, j \in Nat :
    /\ k <= j /\ k * info.fragsize < info.size
    /\ f = Iv(k * info.fragsize, Min({(j + 1) * info.fragsize, info.size}))

IvRec(n) == [min : 0..n, maxp1 : 0..n]

\* The intervals of a sample: within its size, the first at byte 0, apart from
\* each other; and while the sample is in the defragmenter, not the whole.
TreeShape(T, info) ==
  /\ T \subseteq IvRec(info.size)
  /\ \A i \in T : Boundary(i.min, info) /\ Boundary(i.maxp1, info)
  /\ \A i \in T : i.min < i.maxp1 \/ i.min = 0
  /\ \A i, j \in T : i.min = j.min => i = j
  /\ \A i, j \in T : i.min < j.min => i.maxp1 < j.min
  /\ \E i \in T : i.min = 0

TreeOK(T, info) == TreeShape(T, info) /\ \A i \in T : i.min = 0 => i.maxp1 < info.size

IsLast(T, l) == (\E i \in T : i.min = l) /\ \A i \in T : i.min <= l

SampleOK(x, info) ==
  /\ x = [fragtree |-> x.fragtree, lastfrag |-> x.lastfrag]
  /\ TreeOK(x.fragtree, info)
  /\ IsLast(x.fragtree, x.lastfrag)

\* Byte b is in one of the intervals.
Covered(T, b) == \E i \in T : i.min <= b /\ b < i.maxp1

---------------------------------------------------------------------------
(* Least and greatest elements. *)

\* A set of natural numbers that is not empty has a least one.
LEMMA Minimum ==
  ASSUME NEW S \in SUBSET Nat, S # {}
  PROVE  Min(S) \in S /\ \A y \in S : Min(S) <= y
<1>1. PICK x \in S : \A y \in S : ~(<<y, x>> \in OpToRel(<, Nat))
  BY Zenon, NatLessThanWellFounded, WFMin
<1>2. \A y \in S : x <= y
  <2> TAKE y \in S
  <2>1. <<y, x>> \in OpToRel(<, Nat) <=> y < x BY Zenon DEF OpToRel
  <2>2. ~(y < x) BY Zenon, <1>1, <2>1
  <2> QED BY ONLY <2>2, S \in SUBSET Nat, y \in S, x \in S
<1> QED BY Zenon, <1>2 DEF Min

\* A set of natural numbers that is bounded and not empty has a greatest one.
LEMMA Maximum ==
  ASSUME NEW n \in Nat, NEW S \in SUBSET (0..n), S # {}
  PROVE  Max(S) \in S /\ \A y \in S : y <= Max(S)
<1> DEFINE U == {u \in Nat : \A y \in S : y <= u}
<1>1. n \in U OBVIOUS
<1>2. PICK m \in U : \A u \in U : m <= u BY Zenon, <1>1, Minimum
<1>3. \A y \in S : y <= m BY Zenon, <1>2
<1>4. m \in S
  <2>1. SUFFICES ASSUME m \notin S PROVE FALSE BY Zenon
  <2>2. PICK z \in S : TRUE BY Zenon
  <2>3. m \in Nat /\ z \in Nat /\ z <= m /\ z # m BY <1>2, <1>3, <2>1
  <2>4. m - 1 \in U
    <3>1. m - 1 \in Nat BY <2>3
    <3>2. \A y \in S : y <= m - 1
      <4> TAKE y \in S
      <4>1. y <= m /\ y # m /\ y \in Nat BY <1>3, <2>1
      <4> QED BY <2>3, <4>1
    <3> QED BY Zenon, <3>1, <3>2
  <2> QED BY <1>2, <2>3, <2>4
<1>5. \A y \in S : m >= y
  <2> TAKE y \in S
  <2>1. y <= m /\ y \in Nat /\ m \in Nat BY <1>2, <1>3
  <2> QED BY Zenon, <2>1
<1>6. Max(S) \in S /\ \A y \in S : Max(S) >= y BY Zenon, <1>4, <1>5 DEF Max
<1> QED
  <2> SUFFICES ASSUME NEW y \in S PROVE y <= Max(S) BY Zenon, <1>6
  <2>1. PICK x \in S : x = Max(S) BY Zenon, <1>6
  <2>2. x >= y BY Zenon, <1>6, <2>1
  <2>3. y <= x BY Zenon, <2>2
  <2> QED BY Zenon, <2>1, <2>3

\* An interval of bytes has its two ends.
LEMMA IvFields ==
  ASSUME NEW n \in Nat
  PROVE  /\ \A i \in IvRec(n) : i.min \in 0..n /\ i.maxp1 \in 0..n /\ i = Iv(i.min, i.maxp1)
         /\ \A a, b \in 0..n : Iv(a, b) \in IvRec(n)
         /\ \A a, b : Iv(a, b).min = a /\ Iv(a, b).maxp1 = b
BY DEF IvRec, Iv

\* FirstIv and LastIv find what they are named for.
LEMMA FirstLast ==
  ASSUME NEW n \in Nat, NEW T \in SUBSET IvRec(n), T # {}
  PROVE  /\ FirstIv(T) \in T /\ \A j \in T : FirstIv(T).min <= j.min
         /\ LastIv(T) \in T /\ \A j \in T : LastIv(T).min >= j.min
<1> DEFINE S == {i.min : i \in T}
<1>1. S \in SUBSET (0..n) /\ S # {} BY IvFields
<1>2. S \in SUBSET Nat BY <1>1
<1>3. Min(S) \in S /\ \A y \in S : Min(S) <= y BY Zenon, <1>1, <1>2, Minimum
<1>4. Max(S) \in S /\ \A y \in S : y <= Max(S) BY Zenon, <1>1, Maximum
<1>5. PICK i \in T : i.min = Min(S) BY Zenon, <1>3
<1>6. PICK k \in T : k.min = Max(S) BY Zenon, <1>4
<1>7. \A j \in T : j.min \in S BY Zenon
<1>8. \A j \in T : i.min <= j.min BY Zenon, <1>3, <1>5, <1>7
<1>9. \A j \in T : k.min >= j.min
  <2> TAKE j \in T
  <2>1. j.min <= k.min /\ j.min \in Nat /\ k.min \in Nat BY Zenon, <1>2, <1>4, <1>6, <1>7
  <2> QED BY Zenon, <2>1
<1>10. FirstIv(T) \in T /\ \A j \in T : FirstIv(T).min <= j.min BY Zenon, <1>8 DEF FirstIv
<1>11. LastIv(T) \in T /\ \A j \in T : LastIv(T).min >= j.min BY Zenon, <1>9 DEF LastIv
<1> QED BY Zenon, <1>10, <1>11

\* The facts about intervals that the provers need as numbers.
LEMMA TreeFields ==
  ASSUME NEW info, InfoOK(info), NEW T, TreeShape(T, info)
  PROVE  \A i \in T : /\ i.min \in Nat /\ i.maxp1 \in Nat /\ i.min <= i.maxp1 /\ i.maxp1 <= info.size
                     /\ i.min <= info.size /\ i = Iv(i.min, i.maxp1)
<1>1. info.size \in Nat BY Zenon DEF InfoOK
<1> SUFFICES ASSUME NEW i \in T
             PROVE  /\ i.min \in Nat /\ i.maxp1 \in Nat /\ i.min <= i.maxp1 /\ i.maxp1 <= info.size
                    /\ i.min <= info.size /\ i = Iv(i.min, i.maxp1)
  BY Zenon
<1>2. i \in IvRec(info.size) /\ (i.min < i.maxp1 \/ i.min = 0) BY Zenon DEF TreeShape
<1>3. i.min \in 0..info.size /\ i.maxp1 \in 0..info.size /\ i = Iv(i.min, i.maxp1)
  BY Zenon, <1>1, <1>2, IvFields
<1> QED BY <1>1, <1>2, <1>3

---------------------------------------------------------------------------
(* Which fragments to ask for.  With fragments cut at multiples of the     *)
(* fragment size, bytes can be counted in fragments: interval i is of the  *)
(* fragments lo[i]..(hi[i] - 1).                                           *)

\* There are N fragments, of c bytes and together of z.
Multiples(z, c, N) ==
  /\ N \in Nat /\ N > 0
  /\ \A k \in Nat : k * c \in Nat /\ (k * c < z <=> k < N)
  /\ \A j, k \in Nat : j * c < k * c <=> j < k
  /\ \A k \in Nat : (k * c) \div c = k
  /\ \A k \in Nat : k > 0 => (k * c - 1) \div c = k - 1
  /\ \A k \in Nat : k < N => z \div c >= k

\* The byte a fragment starts at, the fragment a byte is in, and the number of
\* fragments.
Start(k, info) == k * info.fragsize
FragOf(b, info) == b \div info.fragsize
NFragsOf(info) == (info.size + info.fragsize - 1) \div info.fragsize

\* Where the fragments of a sample start, and which fragment a byte is in.
LEMMA StartFacts ==
  \A info, N :
    InfoOK(info) /\ N = NFragsOf(info)
    => /\ info.size \in Nat /\ N \in Nat /\ N > 0 /\ Start(0, info) = 0
       /\ \A k \in Nat : Start(k, info) \in Nat /\ (Start(k, info) < info.size <=> k < N)
       /\ \A j, k \in Nat : Start(j, info) < Start(k, info) <=> j < k
       /\ \A k \in Nat : FragOf(Start(k, info), info) = k
       /\ \A k \in Nat : k > 0 => FragOf(Start(k, info) - 1, info) = k - 1
       /\ \A k \in Nat : k < N => FragOf(info.size, info) >= k
       /\ FragOf(info.size, info) \in Int
       /\ \A b \in Nat : b < info.size /\ Boundary(b, info) => \E k \in Nat : b = Start(k, info)
<1>MultiplesOf. ASSUME NEW z \in Nat, z > 0, NEW c \in Nat, c > 0, NEW N, N = (z + c - 1) \div c
                PROVE  Multiples(z, c, N)
  <2> USE <1>MultiplesOf
  <2>1. N \in Int /\ c * N <= z + c - 1 /\ z + c - 1 < c * N + c BY Z3
  <2>2. \A j, k \in Int : j <= k => c * j <= c * k BY Z3
  <2>3. \A j \in Int : c * (j + 1) = c * j + c /\ j * c = c * j BY Z3
  <2>4. c * 0 = 0 OBVIOUS
  <2>5. N \in Nat /\ N > 0
    <3> SUFFICES ASSUME N <= 0 PROVE FALSE BY <2>1
    <3>1. PICK x \in Int : x = c * N BY <2>1
    <3>2. x <= 0 BY <2>1, <2>2, <2>4, <3>1
    <3> QED BY <2>1, <3>1, <3>2
  <2>6. ASSUME NEW j \in Int, NEW k \in Int, j < k PROVE c * j + c <= c * k
    <3>1. j + 1 <= k /\ j + 1 \in Int BY <2>6
    <3> QED BY Zenon, <2>2, <2>3, <3>1
  <2>7. ASSUME NEW k \in Nat PROVE k * c \in Nat /\ (k * c < z <=> k < N)
    <3>1. PICK x \in Int, y \in Int : x = c * k /\ y = c * N BY <2>5
    <3>2. k * c = x BY <2>3, <3>1
    <3>3. x >= 0 BY <2>2, <2>4, <3>1
    <3>4. k < N => x + c <= y BY <2>5, <2>6, <3>1
    <3>5. ~(k < N) => y <= x BY <2>2, <2>5, <3>1
    <3> QED BY <2>1, <3>1, <3>2, <3>3, <3>4, <3>5
  <2>8. ASSUME NEW j \in Nat, NEW k \in Nat PROVE j * c < k * c <=> j < k
    <3>1. PICK x \in Int, y \in Int : x = c * j /\ y = c * k OBVIOUS
    <3>2. j * c = x /\ k * c = y BY <2>3, <3>1
    <3>3. j < k => x + c <= y BY <2>6, <3>1
    <3>4. ~(j < k) => y <= x BY <2>2, <3>1
    <3> QED BY <3>2, <3>3, <3>4
  <2>9. ASSUME NEW x \in Int, NEW k \in Int, c * k <= x, x < c * k + c PROVE x \div c = k
    <3>1. PICK q \in Int : q = x \div c /\ c * q <= x /\ x < c * q + c BY Z3
    <3>2. PICK u \in Int, v \in Int : u = c * q /\ v = c * k OBVIOUS
    <3>3. q < k => u + c <= v BY Zenon, <2>6, <3>2
    <3>4. k < q => v + c <= u BY Zenon, <2>6, <3>2
    <3> QED BY <2>9, <3>1, <3>2, <3>3, <3>4
  <2>10. ASSUME NEW k \in Nat PROVE (k * c) \div c = k
    <3>1. PICK x \in Int : x = c * k OBVIOUS
    <3>2. k * c = x BY <2>3, <3>1
    <3> QED BY <2>9, <3>1, <3>2
  <2>11. ASSUME NEW k \in Nat, k > 0 PROVE (k * c - 1) \div c = k - 1
    <3>1. PICK x \in Int, y \in Int : x = c * k /\ y = c * (k - 1) OBVIOUS
    <3>2. k * c = x BY <2>3, <3>1
    <3>3. x = y + c
      <4>1. k - 1 \in Int /\ (k - 1) + 1 = k OBVIOUS
      <4> QED BY Zenon, <2>3, <3>1, <4>1
    <3>4. (x - 1) \div c = k - 1 BY <2>9, <3>1, <3>3
    <3> QED BY Zenon, <3>2, <3>4
  <2>12. ASSUME NEW k \in Nat, k < N PROVE z \div c >= k
    <3>1. PICK q \in Int : q = z \div c /\ c * q <= z /\ z < c * q + c BY Z3
    <3>2. PICK u \in Int, v \in Int : u = c * q /\ v = c * k OBVIOUS
    <3>3. q < k => u + c <= v BY <2>6, <3>2
    <3>4. v < z BY <2>3, <2>7, <2>12, <3>2
    <3> QED BY <3>1, <3>2, <3>3, <3>4
  <2> QED BY ONLY Zenon, <2>5, <2>7, <2>8, <2>10, <2>11, <2>12 DEF Multiples
<1>Main. ASSUME NEW info, InfoOK(info), NEW N, N = NFragsOf(info)
         PROVE  /\ info.size \in Nat /\ N \in Nat /\ N > 0 /\ Start(0, info) = 0
                /\ \A k \in Nat : Start(k, info) \in Nat /\ (Start(k, info) < info.size <=> k < N)
                /\ \A j, k \in Nat : Start(j, info) < Start(k, info) <=> j < k
                /\ \A k \in Nat : FragOf(Start(k, info), info) = k
                /\ \A k \in Nat : k > 0 => FragOf(Start(k, info) - 1, info) = k - 1
                /\ \A k \in Nat : k < N => FragOf(info.size, info) >= k
                /\ FragOf(info.size, info) \in Int
                /\ \A b \in Nat : b < info.size /\ Boundary(b, info) => \E k \in Nat : b = Start(k, info)
  <2> USE <1>Main
  <2>1. PICK z \in Nat, c \in Nat : z = info.size /\ c = info.fragsize /\ z > 0 /\ c > 0 BY DEF InfoOK
  <2>2. N = (z + c - 1) \div c BY Zenon, <2>1 DEF NFragsOf
  <2>3. Multiples(z, c, N) BY Zenon, <2>1, <2>2, <1>MultiplesOf
  <2>4. 0 * c = 0 /\ z \div c \in Int BY <2>1
  <2>5. (\A k : Start(k, info) = k * c) /\ (\A b : FragOf(b, info) = b \div c)
    BY Zenon, <2>1 DEF Start, FragOf
  <2>6. \A b \in Nat : b < info.size /\ Boundary(b, info) => \E k \in Nat : b = Start(k, info)
    <3> SUFFICES ASSUME NEW b \in Nat, b < z, Boundary(b, info) PROVE \E k \in Nat : b = Start(k, info)
      BY Zenon, <2>1
    <3>1. b # z OBVIOUS
    <3> QED BY Zenon, <2>1, <3>1 DEF Boundary, Start
  <2>7. Start(0, info) = 0 /\ FragOf(info.size, info) \in Int BY Zenon, <2>1, <2>4, <2>5
  <2>8. \A k \in Nat : Start(k, info) \in Nat /\ (Start(k, info) < info.size <=> k < N)
    <3> TAKE k \in Nat
    <3>1. k * c \in Nat /\ (k * c < z <=> k < N) BY ONLY Zenon, <2>3, k \in Nat DEF Multiples
    <3> QED BY ONLY Zenon, <2>1, <2>5, <3>1
  <2>9. \A j, k \in Nat : Start(j, info) < Start(k, info) <=> j < k BY ONLY <2>3, <2>5 DEF Multiples
  <2>10. \A k \in Nat : FragOf(Start(k, info), info) = k BY ONLY Zenon, <2>3, <2>5 DEF Multiples
  <2>11. \A k \in Nat : k > 0 => FragOf(Start(k, info) - 1, info) = k - 1
    BY ONLY Zenon, <2>3, <2>5 DEF Multiples
  <2>12. \A k \in Nat : k < N => FragOf(info.size, info) >= k BY ONLY Zenon, <2>1, <2>3, <2>5 DEF Multiples
  <2>13. N \in Nat /\ N > 0 /\ info.size \in Nat BY Zenon, <2>1, <2>3 DEF Multiples
  <2> QED BY ONLY Zenon, <2>6, <2>7, <2>8, <2>9, <2>10, <2>11, <2>12, <2>13
<1> QED BY Zenon, <1>Main

\* What lo and hi say of the intervals T.
Indexed(T, lo, hi, N, info) ==
  /\ \A i \in T : /\ lo[i] \in 0..N /\ hi[i] \in 0..N /\ lo[i] <= hi[i]
                  /\ i.min = Start(lo[i], info)
                  /\ IF i.maxp1 = info.size THEN hi[i] = N ELSE hi[i] < N /\ i.maxp1 = Start(hi[i], info)
                  /\ lo[i] = 0 \/ lo[i] < hi[i]
                  /\ lo[i] = 0 => hi[i] < N
  /\ \A i, j \in T : lo[i] = lo[j] => i = j
  /\ \A i, j \in T : lo[i] < lo[j] => hi[i] < lo[j]
  /\ \E i \in T : lo[i] = 0

\* The fragments there are, and those in the intervals.
Got(T, N, info) == {i \in 0..(N - 1) : Covered(T, Start(i, info))}

\* A map m of sample x is asked for: up to fragment mf, from fragment base on
\* and of maxsz fragments at most.
NackCase(info, x, T, N, mf, maxsz, base, m, got, missing) ==
  /\ InfoOK(info) /\ SampleOK(x, info) /\ T = x.fragtree
  /\ N = NFragsOf(info) /\ mf \in 0..(N - 1) /\ maxsz \in Nat /\ maxsz > 0
  /\ base = FragOf(FirstIv(T).maxp1, info) /\ m = KnownMap(x, base, mf, maxsz, info)
  /\ got = Got(T, N, info) /\ missing = (0..Max({mf} \cup got)) \ got

\* As many of the missing fragments as the bitmap holds.
MapIs(bits, missing, maxsz) ==
  bits = IF missing = {} THEN {} ELSE missing \cap Min(missing)..(Min(missing) + maxsz - 1)

\* The fragments that are there and where the map ends, by index: l is the last
\* interval, base the first fragment that is missing.
Reach(T, lo, hi, N, got, mf, base, l, end) ==
  /\ N \in Nat /\ mf \in Nat /\ mf < N /\ base \in Nat
  /\ \A i \in T : lo[i] \in Nat /\ hi[i] \in Nat /\ hi[i] <= N /\ (lo[i] = 0 \/ lo[i] < hi[i])
  /\ got \subseteq 0..(N - 1)
  /\ \A k \in 0..(N - 1) : k \in got <=> \E i \in T : lo[i] <= k /\ k < hi[i]
  /\ l \in T /\ \A i \in T : i = l \/ hi[i] < lo[l]
  /\ \E f \in T : lo[f] = 0 /\ hi[f] = base
  /\ end = IF hi[l] <= mf THEN mf ELSE IF lo[l] > 0 THEN lo[l] - 1 ELSE 0

\* What is missing ends where the map does.
ReachesEnd(lo, hi, N, got, base, l, end, missing) ==
  \/ missing = {} /\ end < base
  \/ /\ end \in Nat /\ end < N /\ base <= end
     /\ missing = (0..end) \ got
     /\ hi[l] = N => end < lo[l]

\* A map from the first missing fragment on, of n bits, which has the fragments
\* that are not there.
MapFrom(base, end, maxsz, n, got, gap, bits) ==
  /\ base \in Nat /\ end \in Nat /\ maxsz \in Nat /\ base <= end
  /\ n \in Nat /\ n <= maxsz /\ n <= end - base + 1 /\ (n = maxsz \/ n = end - base + 1)
  /\ base \notin got /\ \A k \in 0..(base - 1) : k \in got
  /\ \A k \in base..end : k \in gap <=> k \notin got
  /\ bits = {k \in base..(base + n - 1) : k \in gap}

\* nn_defrag_nackmap of a sample it knows: of the fragments missing among those
\* up to mf and those before one that is there, as many as the bitmap holds.
LEMMA NackMap ==
  \A info, x, T, N, mf, maxsz, base, m, got, missing :
    NackCase(info, x, T, N, mf, maxsz, base, m, got, missing)
    => MapIs(m.bits, missing, maxsz)
<1>TreeIndex. ASSUME NEW info, InfoOK(info), NEW T, TreeOK(T, info), NEW N, N = NFragsOf(info)
              PROVE  \E lo, hi : Indexed(T, lo, hi, N, info)
  <2> USE <1>TreeIndex
  <2>1. PICK z \in Nat : z = info.size BY Zenon DEF InfoOK
  <2>2. /\ N \in Nat /\ N > 0 /\ Start(0, info) = 0
        /\ \A k \in Nat : Start(k, info) \in Nat /\ (Start(k, info) < z <=> k < N)
    BY Zenon, <2>1, StartFacts
  <2>3. \A j, k \in Nat : Start(j, info) < Start(k, info) <=> j < k BY Zenon, StartFacts
  <2>4. \A b \in Nat : b < z /\ Boundary(b, info) => \E k \in Nat : b = Start(k, info)
    BY Zenon, <2>1, StartFacts
  <2>5. TreeShape(T, info) /\ \A i \in T : i.min = 0 => i.maxp1 < z BY Zenon, <2>1 DEF TreeOK
  <2>6. \A i \in T : /\ i.min \in Nat /\ i.maxp1 \in Nat /\ i.min <= i.maxp1 /\ i.maxp1 <= z
                     /\ i.min < i.maxp1 \/ i.min = 0
                     /\ Boundary(i.min, info) /\ Boundary(i.maxp1, info)
    BY Zenon, <2>1, <2>5, TreeFields DEF TreeShape
  <2>7. \A i \in T : i.min < z BY <2>1, <2>5, <2>6
  <2>8. PICK lo : lo = [i \in T |-> CHOOSE k \in Nat : i.min = Start(k, info)] BY Zenon
  <2>9. PICK hi : hi = [i \in T |-> IF i.maxp1 = z THEN N ELSE CHOOSE k \in Nat : i.maxp1 = Start(k, info)]
    BY Zenon
  <2>10. \A i \in T : lo[i] \in Nat /\ i.min = Start(lo[i], info) /\ lo[i] < N
    <3> TAKE i \in T
    <3>1. \E k \in Nat : i.min = Start(k, info) BY Zenon, <2>4, <2>6, <2>7
    <3>2. lo[i] \in Nat /\ i.min = Start(lo[i], info) BY Zenon, <2>8, <3>1
    <3> QED BY Zenon, <2>2, <2>7, <3>2
  <2>11. \A i \in T : hi[i] \in Nat /\ IF i.maxp1 = z THEN hi[i] = N ELSE hi[i] < N /\ i.maxp1 = Start(hi[i], info)
    <3> TAKE i \in T
    <3>1. CASE i.maxp1 = z BY Zenon, <2>2, <2>9, <3>1
    <3>2. CASE i.maxp1 # z
      <4>1. i.maxp1 < z BY <2>6, <3>2
      <4>2. \E k \in Nat : i.maxp1 = Start(k, info) BY Zenon, <2>4, <2>6, <4>1
      <4>3. hi[i] \in Nat /\ i.maxp1 = Start(hi[i], info) BY Zenon, <2>9, <3>2, <4>2
      <4> QED BY Zenon, <2>2, <3>2, <4>1, <4>3
    <3> QED BY Zenon, <3>1, <3>2
  <2>12. \A i \in T : lo[i] = 0 <=> i.min = 0
    <3> TAKE i \in T
    <3>1. Start(0, info) < Start(lo[i], info) <=> 0 < lo[i] BY Zenon, <2>3, <2>10
    <3> QED BY <2>2, <2>10, <3>1
  <2>13. ASSUME NEW i \in T
         PROVE  /\ lo[i] \in 0..N /\ hi[i] \in 0..N /\ lo[i] <= hi[i]
                /\ i.min = Start(lo[i], info)
                /\ IF i.maxp1 = info.size THEN hi[i] = N ELSE hi[i] < N /\ i.maxp1 = Start(hi[i], info)
                /\ lo[i] = 0 \/ lo[i] < hi[i]
                /\ lo[i] = 0 => hi[i] < N
    <3>1. lo[i] = 0 \/ lo[i] < hi[i]
      <4> SUFFICES ASSUME lo[i] # 0 PROVE lo[i] < hi[i] BY Zenon
      <4>1. i.min < i.maxp1 BY Zenon, <2>6, <2>12
      <4>2. CASE i.maxp1 = z BY Zenon, <2>10, <2>11, <4>2
      <4>3. CASE i.maxp1 # z
        <5>1. Start(lo[i], info) < Start(hi[i], info) BY Zenon, <2>10, <2>11, <4>1, <4>3
        <5> QED BY Zenon, <2>3, <2>10, <2>11, <5>1
      <4> QED BY Zenon, <4>2, <4>3
    <3>2. lo[i] = 0 => hi[i] < N
      <4> SUFFICES ASSUME lo[i] = 0 PROVE i.maxp1 # z BY Zenon, <2>11
      <4>1. i.maxp1 < z BY Zenon, <2>5, <2>12
      <4> QED BY <2>6, <4>1
    <3>3. lo[i] \in 0..N /\ hi[i] \in 0..N BY <2>2, <2>10, <2>11
    <3>4. lo[i] <= hi[i] BY <3>1, <3>3
    <3> QED BY Zenon, <2>1, <2>10, <2>11, <3>1, <3>2, <3>3, <3>4
  <2>14. \A i, j \in T : lo[i] = lo[j] => i = j BY <2>5, <2>10 DEF TreeShape
  <2>15. ASSUME NEW i \in T, NEW j \in T, lo[i] < lo[j] PROVE hi[i] < lo[j]
    <3>1. Start(lo[i], info) < Start(lo[j], info) BY Zenon, <2>3, <2>10, <2>15
    <3>2. i.min < j.min BY Zenon, <2>10, <3>1
    <3>3. i.maxp1 < j.min BY Zenon, <2>5, <3>2 DEF TreeShape
    <3>4. i.maxp1 # z BY <2>6, <2>7, <3>3
    <3>5. Start(hi[i], info) < Start(lo[j], info) BY Zenon, <2>10, <2>11, <3>3, <3>4
    <3> QED BY Zenon, <2>3, <2>10, <2>11, <3>5
  <2>16. \E i \in T : lo[i] = 0 BY Zenon, <2>5, <2>12 DEF TreeShape
  <2>17. Indexed(T, lo, hi, N, info) BY Zenon, <2>13, <2>14, <2>15, <2>16 DEF Indexed
  <2> QED BY Zenon, <2>17
\* Fragment k is there if it is one of lo[i]..(hi[i] - 1); or it lies after
\* one interval and before the next.
<1>FragmentGot. ASSUME NEW info, InfoOK(info), NEW T, NEW N, N = NFragsOf(info),
                       NEW lo, NEW hi, Indexed(T, lo, hi, N, info), NEW k \in 0..(N - 1)
                PROVE  /\ k \in Got(T, N, info) <=> \E i \in T : lo[i] <= k /\ k < hi[i]
                       /\ k \notin Got(T, N, info) <=>
                            \E p \in T : hi[p] <= k /\ \A q \in T : lo[p] < lo[q] => k < lo[q]
  <2> USE <1>FragmentGot
  <2>1. PICK z \in Nat : z = info.size BY Zenon DEF InfoOK
  <2>2. N \in Nat /\ N > 0 BY Zenon, StartFacts
  <2>3. \A j \in Nat : Start(j, info) \in Nat /\ (Start(j, info) < info.size <=> j < N) BY Zenon, StartFacts
  <2>4. \A j, l \in Nat : Start(j, info) < Start(l, info) <=> j < l BY Zenon, StartFacts
  <2>5. k \in Nat /\ k < N /\ Start(k, info) \in Nat /\ Start(k, info) < z BY <2>1, <2>2, <2>3
  <2>6. \A i \in T : /\ lo[i] \in Nat /\ hi[i] \in Nat /\ hi[i] <= N /\ lo[i] <= hi[i] /\ i.min = Start(lo[i], info)
                     /\ IF i.maxp1 = z THEN hi[i] = N ELSE i.maxp1 = Start(hi[i], info)
    BY <2>1, <2>2 DEF Indexed
  <2>7. ASSUME NEW i \in T
        PROVE  (i.min <= Start(k, info) /\ Start(k, info) < i.maxp1) <=> (lo[i] <= k /\ k < hi[i])
    <3>1. i.min <= Start(k, info) <=> lo[i] <= k
      <4>1. Start(k, info) < Start(lo[i], info) <=> k < lo[i] BY Zenon, <2>4, <2>5, <2>6
      <4>2. Start(lo[i], info) \in Nat BY Zenon, <2>3, <2>6
      <4> QED BY <2>5, <2>6, <4>1, <4>2
    <3>2. Start(k, info) < i.maxp1 <=> k < hi[i]
      <4>1. CASE i.maxp1 = z BY Zenon, <2>5, <2>6, <4>1
      <4>2. CASE i.maxp1 # z
        <5>1. i.maxp1 = Start(hi[i], info) /\ hi[i] \in Nat BY Zenon, <2>6, <4>2
        <5>2. Start(k, info) < Start(hi[i], info) <=> k < hi[i] BY Zenon, <2>4, <2>5, <5>1
        <5> QED BY Zenon, <5>1, <5>2
      <4> QED BY Zenon, <4>1, <4>2
    <3> QED BY Zenon, <3>1, <3>2
  <2>8. k \in Got(T, N, info) <=> \E i \in T : lo[i] <= k /\ k < hi[i]
    <3>1. k \in Got(T, N, info) <=> \E i \in T : i.min <= Start(k, info) /\ Start(k, info) < i.maxp1
      BY Zenon DEF Got, Covered
    <3> QED BY Zenon, <2>7, <3>1
  <2>9. ASSUME NEW p \in T, hi[p] <= k, \A q \in T : lo[p] < lo[q] => k < lo[q],
               NEW i \in T, lo[i] <= k, k < hi[i]
        PROVE  FALSE
    <3>1. ~(lo[p] < lo[i]) BY <2>5, <2>6, <2>9
    <3>2. CASE lo[i] < lo[p]
      <4>1. hi[i] < lo[p] BY Zenon, <3>2 DEF Indexed
      <4> QED BY <2>5, <2>6, <2>9, <4>1
    <3>3. CASE lo[i] = lo[p]
      <4>1. i = p BY Zenon, <3>3 DEF Indexed
      <4> QED BY <2>5, <2>6, <2>9, <4>1
    <3> QED BY <2>6, <3>1, <3>2, <3>3
  <2>10. ASSUME \A i \in T : ~(lo[i] <= k /\ k < hi[i])
         PROVE  \E p \in T : hi[p] <= k /\ \A q \in T : lo[p] < lo[q] => k < lo[q]
    <3>1. PICK S : S = {lo[i] : i \in {j \in T : lo[j] <= k}} BY Zenon
    <3>2. S \in SUBSET (0..k) BY <2>5, <2>6, <3>1
    <3>3. S # {}
      <4>1. PICK i \in T : lo[i] = 0 BY Zenon DEF Indexed
      <4>2. lo[i] <= k BY <2>5, <4>1
      <4> QED BY Zenon, <3>1, <4>2
    <3>4. PICK m : m \in S /\ \A y \in S : y <= m BY Zenon, <2>5, <3>2, <3>3, Maximum
    <3>5. PICK p \in T : lo[p] = m /\ lo[p] <= k BY Zenon, <3>1, <3>4
    <3>6. hi[p] <= k BY <2>5, <2>6, <2>10, <3>5
    <3>7. ASSUME NEW q \in T, lo[p] < lo[q] PROVE k < lo[q]
      <4> SUFFICES ASSUME lo[q] <= k PROVE FALSE BY <2>5, <2>6
      <4>1. lo[q] \in S BY Zenon, <3>1
      <4>2. lo[q] <= lo[p] BY Zenon, <3>4, <3>5, <4>1
      <4> QED BY <2>6, <3>7, <4>2
    <3> QED BY Zenon, <3>6, <3>7
  <2> QED BY Zenon, <2>8, <2>9, <2>10
\* The least of the missing fragments, given where they lie.
<1>MissingIs. ASSUME NEW got, NEW end \in Nat, NEW base \in Nat, base <= end, base \notin got,
                     \A k \in 0..(base - 1) : k \in got, NEW missing, missing = (0..end) \ got
              PROVE  missing # {} /\ Min(missing) = base
  <2> USE <1>MissingIs
  <2>1. base \in missing OBVIOUS
  <2>2. missing \in SUBSET Nat /\ missing # {} BY <2>1
  <2>3. PICK m : m = Min(missing) BY Zenon
  <2>4. m \in missing /\ m <= base BY Zenon, <2>1, <2>2, <2>3, Minimum
  <2>5. m \in Nat /\ m \notin got BY <2>4
  <2>6. ~(m < base) BY <2>5
  <2> QED BY <2>2, <2>3, <2>4, <2>5, <2>6
\* The facts about indexed intervals as they are used.
<1>IndexFacts. ASSUME NEW info, InfoOK(info), NEW T, NEW N, N = NFragsOf(info),
                      NEW lo, NEW hi, Indexed(T, lo, hi, N, info)
               PROVE  /\ N \in Nat /\ N > 0
                      /\ \A i \in T : lo[i] \in Nat /\ hi[i] \in Nat /\ hi[i] <= N /\ lo[i] <= hi[i]
                      /\ \A i \in T : i.min = Start(lo[i], info) /\ i.min \in Nat
                      /\ \A i \in T : hi[i] < N => i.maxp1 = Start(hi[i], info) /\ i.maxp1 < info.size
                      /\ \A i \in T : hi[i] = N => i.maxp1 = info.size
                      /\ \A i, j \in T : i.min < j.min <=> lo[i] < lo[j]
  <2> USE <1>IndexFacts
  <2>1. N \in Nat /\ N > 0 BY Zenon, StartFacts
  <2>2. \A j \in Nat : Start(j, info) \in Nat /\ (Start(j, info) < info.size <=> j < N) BY Zenon, StartFacts
  <2>3. \A j, l \in Nat : Start(j, info) < Start(l, info) <=> j < l BY Zenon, StartFacts
  <2>4. \A i \in T : /\ lo[i] \in Nat /\ hi[i] \in Nat /\ hi[i] <= N /\ lo[i] <= hi[i]
                     /\ i.min = Start(lo[i], info)
                     /\ IF i.maxp1 = info.size THEN hi[i] = N ELSE hi[i] < N /\ i.maxp1 = Start(hi[i], info)
    BY <2>1 DEF Indexed
  <2>5. \A i \in T : i.min = Start(lo[i], info) /\ i.min \in Nat BY Zenon, <2>2, <2>4
  <2>6. ASSUME NEW i \in T, hi[i] < N PROVE i.maxp1 = Start(hi[i], info) /\ i.maxp1 < info.size
    <3>1. hi[i] # N BY <2>1, <2>4, <2>6
    <3>2. i.maxp1 = Start(hi[i], info) BY Zenon, <2>4, <3>1
    <3> QED BY Zenon, <2>2, <2>4, <2>6, <3>2
  <2>7. \A i \in T : hi[i] = N => i.maxp1 = info.size
    <3> TAKE i \in T
    <3>1. hi[i] < N => hi[i] # N BY <2>1, <2>4
    <3> QED BY Zenon, <2>4, <3>1
  <2>8. \A i, j \in T : i.min < j.min <=> lo[i] < lo[j]
    <3> TAKE i \in T, j \in T
    <3>1. Start(lo[i], info) < Start(lo[j], info) <=> lo[i] < lo[j] BY Zenon, <2>3, <2>4
    <3> QED BY Zenon, <2>5, <3>1
  <2> QED BY Zenon, <2>1, <2>4, <2>5, <2>6, <2>7, <2>8
\* The map begins with the fragment after the first interval, which is missing.
<1>FirstIndex.
     ASSUME NEW info, InfoOK(info), NEW T, TreeOK(T, info), NEW N, N = NFragsOf(info),
            NEW lo, NEW hi, Indexed(T, lo, hi, N, info), NEW base, base = FragOf(FirstIv(T).maxp1, info)
     PROVE  /\ base \in Nat /\ base < N /\ base \notin Got(T, N, info)
            /\ \A k \in 0..(base - 1) : k \in Got(T, N, info)
            /\ \E f \in T : lo[f] = 0 /\ hi[f] = base
  <2> USE <1>FirstIndex
  <2>1. \A k \in Nat : FragOf(Start(k, info), info) = k BY Zenon, StartFacts
  <2>2. N \in Nat /\ \A i \in T : lo[i] \in Nat /\ hi[i] \in Nat /\ hi[i] <= N /\ lo[i] <= hi[i]
    BY <1>IndexFacts
  <2>3. \A i, j \in T : i.min < j.min <=> lo[i] < lo[j] BY Zenon, <1>IndexFacts
  <2>4. PICK f \in T : lo[f] = 0 BY Zenon DEF Indexed
  <2>5. hi[f] < N BY Zenon, <2>4 DEF Indexed
  <2>6. f = FirstIv(T)
    <3>1. PICK z \in Nat : z = info.size BY Zenon DEF InfoOK
    <3>2. T \in SUBSET IvRec(z) /\ T # {} BY Zenon, <2>4, <3>1 DEF TreeOK, TreeShape
    <3>3. PICK g \in T : g = FirstIv(T) /\ \A j \in T : g.min <= j.min BY Zenon, <3>2, FirstLast
    <3>4. g.min \in Nat /\ f.min \in Nat BY Zenon, <1>IndexFacts
    <3>5. ~(f.min < g.min) BY <3>3, <3>4
    <3>6. ~(lo[f] < lo[g]) BY Zenon, <2>3, <3>5
    <3>7. lo[g] = lo[f] BY <2>2, <2>4, <3>6
    <3>8. g = f BY Zenon, <3>7 DEF Indexed
    <3> QED BY Zenon, <3>3, <3>8
  <2>7. base = hi[f]
    <3>1. f.maxp1 = Start(hi[f], info) BY <2>5, <1>IndexFacts
    <3> QED BY Zenon, <2>1, <2>2, <2>6, <3>1
  <2>8. base \in Nat /\ base < N BY Zenon, <2>2, <2>5, <2>7
  <2>9. ASSUME NEW k \in 0..(base - 1) PROVE k \in Got(T, N, info)
    <3>1. k \in 0..(N - 1) /\ lo[f] <= k /\ k < hi[f] BY <2>2, <2>4, <2>7, <2>8
    <3> QED BY Zenon, <3>1, <1>FragmentGot
  <2>10. base \notin Got(T, N, info)
    <3>1. \A q \in T : lo[f] < lo[q] => base < lo[q] BY Zenon, <2>7 DEF Indexed
    <3>2. hi[f] <= base /\ base \in 0..(N - 1) BY <2>2, <2>7, <2>8
    <3>3. \E p \in T : hi[p] <= base /\ \A q \in T : lo[p] < lo[q] => base < lo[q] BY Zenon, <3>1, <3>2
    <3> QED BY <3>2, <3>3, <1>FragmentGot
  <2> QED BY Zenon, <2>4, <2>7, <2>8, <2>9, <2>10
\* The map ends with the last fragment published that is missing.
<1>LastIndex.
     ASSUME NEW info, InfoOK(info), NEW x, NEW T, T = x.fragtree, IsLast(T, x.lastfrag),
            NEW N, N = NFragsOf(info), NEW lo, NEW hi, Indexed(T, lo, hi, N, info), NEW mf \in 0..(N - 1)
     PROVE  \E l \in T : /\ \A i \in T : i = l \/ hi[i] < lo[l]
                         /\ MapEnd(x, mf, info) = IF hi[l] <= mf THEN mf ELSE IF lo[l] > 0 THEN lo[l] - 1 ELSE 0
  <2> USE <1>LastIndex
  <2>1. N \in Nat /\ Start(0, info) = 0 BY Zenon, StartFacts
  <2>2. \A j, k \in Nat : Start(j, info) < Start(k, info) <=> j < k BY Zenon, StartFacts
  <2>3. \A k \in Nat : k > 0 => FragOf(Start(k, info) - 1, info) = k - 1 BY Zenon, StartFacts
  <2>4. \A i \in T : lo[i] \in Nat /\ hi[i] \in Nat /\ hi[i] <= N /\ lo[i] <= hi[i] BY <1>IndexFacts
  <2>5. \A i \in T : i.min = Start(lo[i], info) /\ i.min \in Nat BY Zenon, <1>IndexFacts
  <2>6. \A i, j \in T : i.min < j.min <=> lo[i] < lo[j] BY Zenon, <1>IndexFacts
  <2>7. PICK l \in T : l = Lastfrag(x) /\ l.min = x.lastfrag BY Zenon DEF IsLast, Lastfrag
  <2>8. ASSUME NEW i \in T PROVE i = l \/ hi[i] < lo[l]
    <3>1. ~(l.min < i.min) BY <2>5, <2>7 DEF IsLast
    <3>2. ~(lo[l] < lo[i]) BY Zenon, <2>6, <3>1
    <3>3. lo[i] = lo[l] \/ lo[i] < lo[l] BY <2>4, <3>2
    <3> QED BY Zenon, <3>3 DEF Indexed
  <2>9. (l.maxp1 < Start(mf + 1, info) /\ l.maxp1 < info.size) <=> hi[l] <= mf
    <3>1. mf \in Nat /\ mf < N /\ mf + 1 \in Nat BY <2>1
    <3>2. CASE hi[l] = N
      <4>1. l.maxp1 = info.size /\ info.size \in Nat BY <3>2, <1>IndexFacts DEF InfoOK
      <4> QED BY <2>1, <3>1, <3>2, <4>1
    <3>3. CASE hi[l] < N
      <4>1. l.maxp1 = Start(hi[l], info) /\ l.maxp1 < info.size BY Zenon, <3>3, <1>IndexFacts
      <4>2. Start(hi[l], info) < Start(mf + 1, info) <=> hi[l] < mf + 1 BY Zenon, <2>2, <2>4, <3>1
      <4>3. hi[l] < mf + 1 <=> hi[l] <= mf BY <2>4, <3>1
      <4> QED BY Zenon, <4>1, <4>2, <4>3
    <3> QED BY <2>1, <2>4, <3>2, <3>3
  <2>10. l.min > 0 <=> lo[l] > 0
    <3>1. Start(0, info) < Start(lo[l], info) <=> 0 < lo[l] BY Zenon, <2>2, <2>4
    <3> QED BY Zenon, <2>1, <2>4, <2>5, <3>1
  <2>11. lo[l] > 0 => FragOf(l.min - 1, info) = lo[l] - 1 BY Zenon, <2>3, <2>4, <2>5
  <2>12. MapEnd(x, mf, info) = IF l.maxp1 < Start(mf + 1, info) /\ l.maxp1 < info.size THEN mf
                               ELSE IF l.min > 0 THEN FragOf(l.min - 1, info) ELSE 0
    BY Zenon, <2>7 DEF MapEnd, Start, FragOf
  <2>13. MapEnd(x, mf, info) = IF hi[l] <= mf THEN mf ELSE IF lo[l] > 0 THEN lo[l] - 1 ELSE 0
    BY Zenon, <2>9, <2>10, <2>11, <2>12
  <2> QED BY Zenon, <2>8, <2>13
\* Before the last interval, or after it when it does not end the sample,
\* the fragments in gaps are the ones that are missing.
<1>GapIndex. ASSUME NEW info, InfoOK(info), NEW x, NEW T, T = x.fragtree,
                    NEW N, N = NFragsOf(info), NEW lo, NEW hi, Indexed(T, lo, hi, N, info),
                    NEW l \in T, \A i \in T : i = l \/ hi[i] < lo[l],
                    NEW k \in 0..(N - 1), hi[l] = N => k < lo[l]
             PROVE  (\E p \in T : InGapAfter(x, p, k, info)) <=> k \notin Got(T, N, info)
  <2> USE <1>GapIndex
  <2>1. N \in Nat /\ N > 0 /\ FragOf(info.size, info) \in Int BY Zenon, StartFacts
  <2>2. \A j, m \in Nat : Start(j, info) < Start(m, info) <=> j < m BY Zenon, StartFacts
  <2>3. \A j \in Nat : FragOf(Start(j, info), info) = j BY Zenon, StartFacts
  <2>4. \A j \in Nat : j < N => FragOf(info.size, info) >= j BY Zenon, StartFacts
  <2>5. \A i \in T : lo[i] \in Nat /\ hi[i] \in Nat /\ hi[i] <= N /\ lo[i] <= hi[i] BY <1>IndexFacts
  <2>6. \A i \in T : i.min = Start(lo[i], info) /\ i.min \in Nat BY Zenon, <1>IndexFacts
  <2>7. \A i, j \in T : i.min < j.min <=> lo[i] < lo[j] BY <1>IndexFacts
  <2>8. k \in Nat /\ k < N BY <2>1
  <2>9. ASSUME NEW p \in T PROVE k >= FragOf(p.maxp1, info) <=> hi[p] <= k
    <3>1. CASE hi[p] < N
      <4>1. p.maxp1 = Start(hi[p], info) BY <3>1, <1>IndexFacts
      <4>2. FragOf(p.maxp1, info) = hi[p] BY Zenon, <2>3, <2>5, <4>1
      <4> QED BY Zenon, <2>5, <2>8, <4>2
    <3>2. CASE hi[p] = N
      <4>1. p.maxp1 = info.size BY <3>2, <1>IndexFacts
      <4>2. p = l BY <2>1, <2>5, <3>2
      <4>3. k < lo[l] BY Zenon, <3>2, <4>2
      <4>4. lo[l] < N BY Zenon, <2>1, <2>5, <3>2, <4>2 DEF Indexed
      <4>5. FragOf(info.size, info) >= lo[l] BY Zenon, <2>4, <2>5, <4>4
      <4>6. ~(k >= FragOf(info.size, info)) BY <2>1, <2>5, <2>8, <4>3, <4>5
      <4> QED BY <2>1, <2>8, <3>2, <4>1, <4>6
    <3> QED BY <2>1, <2>5, <3>1, <3>2
  <2>10. ASSUME NEW p \in T
         PROVE  InGapAfter(x, p, k, info) <=> hi[p] <= k /\ \A q \in T : lo[p] < lo[q] => k < lo[q]
    <3>1. InGapAfter(x, p, k, info)
            <=> k >= FragOf(p.maxp1, info) /\ \A q \in T : q.min > p.min => Start(k, info) < q.min
      BY Zenon DEF InGapAfter, FragOf, Start
    <3>2. ASSUME NEW q \in T PROVE (q.min > p.min <=> lo[p] < lo[q]) /\ (Start(k, info) < q.min <=> k < lo[q])
      <4>1. q.min > p.min <=> p.min < q.min BY Zenon, <2>6
      <4>2. Start(k, info) < Start(lo[q], info) <=> k < lo[q] BY Zenon, <2>2, <2>5, <2>8
      <4> QED BY Zenon, <2>6, <2>7, <4>1, <4>2
    <3> QED BY Zenon, <2>9, <3>1, <3>2
  <2>11. k \notin Got(T, N, info) <=> \E p \in T : hi[p] <= k /\ \A q \in T : lo[p] < lo[q] => k < lo[q]
    BY <1>FragmentGot
  <2> QED BY Zenon, <2>10, <2>11
\* defrag_nackmap ends the map at mf, or before the last interval when that
\* reaches beyond mf: in both cases nothing after it is missing.
<1>MissingReach. ASSUME NEW T, NEW lo, NEW hi, NEW N, NEW got, NEW mf, NEW base, NEW l, NEW end, NEW top,
                        Reach(T, lo, hi, N, got, mf, base, l, end), top = Max({mf} \cup got)
                 PROVE  ReachesEnd(lo, hi, N, got, base, l, end, (0..top) \ got)
  <2> USE <1>MissingReach
  <2>1. N \in Nat /\ mf \in Nat /\ mf < N /\ base \in Nat /\ l \in T BY Zenon DEF Reach
  <2>2. \A i \in T : lo[i] \in Nat /\ hi[i] \in Nat /\ hi[i] <= N /\ (lo[i] = 0 \/ lo[i] < hi[i])
    BY Zenon DEF Reach
  <2>3. got \subseteq 0..(N - 1) /\ \A k \in 0..(N - 1) : k \in got <=> \E i \in T : lo[i] <= k /\ k < hi[i]
    BY Zenon DEF Reach
  <2>4. \A i \in T : i = l \/ hi[i] < lo[l] BY Zenon DEF Reach
  <2>5. PICK f \in T : lo[f] = 0 /\ hi[f] = base BY Zenon DEF Reach
  <2>6. end = IF hi[l] <= mf THEN mf ELSE IF lo[l] > 0 THEN lo[l] - 1 ELSE 0 BY Zenon DEF Reach
  <2>7. lo[l] \in Nat /\ hi[l] \in Nat /\ hi[l] <= N /\ (lo[l] = 0 \/ lo[l] < hi[l]) BY ONLY Zenon, <2>1, <2>2
  <2>8. \A i \in T : hi[i] <= hi[l]
    <3> SUFFICES ASSUME NEW i \in T PROVE hi[i] <= hi[l] BY Zenon
    <3>1. hi[i] \in Nat BY Zenon, <2>2
    <3>2. i = l \/ hi[i] < lo[l] BY Zenon, <2>4
    <3> QED BY ONLY <2>7, <3>1, <3>2
  <2>9. \A k \in got : k \in Nat /\ k < N /\ k < hi[l]
    <3> SUFFICES ASSUME NEW k \in got PROVE k \in Nat /\ k < N /\ k < hi[l] BY Zenon
    <3>1. k \in 0..(N - 1) BY Zenon, <2>3
    <3>2. PICK i \in T : lo[i] <= k /\ k < hi[i] BY Zenon, <2>3, <3>1
    <3>3. hi[i] \in Nat /\ hi[i] <= hi[l] BY Zenon, <2>2, <2>8
    <3> QED BY ONLY <2>1, <2>7, <3>1, <3>2, <3>3
  <2>10. top \in {mf} \cup got /\ \A y \in {mf} \cup got : y <= top
    <3>1. {mf} \cup got \in SUBSET (0..N) /\ {mf} \cup got # {}
      <4>1. mf \in 0..N BY ONLY <2>1
      <4>2. \A k \in 0..(N - 1) : k \in 0..N BY ONLY <2>1
      <4> QED BY Zenon, <2>3, <4>1, <4>2
    <3> QED BY ONLY Zenon, <2>1, <3>1, Maximum, top = Max({mf} \cup got)
  <2>11. CASE hi[l] <= mf
    <3>1. end = mf BY Zenon, <2>6, <2>11
    <3>2. mf \notin got BY ONLY <2>1, <2>7, <2>9, <2>11
    <3>3. top = mf
      <4>1. ~(top \in got) BY ONLY <2>1, <2>7, <2>9, <2>10, <2>11
      <4> QED BY Zenon, <2>10, <4>1
    <3>4. base <= hi[l] BY Zenon, <2>5, <2>8
    <3>5. base <= end /\ end < N /\ end \in Nat BY ONLY <2>1, <2>7, <2>11, <3>1, <3>4
    <3>6. hi[l] # N BY ONLY <2>1, <2>7, <2>11
    <3> QED BY Zenon, <3>1, <3>3, <3>5, <3>6 DEF ReachesEnd
  <2>12. CASE ~(hi[l] <= mf) /\ lo[l] > 0
    <3>1. end = lo[l] - 1 BY Zenon, <2>6, <2>12
    <3>2. end \in Nat /\ end < N /\ end < lo[l] BY ONLY <2>1, <2>7, <2>12, <3>1
    <3>3. f # l BY ONLY <2>5, <2>12
    <3>4. base < lo[l] BY Zenon, <2>4, <2>5, <3>3
    <3>5. base <= end BY ONLY <2>1, <2>7, <3>1, <3>4
    <3>6. lo[l] < hi[l] BY ONLY <2>7, <2>12
    <3>7. ASSUME NEW k \in Nat, lo[l] <= k, k < hi[l] PROVE k \in got
      <4>1. k \in 0..(N - 1) BY ONLY <2>1, <2>7, <3>7, k \in Nat
      <4> QED BY Zenon, <2>1, <2>3, <3>7, <4>1
    <3>8. hi[l] - 1 \in got
      <4>1. hi[l] - 1 \in Nat /\ lo[l] <= hi[l] - 1 /\ hi[l] - 1 < hi[l] BY ONLY <2>7, <3>6
      <4> QED BY Zenon, <3>7, <4>1
    <3>9. top = hi[l] - 1
      <4>1. hi[l] - 1 <= top BY Zenon, <2>10, <3>8
      <4>2. top \in Nat /\ top < hi[l] BY ONLY <2>1, <2>7, <2>9, <2>10, <2>12
      <4> QED BY ONLY <2>7, <4>1, <4>2
    <3>10. ASSUME NEW k PROVE k \in (0..top) \ got <=> k \in (0..end) \ got
      <4>1. k \in 0..end => k \in 0..top BY ONLY <2>7, <3>1, <3>6, <3>9
      <4>2. k \in 0..top /\ ~(k \in 0..end) => k \in Nat /\ lo[l] <= k /\ k < hi[l] BY ONLY <2>7, <3>1, <3>9
      <4> QED BY Zenon, <3>7, <4>1, <4>2
    <3>11. (0..top) \ got = (0..end) \ got BY Zenon, <3>10
    <3> QED BY Zenon, <3>2, <3>5, <3>11 DEF ReachesEnd
  <2>13. CASE ~(hi[l] <= mf) /\ lo[l] = 0
    <3>1. l = f
      <4>1. hi[f] \in Nat BY Zenon, <2>2
      <4>2. ~(hi[f] < lo[l]) BY ONLY <2>13, <4>1
      <4> QED BY Zenon, <2>4, <4>2
    <3>2. end = 0 /\ hi[l] = base BY ONLY <2>5, <2>6, <2>13, <3>1
    <3>3. end < base BY ONLY <2>1, <2>13, <3>2
    <3>4. \A k \in 0..top : k \in got
      <4> SUFFICES ASSUME NEW k \in 0..top PROVE k \in got BY Zenon
      <4>1. top \in Nat /\ top < hi[l] BY ONLY <2>1, <2>7, <2>9, <2>10, <2>13
      <4>2. k \in 0..(N - 1) /\ lo[l] <= k /\ k < hi[l] BY ONLY <2>1, <2>7, <2>13, <4>1, k \in 0..top
      <4> QED BY Zenon, <2>1, <2>3, <4>2
    <3>5. (0..top) \ got = {} BY Zenon, <3>4
    <3> QED BY Zenon, <3>3, <3>5 DEF ReachesEnd
  <2>14. lo[l] = 0 \/ lo[l] > 0 BY ONLY <2>7
  <2> QED BY Zenon, <2>11, <2>12, <2>13, <2>14
\* The number of bits: up to the end of the map and no more than fit.
<1>NumBits. ASSUME NEW base \in Nat, NEW end \in Nat, NEW maxsz \in Nat, base <= end, NEW n,
                   n = Min({end - base + 1, maxsz})
            PROVE  n \in Nat /\ n <= maxsz /\ n <= end - base + 1 /\ (n = maxsz \/ n = end - base + 1)
  <2> USE <1>NumBits
  <2>1. PICK S : S = {end - base + 1, maxsz} BY Zenon
  <2>2. S \in SUBSET Nat /\ S # {} BY <2>1
  <2>3. PICK y \in S : y = Min(S) /\ \A z \in S : y <= z BY Zenon, <2>2, Minimum
  <2>4. n = y BY Zenon, <2>1, <2>3
  <2> QED BY ONLY Zenon, <2>1, <2>2, <2>3, <2>4
\* Such a map asks for the missing fragments.
<1>BitsAre. ASSUME NEW base, NEW end, NEW maxsz, NEW n, NEW got, NEW gap, NEW bits,
                   MapFrom(base, end, maxsz, n, got, gap, bits)
            PROVE  MapIs(bits, (0..end) \ got, maxsz)
  <2> USE <1>BitsAre
  <2> USE DEF MapFrom
  <2>1. (0..end) \ got # {} /\ Min((0..end) \ got) = base BY Zenon, <1>MissingIs
  <2>2. ASSUME NEW k PROVE k \in bits <=> k \in ((0..end) \ got) \cap base..(base + maxsz - 1)
    <3>1. k \in base..(base + n - 1) <=> k \in 0..end /\ k \in base..(base + maxsz - 1) BY SMT
    <3>2. k \in base..(base + n - 1) => k \in base..end BY SMT
    <3> QED BY Zenon, <3>1, <3>2
  <2>3. bits = ((0..end) \ got) \cap base..(base + maxsz - 1) BY Zenon, <2>2
  <2> QED BY Zenon, <2>1, <2>3 DEF MapIs
<1>Main. ASSUME NEW info, NEW x, NEW T, NEW N, NEW mf, NEW maxsz, NEW base, NEW m, NEW got, NEW missing,
                NackCase(info, x, T, N, mf, maxsz, base, m, got, missing)
         PROVE  MapIs(m.bits, missing, maxsz)
  <2> USE <1>Main
  <2>0. InfoOK(info) /\ SampleOK(x, info) /\ T = x.fragtree BY Zenon DEF NackCase
  <2>1. N = NFragsOf(info) /\ mf \in 0..(N - 1) /\ maxsz \in Nat /\ got = Got(T, N, info)
    BY Zenon DEF NackCase
  <2>2. base = FragOf(FirstIv(T).maxp1, info) /\ m = KnownMap(x, base, mf, maxsz, info) BY Zenon DEF NackCase
  <2>3. missing = (0..Max({mf} \cup got)) \ got BY Zenon DEF NackCase
  <2>4. TreeOK(T, info) /\ IsLast(T, x.lastfrag) BY Zenon, <2>0 DEF SampleOK
  <2>5. PICK lo, hi : Indexed(T, lo, hi, N, info) BY Zenon, <2>0, <2>1, <2>4, <1>TreeIndex
  <2>6. N \in Nat /\ N > 0 BY Zenon, <2>0, <2>1, StartFacts
  <2>7. base \in Nat /\ base < N /\ base \notin got /\ \A k \in 0..(base - 1) : k \in got
    BY <2>0, <2>1, <2>2, <2>4, <2>5, <1>FirstIndex
  <2>8. \E f \in T : lo[f] = 0 /\ hi[f] = base BY <2>0, <2>1, <2>2, <2>4, <2>5, <1>FirstIndex
  <2>9. PICK end : end = MapEnd(x, mf, info) BY Zenon
  <2>10. PICK l \in T : /\ \A i \in T : i = l \/ hi[i] < lo[l]
                        /\ end = IF hi[l] <= mf THEN mf ELSE IF lo[l] > 0 THEN lo[l] - 1 ELSE 0
    BY Zenon, <2>0, <2>1, <2>4, <2>5, <2>9, <1>LastIndex
  <2>11. Reach(T, lo, hi, N, got, mf, base, l, end)
    <3>1. \A i \in T : lo[i] \in Nat /\ hi[i] \in Nat /\ hi[i] <= N /\ (lo[i] = 0 \/ lo[i] < hi[i])
      <4>1. \A i \in T : lo[i] \in Nat /\ hi[i] \in Nat /\ hi[i] <= N BY <2>0, <2>1, <2>5, <1>IndexFacts
      <4>2. \A i \in T : lo[i] = 0 \/ lo[i] < hi[i] BY Zenon, <2>5 DEF Indexed
      <4> QED BY Zenon, <4>1, <4>2
    <3>2. got \subseteq 0..(N - 1) BY Zenon, <2>1 DEF Got
    <3>3. \A k \in 0..(N - 1) : k \in got <=> \E i \in T : lo[i] <= k /\ k < hi[i]
      BY <2>0, <2>1, <2>5, <1>FragmentGot
    <3>4. mf \in Nat /\ mf < N BY ONLY <2>1, <2>6
    <3> QED BY Zenon, <2>6, <2>7, <2>8, <2>10, <3>1, <3>2, <3>3, <3>4 DEF Reach
  <2>12. ReachesEnd(lo, hi, N, got, base, l, end, missing) BY Zenon, <2>3, <2>11, <1>MissingReach
  <2>13. PICK n : n = IF end < base THEN 0 ELSE Min({end - base + 1, maxsz}) BY Zenon
  <2>14. PICK gap : gap = {k \in 0..(N - 1) : \E p \in T : InGapAfter(x, p, k, info)} BY Zenon
  <2>15. m.bits = {k \in base..(base + n - 1) : \E p \in T : InGapAfter(x, p, k, info)}
    BY Zenon, <2>0, <2>2, <2>9, <2>13 DEF KnownMap, Map
  <2>16. CASE missing = {} /\ end < base
    <3>1. n = 0 BY Zenon, <2>13, <2>16
    <3>2. base..(base + n - 1) = {} BY ONLY <2>7, <3>1
    <3>3. m.bits = {} BY Zenon, <2>15, <3>2
    <3> QED BY Zenon, <2>16, <3>3 DEF MapIs
  <2>17. CASE /\ end \in Nat /\ end < N /\ base <= end
              /\ missing = (0..end) \ got /\ (hi[l] = N => end < lo[l])
    <3>1. ~(end < base) BY ONLY <2>7, <2>17
    <3>2. n = Min({end - base + 1, maxsz}) BY Zenon, <2>13, <3>1
    <3>3. n \in Nat /\ n <= maxsz /\ n <= end - base + 1 /\ (n = maxsz \/ n = end - base + 1)
      BY ONLY <2>1, <2>7, <2>17, <3>2, <1>NumBits
    <3>4. ASSUME NEW k \in base..end PROVE k \in gap <=> k \notin got
      <4>1. lo[l] \in Nat BY Zenon, <2>10, <2>11 DEF Reach
      <4>2. k \in 0..(N - 1) /\ (hi[l] = N => k < lo[l]) BY ONLY <2>6, <2>7, <2>17, <4>1, k \in base..end
      <4>3. (\E p \in T : InGapAfter(x, p, k, info)) <=> k \notin got
        BY Zenon, <2>0, <2>1, <2>5, <2>10, <4>2, <1>GapIndex
      <4> QED BY Zenon, <2>14, <4>2, <4>3
    <3>5. m.bits = {k \in base..(base + n - 1) : k \in gap}
      <4>1. \A k \in base..(base + n - 1) : k \in 0..(N - 1) BY ONLY <2>6, <2>7, <2>17, <3>3
      <4> QED BY Zenon, <2>14, <2>15, <4>1
    <3>6. MapFrom(base, end, maxsz, n, got, gap, m.bits)
      BY ONLY Zenon, <2>1, <2>7, <2>17, <3>3, <3>4, <3>5 DEF MapFrom
    <3>7. MapIs(m.bits, (0..end) \ got, maxsz) BY Zenon, <3>6, <1>BitsAre
    <3> QED BY Zenon, <2>17, <3>7
  <2> QED BY Zenon, <2>12, <2>16, <2>17 DEF ReachesEnd
<1> QED BY Zenon, <1>Main
---------------------------------------------------------------------------
(* What the operations preserve. *)

\* A defragmenter of samples up to n; with samples that fit in one fragment it
\* has nothing to do.
DefragOK(d, info, n) ==
  /\ d = [sampletree |-> d.sampletree, max_sample |-> d.max_sample, n_samples |-> d.n_samples,
          max_samples |-> d.max_samples, drop_mode |-> d.drop_mode]
  /\ DOMAIN d.sampletree \subseteq 1..n
  /\ d.sampletree = [s \in DOMAIN d.sampletree |-> d.sampletree[s]]
  /\ \A s \in DOMAIN d.sampletree : SampleOK(d.sampletree[s], info)
  /\ DOMAIN d.sampletree # {} => info.fragsize < info.size
  /\ d.n_samples = Cardinality(DOMAIN d.sampletree)
  /\ d.max_samples \in Nat \ {0} /\ d.n_samples <= d.max_samples
  /\ d.max_sample = MaxOr0(DOMAIN d.sampletree)

---------------------------------------------------------------------------
(* Fragments. *)

\* Fragments begin and end at a boundary, and are some bytes of the sample.
LEMMA FragmentCut ==
  ASSUME NEW info, InfoOK(info), NEW f, IsFragments(f, info)
  PROVE  /\ f.min \in Nat /\ f.maxp1 \in Nat /\ f.min < f.maxp1 /\ f.maxp1 <= info.size
         /\ f = Iv(f.min, f.maxp1)
         /\ Boundary(f.min, info) /\ Boundary(f.maxp1, info)
         /\ info.size <= info.fragsize => f = Iv(0, info.size)
<1>1. PICK z \in Nat, c \in Nat : z = info.size /\ c = info.fragsize /\ z > 0 /\ c > 0 BY DEF InfoOK
<1>2. PICK k \in Nat, j \in Nat : k <= j /\ k * c < z /\ f = Iv(k * c, Min({(j + 1) * c, z}))
  BY Zenon, <1>1 DEF IsFragments
<1>3. PICK lo \in Nat : lo = k * c
  <2>1. k * c \in Nat BY <1>1
  <2> QED BY Zenon, <2>1
<1>4. PICK up \in Nat : up = (j + 1) * c /\ lo + c <= up
  <2>1. (j + 1) * c \in Nat BY <1>1
  <2>2. (k + 1) * c = k * c + c BY k \in Nat, c \in Nat
  <2>3. (k + 1) * c <= (j + 1) * c BY <1>1, <1>2
  <2> QED BY Zenon, <1>3, <2>1, <2>2, <2>3
<1>5. PICK hi \in Nat : /\ hi = Min({(j + 1) * c, z})
                        /\ (hi = up /\ hi <= z) \/ (hi = z /\ z <= up)
  <2>1. {up, z} \in SUBSET Nat /\ {up, z} # {} BY <1>1, <1>4
  <2>2. Min({up, z}) \in {up, z} /\ \A y \in {up, z} : Min({up, z}) <= y
    BY Zenon, <2>1, Minimum
  <2> QED BY <1>1, <1>4, <2>2
<1>6. f = Iv(lo, hi) /\ f.min = lo /\ f.maxp1 = hi BY Zenon, <1>2, <1>3, <1>5 DEF Iv
<1>7. lo < hi /\ hi <= z BY <1>1, <1>2, <1>3, <1>4, <1>5
<1>8. Boundary(lo, info) /\ Boundary(hi, info)
  <2>1. Boundary(lo, info) BY Zenon, <1>1, <1>3 DEF Boundary
  <2>2. j + 1 \in Nat /\ (hi = z \/ hi = (j + 1) * c) BY <1>4, <1>5
  <2>3. Boundary(hi, info) BY Zenon, <1>1, <2>2 DEF Boundary
  <2> QED BY Zenon, <2>1, <2>3
<1>9. ASSUME z <= c PROVE lo = 0 /\ hi = z
  <2>1. k = 0
    <3> SUFFICES ASSUME k >= 1 PROVE FALSE OBVIOUS
    <3>1. k * c >= 1 * c BY <1>1
    <3> QED BY <1>1, <1>2, <1>9, <3>1
  <2>2. lo = 0 BY <1>1, <1>3, <2>1
  <2> QED BY <1>1, <1>4, <1>5, <1>9, <2>2
<1> QED BY Zenon, <1>1, <1>6, <1>7, <1>8, <1>9

---------------------------------------------------------------------------
(* The intervals of one sample. *)

\* The byte an interval ends before is in no interval.
LEMMA GapAfter ==
  ASSUME NEW info, InfoOK(info), NEW T, TreeShape(T, info), NEW i \in T
  PROVE  ~Covered(T, i.maxp1)
<1> SUFFICES ASSUME NEW j \in T, j.min <= i.maxp1, i.maxp1 < j.maxp1 PROVE FALSE BY Zenon DEF Covered
<1>1. /\ i.min \in Nat /\ i.maxp1 \in Nat /\ j.min \in Nat /\ j.maxp1 \in Nat /\ i.min <= i.maxp1
  BY Zenon, TreeFields
<1>2. CASE i.min < j.min
  <2>1. i.maxp1 < j.min BY Zenon, <1>2 DEF TreeShape
  <2> QED BY <1>1, <2>1
<1>3. CASE j.min < i.min
  <2>1. j.maxp1 < i.min BY Zenon, <1>3 DEF TreeShape
  <2> QED BY <1>1, <2>1
<1>4. CASE i.min = j.min
  <2>1. i = j BY Zenon, <1>4 DEF TreeShape
  <2> QED BY <1>1, <2>1
<1> QED BY <1>1, <1>2, <1>3, <1>4

InIv(f, b) == f.min <= b /\ b < f.maxp1

\* [lo, hi) has the bytes of intervals R and no bytes that neither R nor f has.
Makes(R, f, lo, hi) ==
  \A b \in Nat : /\ Covered(R, b) => lo <= b /\ b < hi
                 /\ lo <= b /\ b < hi => Covered(R, b) \/ InIv(f, b)

\* f does not reach over both ends of an interval.
NoneInside(T, f) == ~\E iv \in T : f.min < iv.min /\ iv.maxp1 < f.maxp1

\* All of f is in [lo, hi) then; and in any case a byte of f that T lacks is.
Brings(T, f, lo, hi) ==
  /\ NoneInside(T, f) => lo <= f.min /\ f.maxp1 <= hi
  /\ \E b \in Nat : InIv(f, b) /\ ~Covered(T, b) /\ lo <= b /\ b < hi

\* Intervals R of the tree and fragments f make up [lo, hi).
Takes(T, info, l, R, f, lo, hi) ==
  /\ TreeShape(T, info) /\ IsLast(T, l) /\ R \subseteq T
  /\ lo \in Nat /\ hi \in Nat /\ lo < hi /\ hi <= info.size /\ Boundary(lo, info) /\ Boundary(hi, info)
  /\ \A j \in T \ R : j.maxp1 < lo \/ hi < j.min
  /\ lo = 0 \/ \A j \in R : j.min # 0
  /\ Makes(R, f, lo, hi) /\ Brings(T, f, lo, hi) /\ \A j \in R : lo <= j.min

\* What then becomes of the tree, and of lastfrag.
Becomes(T, R, lo, hi) == (T \ R) \cup {Iv(lo, hi)}
LastOf(R, l, lo) == IF lo > l \/ (\E j \in R : j.min = l) THEN lo ELSE l

\* U has the bytes of T, no bytes that neither T nor f has, all bytes of f
\* unless it reaches over both ends of an interval, and a new one if f has one.
AddsBytes(T, f, U) ==
  /\ \A b \in Nat : /\ Covered(T, b) => Covered(U, b)
                    /\ Covered(U, b) => Covered(T, b) \/ InIv(f, b)
                    /\ NoneInside(T, f) /\ InIv(f, b) => Covered(U, b)
  /\ \/ \A b \in Nat : InIv(f, b) => Covered(T, b)
     \/ \E b \in Nat : InIv(f, b) /\ ~Covered(T, b) /\ Covered(U, b)

\* q follows p: there is nothing between them.
Follows(T, p, q) == q \in T /\ p.min < q.min /\ \A i \in T : p.min < i.min => q.min <= i.min

\* y is what becomes of intervals T when f extends q, the one after it.
ExtendsTo(T, l, q, f, y) ==
  \/ /\ f.maxp1 <= q.maxp1
     /\ y = [fragtree |-> (T \ {q}) \cup {Iv(f.min, q.maxp1)}, lastfrag |-> IF l = q.min THEN f.min ELSE l]
  \/ /\ q.maxp1 < f.maxp1 /\ \A j \in T : q.min < j.min => f.maxp1 < j.min
     /\ y = [fragtree |-> (T \ {q}) \cup {Iv(f.min, f.maxp1)}, lastfrag |-> IF l = q.min THEN f.min ELSE l]
  \/ /\ q.maxp1 < f.maxp1
     /\ \E g \in T : /\ Follows(T, q, g) /\ g.min <= f.maxp1
                     /\ y = [fragtree |-> (T \ {q, g}) \cup {Iv(f.min, g.maxp1)},
                             lastfrag |-> IF l = g.min THEN f.min ELSE l]

\* What makes up a sample that fragments f were added to; it is the whole only
\* if they were appended to the interval before them.
Added(x, p, f, y, info) ==
  /\ y = [fragtree |-> y.fragtree, lastfrag |-> y.lastfrag]
  /\ TreeShape(y.fragtree, info) /\ IsLast(y.fragtree, y.lastfrag)
  /\ AddsBytes(x.fragtree, f, y.fragtree)
  /\ ~Appends(p, f) => TreeOK(y.fragtree, info)

\* defrag_add_fragment keeps the intervals right and adds bytes of the
\* fragments.
LEMMA AddFragment ==
  \A info, x, f, p, y :
    /\ InfoOK(info) /\ SampleOK(x, info) /\ IsFragments(f, info) /\ p = Predeq(x, f)
    /\ y = defrag_add_fragment(x, p, f)
    => Added(x, p, f, y, info)
\* Intervals R are replaced by one that stays apart from the others.
<1>ReplaceShape.
     ASSUME NEW info, InfoOK(info), NEW T, NEW l, NEW R, NEW f, NEW lo, NEW hi, Takes(T, info, l, R, f, lo, hi)
     PROVE  TreeShape(Becomes(T, R, lo, hi), info)
  <2> USE <1>ReplaceShape
  <2> USE DEF Takes
  <2> Becomes(T, R, lo, hi) = (T \ R) \cup {Iv(lo, hi)} BY Zenon DEF Becomes
  <2>1. info.size \in Nat BY Zenon DEF InfoOK
  <2>2. PICK w : w = Iv(lo, hi) BY Zenon
  <2>3. w.min = lo /\ w.maxp1 = hi /\ w \in IvRec(info.size)
    <3>1. lo \in 0..info.size /\ hi \in 0..info.size BY <2>1
    <3> QED BY Zenon, <2>1, <2>2, <3>1, IvFields
  <2>4. PICK U : U = (T \ R) \cup {w} BY Zenon
  <2>5. \A i \in U : i = w \/ (i \in T /\ i \notin R /\ (i.maxp1 < lo \/ hi < i.min)) BY Zenon, <2>4
  <2>6. \A i \in T : i.min \in Nat /\ i.maxp1 \in Nat /\ i.min <= i.maxp1 BY Zenon, TreeFields
  <2>7. U \subseteq IvRec(info.size) BY Zenon, <2>3, <2>5 DEF TreeShape
  <2>8. \A i \in U : Boundary(i.min, info) /\ Boundary(i.maxp1, info) BY Zenon, <2>3, <2>5 DEF TreeShape
  <2>9. \A i \in U : i.min < i.maxp1 \/ i.min = 0 BY Zenon, <2>3, <2>5 DEF TreeShape
  <2>10. ASSUME NEW i \in U, NEW j \in U, i.min = j.min PROVE i = j
    <3>1. CASE i = w /\ j = w BY Zenon, <3>1
    <3>2. CASE i = w /\ j # w BY <2>3, <2>5, <2>6, <2>10, <3>2
    <3>3. CASE i # w /\ j = w BY <2>3, <2>5, <2>6, <2>10, <3>3
    <3>4. CASE i # w /\ j # w BY Zenon, <2>5, <2>10, <3>4 DEF TreeShape
    <3> QED BY Zenon, <3>1, <3>2, <3>3, <3>4
  <2>11. ASSUME NEW i \in U, NEW j \in U, i.min < j.min PROVE i.maxp1 < j.min
    <3>1. CASE i = w /\ j = w BY <2>3, <2>11, <3>1
    <3>2. CASE i = w /\ j # w BY <2>3, <2>5, <2>6, <2>11, <3>2
    <3>3. CASE i # w /\ j = w BY <2>3, <2>5, <2>6, <2>11, <3>3
    <3>4. CASE i # w /\ j # w BY Zenon, <2>5, <2>11, <3>4 DEF TreeShape
    <3> QED BY Zenon, <3>1, <3>2, <3>3, <3>4
  <2>12. \E i \in U : i.min = 0
    <3>1. CASE lo = 0 BY Zenon, <2>3, <2>4, <3>1
    <3>2. CASE lo # 0
      <4>1. PICK i \in T : i.min = 0 BY Zenon DEF TreeShape
      <4>2. i \notin R BY Zenon, <3>2, <4>1
      <4> QED BY Zenon, <2>4, <4>1, <4>2
    <3> QED BY Zenon, <3>1, <3>2
  <2>13. TreeShape(U, info) BY Zenon, <2>7, <2>8, <2>9, <2>10, <2>11, <2>12 DEF TreeShape
  <2> QED BY Zenon, <2>2, <2>4, <2>13
\* Replacing intervals R by what they and the fragments make adds bytes of the
\* fragments.
<1>ReplaceCovered.
     ASSUME NEW T, NEW R, R \subseteq T, NEW lo \in Nat, NEW hi \in Nat, NEW f, Makes(R, f, lo, hi),
            Brings(T, f, lo, hi), f.min \in Nat, f.maxp1 \in Nat
     PROVE  AddsBytes(T, f, (T \ R) \cup {Iv(lo, hi)})
  <2> USE <1>ReplaceCovered
  <2>0. PICK U : U = (T \ R) \cup {Iv(lo, hi)} BY Zenon
  <2>1. ASSUME NEW b \in Nat PROVE Covered(U, b) <=> Covered(T \ R, b) \/ (lo <= b /\ b < hi)
    <3>1. PICK w : w = Iv(lo, hi) BY Zenon
    <3>2. w.min = lo /\ w.maxp1 = hi BY Zenon, <3>1 DEF Iv
    <3>3. Covered((T \ R) \cup {w}, b) <=> Covered(T \ R, b) \/ (w.min <= b /\ b < w.maxp1)
      BY ONLY Zenon DEF Covered
    <3> QED BY Zenon, <2>0, <3>1, <3>2, <3>3
  <2>2. \A b \in Nat : Covered(T, b) <=> Covered(T \ R, b) \/ Covered(R, b)
    BY Zenon DEF Covered
  <2>3. \A b \in Nat : /\ Covered(T, b) => Covered(U, b)
                       /\ Covered(U, b) => Covered(T, b) \/ InIv(f, b)
    BY Zenon, <2>1, <2>2 DEF Makes
  <2>4. ASSUME NoneInside(T, f), NEW b \in Nat, InIv(f, b) PROVE Covered(U, b)
    <3>1. lo <= b /\ b < hi BY <2>4 DEF Brings, InIv
    <3> QED BY Zenon, <2>1, <3>1
  <2>5. \E b \in Nat : InIv(f, b) /\ ~Covered(T, b) /\ Covered(U, b) BY Zenon, <2>1 DEF Brings
  <2> QED BY Zenon, <2>0, <2>3, <2>4, <2>5 DEF AddsBytes
\* FindSucc finds the next interval, if there is one.
<1>SuccFound.
     ASSUME NEW n \in Nat, NEW T \in SUBSET IvRec(n), NEW l, IsLast(T, l), NEW p, p.min \in Nat, p.min < l,
            NEW q, q = FindSucc(T, p)
     PROVE  q \in T /\ p.min < q.min /\ \A i \in T : p.min < i.min => q.min <= i.min
  <2> USE <1>SuccFound
  <2> DEFINE S == {j \in T : j.min > p.min}
  <2>1. \A i \in T : i.min \in Nat BY IvFields
  <2>2. S \in SUBSET IvRec(n) /\ S # {}
    <3>1. PICK i \in T : i.min = l BY Zenon DEF IsLast
    <3>2. i.min > p.min BY Zenon, <2>1, <3>1
    <3> QED BY Zenon, <3>1, <3>2
  <2>3. FirstIv(S) \in S /\ \A j \in S : FirstIv(S).min <= j.min BY Zenon, <2>2, FirstLast
  <2>4. q = FirstIv(S) BY Zenon DEF FindSucc
  <2>5. q \in T /\ q.min > p.min /\ \A j \in T : j.min > p.min => q.min <= j.min BY Zenon, <2>3, <2>4
  <2> QED BY Zenon, <2>1, <2>5
\* Both ways of looking for it find the interval at or before the fragments.
<1>PredeqFound.
     ASSUME NEW info, InfoOK(info), NEW x, SampleOK(x, info), NEW f, IsFragments(f, info),
            NEW p, p = Predeq(x, f)
     PROVE  p \in x.fragtree /\ p.min <= f.min /\ \A i \in x.fragtree : i.min <= f.min => i.min <= p.min
  <2> USE <1>PredeqFound
  <2>1. /\ TreeShape(x.fragtree, info) /\ x.fragtree \in SUBSET IvRec(info.size) /\ info.size \in Nat
        /\ IsLast(x.fragtree, x.lastfrag) /\ f.min \in Nat
    BY Zenon, FragmentCut DEF SampleOK, TreeOK, TreeShape, InfoOK
  <2>2. \A i \in x.fragtree : i.min \in Nat BY Zenon, <2>1, TreeFields
  <2>3. CASE f.min >= x.lastfrag
    <3>1. p = Lastfrag(x) BY Zenon, <2>3 DEF Predeq
    <3>2. p \in x.fragtree /\ p.min = x.lastfrag BY Zenon, <2>1, <3>1 DEF Lastfrag, IsLast
    <3> QED BY Zenon, <2>1, <2>2, <2>3, <3>2 DEF IsLast
  <2>4. CASE ~(f.min >= x.lastfrag)
    <3> DEFINE S == {i \in x.fragtree : i.min <= f.min}
    <3>1. p = LastIv(S) BY Zenon, <2>4 DEF Predeq
    <3>2. PICK i \in x.fragtree : i.min = 0 BY Zenon, <2>1 DEF TreeShape
    <3>3. S \in SUBSET IvRec(info.size) /\ S # {} BY <2>1, <3>2
    <3>4. p \in S /\ \A j \in S : p.min >= j.min BY Zenon, <2>1, <3>1, <3>3, FirstLast
    <3> QED BY Zenon, <2>1, <2>2, <3>4
  <2> QED BY Zenon, <2>3, <2>4
\* ExtendSucc makes q longer at its low end; if it grows at its high end as
\* well it may absorb the next interval.
<1>Extends.
     ASSUME NEW info, InfoOK(info), NEW T, TreeShape(T, info), NEW l, IsLast(T, l),
            NEW q \in T, NEW f, f.min \in Nat, f.maxp1 \in Nat, f.min < f.maxp1, f.maxp1 <= info.size,
            f.min < q.min, \A j \in T : j.min < q.min => j.min < f.min,
            NEW y, y = ExtendSucc([fragtree |-> T, lastfrag |-> l], q, f)
     PROVE  ExtendsTo(T, l, q, f, y)
  <2> USE <1>Extends
  <2>1. T \in SUBSET IvRec(info.size) /\ info.size \in Nat BY Zenon DEF TreeShape, InfoOK
  <2>2. /\ \A i \in T : i.min \in Nat /\ i.maxp1 \in Nat /\ i.min <= l
        /\ l \in Nat /\ q.min \in Nat /\ q.maxp1 \in Nat
    BY Zenon, TreeFields DEF IsLast
  <2>3. CASE ~(f.maxp1 > q.maxp1)
    <3>1. y = [fragtree |-> (T \ {q}) \cup {Iv(f.min, q.maxp1)}, lastfrag |-> IF l = q.min THEN f.min ELSE l]
      BY Zenon, <2>3 DEF ExtendSucc
    <3>2. f.maxp1 <= q.maxp1 BY <2>2, <2>3
    <3> QED BY Zenon, <3>1, <3>2 DEF ExtendsTo
  <2>4. CASE f.maxp1 > q.maxp1
    <3>1. PICK w : w = Iv(f.min, f.maxp1) BY Zenon
    <3>2. w.min = f.min /\ w.maxp1 = f.maxp1 BY Zenon, <3>1 DEF Iv
    <3>3. PICK U : U = (T \ {q}) \cup {w} BY Zenon
    <3>4. PICK m : m = IF l = q.min THEN f.min ELSE l BY Zenon
    <3>5. PICK x1 : x1 = [fragtree |-> U, lastfrag |-> m] BY Zenon
    <3>6. y = defrag_try_merge_with_succ(x1, w) BY Zenon, <2>4, <3>1, <3>3, <3>4, <3>5 DEF ExtendSucc
    <3>7. q.maxp1 < f.maxp1 BY <2>2, <2>4
    <3>8. CASE l = q.min
      <4>1. y = x1 BY Zenon, <3>2, <3>4, <3>5, <3>6, <3>8 DEF defrag_try_merge_with_succ
      <4>2. \A j \in T : q.min < j.min => f.maxp1 < j.min BY <2>2, <3>8
      <4> QED BY Zenon, <3>1, <3>3, <3>4, <3>5, <3>7, <4>1, <4>2 DEF ExtendsTo
    <3>9. CASE l # q.min
      <4>1. m = l /\ f.min < l BY <2>2, <3>4, <3>9
      <4>2. U \in SUBSET IvRec(info.size)
        <5>1. f.min \in 0..info.size /\ f.maxp1 \in 0..info.size BY <2>1
        <5>2. w \in IvRec(info.size) BY Zenon, <2>1, <3>1, <5>1, IvFields
        <5> QED BY Zenon, <2>1, <3>3, <5>2
      <4>3. IsLast(U, l)
        <5>1. PICK i \in T : i.min = l BY Zenon DEF IsLast
        <5>2. i \in U BY Zenon, <3>3, <3>9, <5>1
        <5>3. f.min <= l BY <2>2, <4>1
        <5>4. \A j \in U : j.min <= l BY Zenon, <2>2, <3>2, <3>3, <5>3
        <5> QED BY Zenon, <5>1, <5>2, <5>4 DEF IsLast
      <4>4. PICK g : g = FindSucc(U, w) BY Zenon
      <4>5. g \in U /\ w.min < g.min /\ \A i \in U : w.min < i.min => g.min <= i.min
        <5>1. w.min \in Nat /\ w.min < l BY Zenon, <3>2, <4>1
        <5> QED BY Zenon, <2>1, <4>2, <4>3, <4>4, <5>1, <1>SuccFound
      <4>6. g \in T /\ g # q /\ g.min \in Nat /\ g.maxp1 \in Nat
        <5>1. g # w BY <3>2, <4>5
        <5>2. g \in T /\ g.min \in Nat BY Zenon, <2>2, <3>3, <4>5, <5>1
        <5>3. g # q
          <6> SUFFICES ASSUME q \in U PROVE FALSE BY Zenon, <4>5
          <6>1. q = w BY Zenon, <3>3
          <6> QED BY <3>2, <6>1
        <5> QED BY Zenon, <2>2, <5>2, <5>3
      <4>7. Follows(T, q, g)
        <5>1. ~(g.min < q.min)
          <6> SUFFICES ASSUME g.min < f.min PROVE FALSE BY Zenon, <4>6
          <6> QED BY <3>2, <4>5, <4>6
        <5>2. g.min # q.min BY Zenon, <4>6 DEF TreeShape
        <5>3. q.min < g.min BY <2>2, <4>6, <5>1, <5>2
        <5>4. ASSUME NEW i \in T, q.min < i.min PROVE g.min <= i.min
          <6>1. i # q /\ f.min < i.min BY <2>2, <5>4
          <6> QED BY Zenon, <3>2, <3>3, <4>5, <6>1
        <5> QED BY Zenon, <4>6, <5>3, <5>4 DEF Follows
      <4>8. CASE g.min > f.maxp1
        <5>1. y = x1 BY Zenon, <3>2, <3>5, <3>6, <4>4, <4>8 DEF defrag_try_merge_with_succ
        <5>2. \A j \in T : q.min < j.min => f.maxp1 < j.min BY <2>2, <4>6, <4>7, <4>8 DEF Follows
        <5> QED BY Zenon, <3>1, <3>3, <3>4, <3>5, <3>7, <5>1, <5>2 DEF ExtendsTo
      <4>9. CASE ~(g.min > f.maxp1)
        <5>1. g.min <= f.maxp1 BY <4>6, <4>9
        <5>2. w.min # m BY <2>2, <3>2, <4>1
        <5>3. y = [fragtree |-> (U \ {w, g}) \cup {Iv(w.min, g.maxp1)},
                   lastfrag |-> IF m = g.min THEN w.min ELSE m]
          BY Zenon, <3>2, <3>5, <3>6, <4>4, <4>9, <5>2 DEF defrag_try_merge_with_succ
        <5>4. w \notin T
          <6> SUFFICES ASSUME w \in T PROVE FALSE BY Zenon
          <6>1. w.min < q.min => w.min < f.min BY Zenon
          <6> QED BY <3>2, <6>1
        <5>5. U \ {w, g} = T \ {q, g} BY Zenon, <3>3, <5>4
        <5> QED BY Zenon, <3>2, <3>7, <4>1, <4>6, <4>7, <5>1, <5>3, <5>5 DEF ExtendsTo
      <4> QED BY Zenon, <4>8, <4>9
    <3> QED BY Zenon, <3>8, <3>9
  <2> QED BY Zenon, <2>3, <2>4
\* What defrag_add_fragment may do: nothing; make the interval before the
\* fragments longer, and perhaps join it with the one after; make the one
\* after longer, at one end or both, and perhaps join it with the next; or
\* add an interval.
<1>AddCases.
     ASSUME NEW info, InfoOK(info), NEW x, SampleOK(x, info), NEW f, IsFragments(f, info),
            NEW p \in x.fragtree, p.min <= f.min, \A i \in x.fragtree : i.min <= f.min => i.min <= p.min,
            NEW y, y = defrag_add_fragment(x, p, f), NEW T, T = x.fragtree, NEW l, l = x.lastfrag
     PROVE  \/ y = x /\ p.maxp1 >= f.maxp1
            \/ /\ f.min <= p.maxp1 /\ p.maxp1 < f.maxp1
               /\ \A j \in T : p.min < j.min => f.maxp1 < j.min
               /\ y = [fragtree |-> (T \ {p}) \cup {Iv(p.min, f.maxp1)}, lastfrag |-> l]
            \/ /\ f.min <= p.maxp1 /\ p.maxp1 < f.maxp1
               /\ \E q \in T : /\ Follows(T, p, q) /\ q.min <= f.maxp1
                               /\ y = [fragtree |-> (T \ {p, q}) \cup {Iv(p.min, q.maxp1)},
                                       lastfrag |-> IF l = q.min THEN p.min ELSE l]
            \/ /\ p.maxp1 < f.min
               /\ \E q \in T : Follows(T, p, q) /\ q.min <= f.maxp1 /\ ExtendsTo(T, l, q, f, y)
            \/ /\ p.maxp1 < f.min
               /\ \A j \in T : p.min < j.min => f.maxp1 < j.min
               /\ y = [fragtree |-> T \cup {f}, lastfrag |-> IF f.min > l THEN f.min ELSE l]
  <2> USE <1>AddCases
  <2>1. /\ TreeShape(T, info) /\ T \in SUBSET IvRec(info.size) /\ info.size \in Nat
        /\ IsLast(T, l) /\ x = [fragtree |-> T, lastfrag |-> l]
    BY Zenon DEF SampleOK, TreeOK, TreeShape, InfoOK
  <2>2. \A i \in T : i.min \in Nat /\ i.maxp1 \in Nat /\ i.min <= i.maxp1 /\ i.maxp1 <= info.size /\ i.min <= info.size
    BY Zenon, <2>1, TreeFields
  <2>3. f.min \in Nat /\ f.maxp1 \in Nat /\ f.min < f.maxp1 /\ f.maxp1 <= info.size BY Zenon, FragmentCut
  <2>5. p \in T /\ p.min \in Nat /\ p.maxp1 \in Nat /\ l \in Nat /\ \A i \in T : i.min <= l
    BY Zenon, <2>1, <2>2 DEF IsLast
  <2>6. \A j \in T : p.min < j.min => f.min < j.min
    <3> TAKE j \in T
    <3>1. j.min <= f.min => j.min <= p.min BY Zenon
    <3> QED BY <2>2, <2>3, <2>5, <3>1
  <2>7. CASE p.maxp1 >= f.maxp1
    <3>1. y = x BY Zenon, <2>7 DEF defrag_add_fragment
    <3> QED BY Zenon, <2>7, <3>1
  <2>8. CASE p.maxp1 < f.maxp1 /\ f.min <= p.maxp1
    <3>2. PICK g : g = Iv(p.min, f.maxp1) BY Zenon
    <3>3. g.min = p.min /\ g.maxp1 = f.maxp1 BY Zenon, <3>2 DEF Iv
    <3>4. PICK U : U = (T \ {p}) \cup {g} BY Zenon
    <3>5. PICK x1 : x1 = [fragtree |-> U, lastfrag |-> l] BY Zenon
    <3>6. y = defrag_try_merge_with_succ(x1, g)
      <4>1. ~(p.maxp1 >= f.maxp1) BY <2>3, <2>5, <2>8
      <4>2. [x EXCEPT !.fragtree = (@ \ {p}) \cup {Iv(p.min, f.maxp1)}] = x1 BY <2>1, <3>2, <3>4, <3>5
      <4> QED BY Zenon, <2>8, <3>2, <4>1, <4>2 DEF defrag_add_fragment, GrowPredeq
    <3>7. CASE p.min = l
      <4>1. y = x1 BY Zenon, <3>3, <3>5, <3>6, <3>7 DEF defrag_try_merge_with_succ
      <4>2. \A j \in T : p.min < j.min => f.maxp1 < j.min BY <2>2, <2>5, <3>7
      <4> QED BY Zenon, <2>8, <3>2, <3>4, <3>5, <4>1, <4>2
    <3>8. CASE p.min # l
      <4>1. p.min < l BY <2>5, <3>8
      <4>2. U \in SUBSET IvRec(info.size)
        <5>1. p.min \in 0..info.size /\ f.maxp1 \in 0..info.size BY <2>1, <2>2, <2>3
        <5>2. g \in IvRec(info.size) BY Zenon, <2>1, <3>2, <5>1, IvFields
        <5> QED BY Zenon, <2>1, <3>4, <5>2
      <4>3. IsLast(U, l)
        <5>1. PICK i \in T : i.min = l BY Zenon, <2>1 DEF IsLast
        <5>2. i \in U BY Zenon, <3>4, <3>8, <5>1
        <5>3. \A j \in U : j.min <= l BY Zenon, <2>5, <3>3, <3>4
        <5> QED BY Zenon, <5>1, <5>2, <5>3 DEF IsLast
      <4>4. PICK q : q = FindSucc(U, g) BY Zenon
      <4>5. q \in U /\ g.min < q.min /\ \A i \in U : g.min < i.min => q.min <= i.min
        <5>1. g.min \in Nat /\ g.min < l BY Zenon, <2>5, <3>3, <4>1
        <5> QED BY Zenon, <2>1, <4>2, <4>3, <4>4, <5>1, <1>SuccFound
      <4>6. q \in T /\ q # g /\ q # p /\ q.min \in Nat
        <5>1. q # g BY <2>5, <3>3, <4>5
        <5> QED BY Zenon, <2>2, <2>5, <3>3, <3>4, <4>5, <5>1
      <4>7. Follows(T, p, q)
        <5>1. \A i \in T : p.min < i.min => i \in U BY <2>5, <3>4
        <5> QED BY Zenon, <3>3, <4>5, <4>6, <5>1 DEF Follows
      <4>8. CASE q.min > f.maxp1
        <5>1. y = x1 BY Zenon, <3>3, <3>5, <3>6, <4>4, <4>8 DEF defrag_try_merge_with_succ
        <5>2. \A j \in T : p.min < j.min => f.maxp1 < j.min BY <2>2, <2>3, <4>6, <4>7, <4>8 DEF Follows
        <5> QED BY Zenon, <2>8, <3>2, <3>4, <3>5, <5>1, <5>2
      <4>9. CASE ~(q.min > f.maxp1)
        <5>1. q.min <= f.maxp1 BY <2>3, <4>6, <4>9
        <5>2. y = [fragtree |-> (U \ {g, q}) \cup {Iv(g.min, q.maxp1)},
                   lastfrag |-> IF l = q.min THEN g.min ELSE l]
          BY Zenon, <3>3, <3>5, <3>6, <3>8, <4>4, <4>9 DEF defrag_try_merge_with_succ
        <5>3. g \in T => g = p BY Zenon, <2>1, <3>3 DEF TreeShape
        <5>4. U \ {g, q} = T \ {p, q} BY Zenon, <3>4, <5>3
        <5> QED BY Zenon, <2>8, <3>3, <4>6, <4>7, <5>1, <5>2, <5>4
      <4> QED BY Zenon, <4>8, <4>9
    <3> QED BY Zenon, <3>7, <3>8
  <2>9. CASE p.maxp1 < f.min
    <3>1. ~(p.maxp1 >= f.maxp1) /\ ~(f.min <= p.maxp1) BY ONLY <2>3, <2>5, <2>9
    <3>2. CASE TouchesSucc(x, p, f)
      <4>1. PICK q : q = FindSucc(T, p) BY Zenon
      <4>2. p.min # l /\ q.min <= f.maxp1 BY Zenon, <3>2, <4>1 DEF TouchesSucc
      <4>3. p.min < l BY <2>5, <4>2
      <4>4. Follows(T, p, q) BY Zenon, <2>1, <2>5, <4>1, <4>3, <1>SuccFound DEF Follows
      <4>5. y = ExtendSucc(x, q, f) BY Zenon, <3>1, <3>2, <4>1 DEF defrag_add_fragment
      <4>6. q \in T /\ f.min < q.min BY Zenon, <2>6, <4>4 DEF Follows
      <4>7. \A j \in T : j.min < q.min => j.min < f.min BY <2>2, <2>3, <2>5, <2>9, <4>4, <4>6 DEF Follows
      <4>8. ExtendsTo(T, l, q, f, y) BY Zenon, <2>1, <2>3, <4>5, <4>6, <4>7, <1>Extends
      <4> QED BY Zenon, <2>9, <4>2, <4>4, <4>6, <4>8
    <3>3. CASE ~TouchesSucc(x, p, f)
      <4>1. y = [fragtree |-> T \cup {f}, lastfrag |-> IF f.min > l THEN f.min ELSE l]
        BY Zenon, <3>1, <3>3 DEF defrag_add_fragment, defrag_rsample_addiv
      <4>2. \A j \in T : p.min < j.min => f.maxp1 < j.min
        <5>1. CASE p.min = l BY <2>2, <2>5, <5>1
        <5>2. CASE p.min # l
          <6>1. p.min < l BY <2>5, <5>2
          <6>2. PICK q : q = FindSucc(T, p) BY Zenon
          <6>3. Follows(T, p, q) BY Zenon, <2>1, <2>5, <6>1, <6>2, <1>SuccFound DEF Follows
          <6>4. ~(q.min <= f.maxp1) BY Zenon, <3>3, <5>2, <6>2 DEF TouchesSucc
          <6> QED BY <2>2, <2>3, <6>3, <6>4 DEF Follows
        <5> QED BY Zenon, <5>1, <5>2
      <4> QED BY Zenon, <2>9, <4>1, <4>2
    <3> QED BY Zenon, <3>2, <3>3
  <2> QED BY <2>3, <2>5, <2>7, <2>8, <2>9
\* What the intervals and lastfrag are after intervals R have become [lo, hi),
\* which is what they and fragments f make together.
<1>Replaced.
     ASSUME NEW info, InfoOK(info), NEW T, NEW l, NEW R, NEW f, f.min \in Nat, f.maxp1 \in Nat,
            NEW lo, NEW hi, Takes(T, info, l, R, f, lo, hi)
     PROVE  /\ TreeShape(Becomes(T, R, lo, hi), info) /\ IsLast(Becomes(T, R, lo, hi), LastOf(R, l, lo))
            /\ AddsBytes(T, f, Becomes(T, R, lo, hi))
  <2> USE <1>Replaced
  <2>0. TreeShape(Becomes(T, R, lo, hi), info) BY Zenon, <1>ReplaceShape
  <2> USE DEF Takes
  <2> PICK U : U = Becomes(T, R, lo, hi) BY Zenon
  <2> PICK m : m = LastOf(R, l, lo) BY Zenon
  <2> U = (T \ R) \cup {Iv(lo, hi)} BY Zenon DEF Becomes
  <2> m = IF lo > l \/ (\E j \in R : j.min = l) THEN lo ELSE l BY Zenon DEF LastOf
  <2>1. TreeShape(U, info) BY Zenon, <2>0
  <2>2. AddsBytes(T, f, U) BY <1>ReplaceCovered
  <2>3. IsLast(U, m)
    <3>1. PICK w : w = Iv(lo, hi) BY Zenon
    <3>2. w.min = lo /\ w.maxp1 = hi /\ U = (T \ R) \cup {w} BY Zenon, <3>1 DEF Iv
    <3>3. PICK i \in T : i.min = l BY Zenon DEF IsLast
    <3>4. \A j \in T : j.min \in Nat /\ j.maxp1 \in Nat /\ j.min <= j.maxp1 /\ j.min <= l
      BY Zenon, TreeFields DEF IsLast
    <3>5. l \in Nat BY Zenon, <3>3, <3>4
    <3>6. CASE lo > l
      <4>1. m = lo BY Zenon, <3>6
      <4>2. \A j \in U : j.min <= lo BY <3>2, <3>4, <3>5, <3>6
      <4> QED BY Zenon, <3>2, <4>1, <4>2 DEF IsLast
    <3>7. CASE ~(lo > l) /\ \E j \in R : j.min = l
      <4>1. m = lo BY Zenon, <3>7
      <4>2. PICK k \in R : k.min = l BY Zenon, <3>7
      <4>3. lo <= k.min BY Zenon, <4>2
      <4>4. ASSUME NEW j \in T \ R PROVE j.min <= lo
        <5>1. j.maxp1 < lo \/ hi < j.min BY Zenon, <4>4
        <5>2. CASE j.maxp1 < lo BY <3>4, <5>2
        <5>3. CASE hi < j.min
          <6>1. k \in T /\ j.min <= l BY Zenon, <3>4, <4>2
          <6>2. j.min # k.min BY Zenon, <4>2, <4>4, <6>1 DEF TreeShape
          <6>3. k.maxp1 <= hi
            <7>1. CASE k.min < k.maxp1
              <8>1. PICK b \in Nat : b = k.maxp1 - 1
                <9>1. k.maxp1 - 1 \in Nat BY <3>4, <6>1, <7>1
                <9> QED BY Zenon, <9>1
              <8>2. k.min <= b /\ b < k.maxp1 BY <3>4, <6>1, <7>1, <8>1
              <8>3. Covered(R, b) BY Zenon, <4>2, <8>2 DEF Covered
              <8>4. b < hi BY Zenon, <8>3 DEF Makes
              <8> QED BY <3>4, <6>1, <8>1, <8>4
            <7>2. CASE k.min = k.maxp1
              <8>1. k.min = 0 BY <3>4, <6>1, <7>2 DEF TreeShape
              <8> QED BY <7>2, <8>1
            <7> QED BY <3>4, <6>1, <7>1, <7>2
          <6>4. j.min < k.min BY <3>4, <3>5, <4>2, <4>4, <6>1, <6>2
          <6>5. j.maxp1 < k.min BY Zenon, <4>4, <6>1, <6>4 DEF TreeShape
          <6> QED BY <3>4, <3>5, <4>2, <4>4, <5>3, <6>1, <6>3, <6>4, <6>5
        <5> QED BY Zenon, <5>1, <5>2, <5>3
      <4> QED BY <3>2, <4>1, <4>4 DEF IsLast
    <3>8. CASE ~(lo > l) /\ ~\E j \in R : j.min = l
      <4>1. m = l BY Zenon, <3>8
      <4>2. i \in U BY Zenon, <3>2, <3>3, <3>8
      <4>3. \A j \in U : j.min <= l BY <3>2, <3>4, <3>5, <3>8
      <4> QED BY Zenon, <3>3, <4>1, <4>2, <4>3 DEF IsLast
    <3> QED BY Zenon, <3>6, <3>7, <3>8
  <2> QED BY Zenon, <2>1, <2>2, <2>3
<1>Main. ASSUME NEW info, InfoOK(info), NEW x, SampleOK(x, info), NEW f, IsFragments(f, info),
                NEW p, p = Predeq(x, f), NEW y, y = defrag_add_fragment(x, p, f)
         PROVE  Added(x, p, f, y, info)
  <2> USE <1>Main
  <2>1. PICK T, l : T = x.fragtree /\ l = x.lastfrag BY Zenon
  <2>2. /\ TreeShape(T, info) /\ IsLast(T, l) /\ x = [fragtree |-> T, lastfrag |-> l]
        /\ TreeOK(T, info) /\ info.size \in Nat
    BY Zenon, <2>1 DEF SampleOK, TreeOK, InfoOK
  <2>3. p \in T /\ p.min <= f.min /\ \A i \in T : i.min <= f.min => i.min <= p.min
    BY Zenon, <2>1, <1>PredeqFound
  <2>4. \A i \in T : /\ i.min \in Nat /\ i.maxp1 \in Nat /\ i.min <= i.maxp1 /\ i.maxp1 <= info.size
                     /\ Boundary(i.min, info) /\ Boundary(i.maxp1, info)
    BY Zenon, <2>2, TreeFields DEF TreeShape
  <2>5. /\ f.min \in Nat /\ f.maxp1 \in Nat /\ f.min < f.maxp1 /\ f.maxp1 <= info.size /\ f = Iv(f.min, f.maxp1)
        /\ Boundary(f.min, info) /\ Boundary(f.maxp1, info)
    BY Zenon, FragmentCut
  <2>6. l \in Nat /\ \A i \in T : i.min <= l BY Zenon, <2>2, <2>4 DEF IsLast
  <2>7. \A i \in T : i.min < p.min => i.maxp1 < p.min BY Zenon, <2>2, <2>3 DEF TreeShape
  <2>8. \A i \in T : i.min = p.min => i = p BY Zenon, <2>2, <2>3 DEF TreeShape
  <2>9. \A j \in T : p.min < j.min => f.min < j.min /\ p.maxp1 < j.min /\ j.min < j.maxp1
    <3> TAKE j \in T
    <3> HAVE p.min < j.min
    <3>1. j.min <= f.min => j.min <= p.min BY Zenon, <2>3
    <3>2. f.min < j.min /\ j.min # 0 BY <2>3, <2>4, <2>5, <3>1
    <3> QED BY Zenon, <2>2, <2>3, <3>2 DEF TreeShape
  <2>10. CASE y = x /\ p.maxp1 >= f.maxp1
    <3>1. \A b \in Nat : InIv(f, b) => InIv(p, b) BY <2>3, <2>4, <2>5, <2>10 DEF InIv
    <3>2. \A b \in Nat : InIv(f, b) => Covered(T, b) BY Zenon, <2>3, <3>1 DEF Covered, InIv
    <3>3. AddsBytes(T, f, T) BY Zenon, <3>2 DEF AddsBytes
    <3> QED BY Zenon, <2>1, <2>2, <2>10, <3>3 DEF Added
  \* The interval before is made longer, and has absorbed R.
  <2>11. ASSUME f.min <= p.maxp1, p.maxp1 < f.maxp1, NEW R, R \subseteq T, p \in R, \A j \in R : p.min <= j.min,
                NEW hi \in Nat, p.maxp1 < hi, hi <= info.size, Boundary(hi, info),
                \A j \in T \ R : p.min < j.min => hi < j.min, Makes(R, f, p.min, hi),
                NoneInside(T, f) => f.maxp1 <= hi,
                y = [fragtree |-> Becomes(T, R, p.min, hi), lastfrag |-> LastOf(R, l, p.min)]
         PROVE  Added(x, p, f, y, info)
    <3>1. PICK lo \in Nat : lo = p.min BY Zenon, <2>3, <2>4
    <3>2. lo < hi /\ Boundary(lo, info) BY <2>3, <2>4, <2>11, <3>1
    <3>3. \A j \in T \ R : j.maxp1 < lo \/ hi < j.min
      <4> TAKE j \in T \ R
      <4>1. j.min # p.min BY Zenon, <2>8, <2>11
      <4>2. j.min < p.min \/ p.min < j.min BY <2>3, <2>4, <4>1
      <4> QED BY Zenon, <2>7, <2>11, <3>1, <4>2
    <3>4. lo = 0 \/ \A j \in R : j.min # 0 BY <2>4, <2>11, <3>1
    <3>5. Brings(T, f, lo, hi)
      <4>1. PICK b \in Nat : b = p.maxp1 BY Zenon, <2>3, <2>4
      <4>2. InIv(f, b) /\ lo <= b /\ b < hi BY <2>3, <2>4, <2>11, <3>1, <4>1 DEF InIv
      <4>3. ~Covered(T, b) BY Zenon, <2>2, <2>3, <4>1, GapAfter
      <4> QED BY Zenon, <2>3, <2>11, <3>1, <4>2, <4>3 DEF Brings
    <3>6. Takes(T, info, l, R, f, lo, hi) BY Zenon, <2>2, <2>11, <3>1, <3>2, <3>3, <3>4, <3>5 DEF Takes
    <3>7. PICK U, m : U = Becomes(T, R, lo, hi) /\ m = LastOf(R, l, lo) BY Zenon
    <3>8. TreeShape(U, info) /\ IsLast(U, m) /\ AddsBytes(T, f, U) BY Zenon, <2>5, <3>6, <3>7, <1>Replaced
    <3>9. Appends(p, f) BY Zenon, <2>11 DEF Appends
    <3>10. y.fragtree = U /\ y.lastfrag = m /\ y = [fragtree |-> U, lastfrag |-> m] BY <2>11, <3>1, <3>7
    <3> QED BY Zenon, <2>1, <3>8, <3>9, <3>10 DEF Added
  <2>12. CASE /\ f.min <= p.maxp1 /\ p.maxp1 < f.maxp1
              /\ \A j \in T : p.min < j.min => f.maxp1 < j.min
              /\ y = [fragtree |-> (T \ {p}) \cup {Iv(p.min, f.maxp1)}, lastfrag |-> l]
    <3>1. Makes({p}, f, p.min, f.maxp1)
      <4>1. \A b \in Nat : Covered({p}, b) <=> InIv(p, b) BY Zenon DEF Covered, InIv
      <4>2. \A b \in Nat : /\ InIv(p, b) => p.min <= b /\ b < f.maxp1
                           /\ p.min <= b /\ b < f.maxp1 => InIv(p, b) \/ InIv(f, b)
        BY <2>3, <2>4, <2>5, <2>12 DEF InIv
      <4> QED BY Zenon, <4>1, <4>2 DEF Makes
    <3>2. l = LastOf({p}, l, p.min) BY <2>3, <2>4, <2>6 DEF LastOf
    <3>3. p.min <= p.min /\ f.maxp1 <= f.maxp1 BY <2>3, <2>4, <2>5
    <3>4. y = [fragtree |-> Becomes(T, {p}, p.min, f.maxp1), lastfrag |-> LastOf({p}, l, p.min)]
      BY Zenon, <2>12, <3>2 DEF Becomes
    <3> QED BY Zenon, <2>3, <2>5, <2>11, <2>12, <3>1, <3>3, <3>4
  <2>13. ASSUME NEW q \in T, Follows(T, p, q), q.min <= f.maxp1, f.min <= p.maxp1, p.maxp1 < f.maxp1,
                y = [fragtree |-> (T \ {p, q}) \cup {Iv(p.min, q.maxp1)},
                     lastfrag |-> IF l = q.min THEN p.min ELSE l]
         PROVE  Added(x, p, f, y, info)
    <3>1. p.min < q.min /\ p.maxp1 < q.min /\ q.min < q.maxp1 /\ f.min < q.min BY Zenon, <2>9, <2>13 DEF Follows
    <3>2. \A j \in T \ {p, q} : p.min < j.min => q.maxp1 < j.min
      <4> TAKE j \in T \ {p, q}
      <4> HAVE p.min < j.min
      <4>1. q.min <= j.min /\ q.min # j.min BY Zenon, <2>2, <2>13 DEF Follows, TreeShape
      <4>2. q.min < j.min BY <2>4, <4>1
      <4> QED BY Zenon, <2>2, <4>2 DEF TreeShape
    <3>3. Makes({p, q}, f, p.min, q.maxp1)
      <4>1. \A b \in Nat : Covered({p, q}, b) <=> (InIv(p, b) \/ InIv(q, b)) BY Zenon DEF Covered, InIv
      <4>2. \A b \in Nat : /\ InIv(p, b) \/ InIv(q, b) => p.min <= b /\ b < q.maxp1
                           /\ p.min <= b /\ b < q.maxp1 => (InIv(p, b) \/ InIv(q, b)) \/ InIv(f, b)
        BY <2>3, <2>4, <2>5, <2>13, <3>1 DEF InIv
      <4> QED BY Zenon, <4>1, <4>2 DEF Makes
    <3>4. (IF l = q.min THEN p.min ELSE l) = LastOf({p, q}, l, p.min) BY <2>3, <2>4, <2>6, <3>1 DEF LastOf
    <3>5. \A j \in {p, q} : p.min <= j.min BY <2>3, <2>4, <3>1
    <3>6. NoneInside(T, f) => f.maxp1 <= q.maxp1 BY <2>4, <2>5, <3>1 DEF NoneInside
    <3>7. p.maxp1 < q.maxp1 BY <2>3, <2>4, <3>1
    <3>8. y = [fragtree |-> Becomes(T, {p, q}, p.min, q.maxp1), lastfrag |-> LastOf({p, q}, l, p.min)]
      BY Zenon, <2>13, <3>4 DEF Becomes
    <3> QED BY ZenonT(40), <2>3, <2>4, <2>11, <2>13, <3>2, <3>3, <3>5, <3>6, <3>7, <3>8
  \* The fragments make an interval that begins with them, and has absorbed R.
  <2>14. ASSUME p.maxp1 < f.min, NEW R, R \subseteq T, \A j \in R : f.min < j.min,
                NEW hi \in Nat, f.min < hi, hi <= info.size, Boundary(hi, info),
                \A j \in T \ R : p.min < j.min => hi < j.min, Makes(R, f, f.min, hi),
                NoneInside(T, f) => f.maxp1 <= hi,
                y = [fragtree |-> Becomes(T, R, f.min, hi), lastfrag |-> LastOf(R, l, f.min)]
         PROVE  Added(x, p, f, y, info)
    <3>1. PICK lo \in Nat : lo = f.min BY Zenon, <2>5
    <3>2. \A j \in T : ~(p.min < j.min) => j.maxp1 < lo
      <4> TAKE j \in T
      <4> HAVE ~(p.min < j.min)
      <4>1. CASE j.min < p.min
        <5>1. j.maxp1 < p.min BY Zenon, <2>7, <4>1
        <5> QED BY <2>3, <2>4, <2>5, <3>1, <5>1
      <4>2. CASE j = p BY Zenon, <2>14, <3>1, <4>2
      <4> QED BY <2>3, <2>4, <2>8, <4>1, <4>2
    <3>3. \A j \in T \ R : j.maxp1 < lo \/ hi < j.min BY Zenon, <2>14, <3>2
    <3>4. lo = 0 \/ \A j \in R : j.min # 0 BY <2>4, <2>14, <3>1
    <3>5. Brings(T, f, lo, hi)
      <4>1. InIv(f, lo) /\ lo <= lo /\ lo < hi BY <2>5, <2>14, <3>1 DEF InIv
      <4>2. ~Covered(T, lo)
        <5> SUFFICES ASSUME NEW j \in T, j.min <= lo, lo < j.maxp1 PROVE FALSE BY Zenon DEF Covered
        <5>1. ~(p.min < j.min) BY <2>4, <2>9, <3>1
        <5> QED BY <2>4, <3>2, <5>1
      <4>3. lo <= f.min BY Zenon, <3>1, <4>1
      <4> QED BY Zenon, <2>14, <4>1, <4>2, <4>3 DEF Brings
    <3>6. \A j \in R : lo <= j.min BY <2>4, <2>14, <3>1
    <3>7. Takes(T, info, l, R, f, lo, hi)
      BY Zenon, <2>2, <2>5, <2>14, <3>1, <3>3, <3>4, <3>5, <3>6 DEF Takes
    <3>8. PICK U, m : U = Becomes(T, R, lo, hi) /\ m = LastOf(R, l, lo) BY Zenon
    <3>9. TreeShape(U, info) /\ IsLast(U, m) /\ AddsBytes(T, f, U) BY Zenon, <2>5, <3>7, <3>8, <1>Replaced
    <3>10. TreeOK(U, info)
      <4>1. PICK w : w = Iv(lo, hi) BY Zenon
      <4>2. w.min = lo /\ U = (T \ R) \cup {w} BY Zenon, <3>8, <4>1 DEF Iv, Becomes
      <4>3. lo # 0 BY <2>3, <2>4, <2>14, <3>1
      <4>4. \A i \in U : i.min = 0 => i.maxp1 < info.size BY Zenon, <2>2, <4>2, <4>3 DEF TreeOK
      <4> QED BY Zenon, <3>9, <4>4 DEF TreeOK
    <3>11. y.fragtree = U /\ y.lastfrag = m /\ y = [fragtree |-> U, lastfrag |-> m] BY <2>14, <3>1, <3>8
    <3> QED BY Zenon, <2>1, <3>9, <3>10, <3>11 DEF Added
  <2>15. ASSUME NEW q \in T, Follows(T, p, q), q.min <= f.maxp1, p.maxp1 < f.min, ExtendsTo(T, l, q, f, y)
         PROVE  Added(x, p, f, y, info)
    <3>1. p.min < q.min /\ q.min < q.maxp1 /\ f.min < q.min BY Zenon, <2>9, <2>15 DEF Follows
    <3>2. /\ q.min \in Nat /\ q.maxp1 \in Nat /\ q.maxp1 <= info.size /\ Boundary(q.maxp1, info) /\ q.min <= l
      BY Zenon, <2>4, <2>6
    <3>3. ASSUME NEW g \in T, p.min < g.min, g # q PROVE q.maxp1 < g.min /\ q.min < g.min
      <4>1. q.min <= g.min /\ q.min # g.min BY Zenon, <2>2, <2>15, <3>3 DEF Follows, TreeShape
      <4>2. q.min < g.min BY <2>4, <4>1
      <4> QED BY Zenon, <2>2, <4>2 DEF TreeShape
    <3>4. \A b \in Nat : Covered({q}, b) <=> InIv(q, b) BY Zenon DEF Covered, InIv
    <3>5. (IF l = q.min THEN f.min ELSE l) = LastOf({q}, l, f.min)
      <4>1. ~(f.min > l) BY <2>5, <2>6, <3>1, <3>2
      <4> QED BY Zenon, <4>1 DEF LastOf
    <3>6. \A j \in {q} : f.min < j.min BY Zenon, <3>1
    <3>7. CASE /\ f.maxp1 <= q.maxp1
               /\ y = [fragtree |-> (T \ {q}) \cup {Iv(f.min, q.maxp1)},
                       lastfrag |-> IF l = q.min THEN f.min ELSE l]
      <4>1. Makes({q}, f, f.min, q.maxp1)
        <5>1. \A b \in Nat : /\ InIv(q, b) => f.min <= b /\ b < q.maxp1
                             /\ f.min <= b /\ b < q.maxp1 => InIv(q, b) \/ InIv(f, b)
          BY <2>5, <2>15, <3>1, <3>2 DEF InIv
        <5> QED BY Zenon, <3>4, <5>1 DEF Makes
      <4>2. f.min < q.maxp1 BY <2>5, <3>1, <3>2
      <4>3. \A j \in T \ {q} : p.min < j.min => q.maxp1 < j.min BY Zenon, <3>3
      <4>4. y = [fragtree |-> Becomes(T, {q}, f.min, q.maxp1), lastfrag |-> LastOf({q}, l, f.min)]
        BY Zenon, <3>5, <3>7 DEF Becomes
      <4> QED BY Zenon, <2>14, <2>15, <3>2, <3>6, <3>7, <4>1, <4>2, <4>3, <4>4
    <3>8. CASE /\ q.maxp1 < f.maxp1 /\ \A j \in T : q.min < j.min => f.maxp1 < j.min
               /\ y = [fragtree |-> (T \ {q}) \cup {Iv(f.min, f.maxp1)},
                       lastfrag |-> IF l = q.min THEN f.min ELSE l]
      <4>1. Makes({q}, f, f.min, f.maxp1)
        <5>1. \A b \in Nat : InIv(q, b) => f.min <= b /\ b < f.maxp1
          BY <2>5, <3>1, <3>2, <3>8 DEF InIv
        <5> QED BY Zenon, <3>4, <5>1 DEF Makes, InIv
      <4>2. \A j \in T \ {q} : p.min < j.min => f.maxp1 < j.min BY Zenon, <3>3, <3>8
      <4>3. f.maxp1 <= f.maxp1 BY <2>5
      <4>4. y = [fragtree |-> Becomes(T, {q}, f.min, f.maxp1), lastfrag |-> LastOf({q}, l, f.min)]
        BY Zenon, <3>5, <3>8 DEF Becomes
      <4> QED BY Zenon, <2>5, <2>14, <2>15, <3>6, <4>1, <4>2, <4>3, <4>4
    <3>9. ASSUME q.maxp1 < f.maxp1, NEW g \in T, Follows(T, q, g), g.min <= f.maxp1,
                 y = [fragtree |-> (T \ {q, g}) \cup {Iv(f.min, g.maxp1)},
                      lastfrag |-> IF l = g.min THEN f.min ELSE l]
          PROVE  Added(x, p, f, y, info)
      <4>1. /\ q.min < g.min /\ g.min \in Nat /\ g.maxp1 \in Nat /\ g.maxp1 <= info.size
            /\ Boundary(g.maxp1, info) /\ g.min <= l /\ g.min <= g.maxp1
        BY Zenon, <2>4, <2>6, <3>9 DEF Follows
      <4>2. q.maxp1 < g.min BY Zenon, <2>2, <3>9, <4>1 DEF TreeShape
      <4>3. Makes({q, g}, f, f.min, g.maxp1)
        <5>1. \A b \in Nat : Covered({q, g}, b) <=> (InIv(q, b) \/ InIv(g, b)) BY Zenon DEF Covered, InIv
        <5>2. \A b \in Nat : /\ InIv(q, b) \/ InIv(g, b) => f.min <= b /\ b < g.maxp1
                             /\ f.min <= b /\ b < g.maxp1 => (InIv(q, b) \/ InIv(g, b)) \/ InIv(f, b)
          BY <2>5, <3>1, <3>2, <3>9, <4>1, <4>2 DEF InIv
        <5> QED BY Zenon, <5>1, <5>2 DEF Makes
      <4>4. \A j \in T \ {q, g} : p.min < j.min => g.maxp1 < j.min
        <5> TAKE j \in T \ {q, g}
        <5> HAVE p.min < j.min
        <5>1. q.min < j.min BY Zenon, <3>3
        <5>2. g.min <= j.min /\ g.min # j.min BY Zenon, <2>2, <3>9, <5>1 DEF Follows, TreeShape
        <5>3. g.min < j.min BY <2>4, <5>2
        <5> QED BY Zenon, <2>2, <5>3 DEF TreeShape
      <4>5. (IF l = g.min THEN f.min ELSE l) = LastOf({q, g}, l, f.min)
        <5>1. ~(f.min > l) /\ l # q.min BY <2>5, <2>6, <3>1, <3>2, <4>1
        <5> QED BY Zenon, <5>1 DEF LastOf
      <4>6. \A j \in {q, g} : f.min < j.min BY <2>5, <3>1, <3>2, <4>1
      <4>7. f.min < g.maxp1 BY <2>5, <3>1, <3>2, <4>1
      <4>8. ~NoneInside(T, f) BY Zenon, <3>1, <3>9 DEF NoneInside
      <4>9. y = [fragtree |-> Becomes(T, {q, g}, f.min, g.maxp1), lastfrag |-> LastOf({q, g}, l, f.min)]
        BY Zenon, <3>9, <4>5 DEF Becomes
      <4> QED BY Zenon, <2>14, <2>15, <4>1, <4>3, <4>4, <4>6, <4>7, <4>8, <4>9
    <3> QED BY Zenon, <2>15, <3>7, <3>8, <3>9 DEF ExtendsTo
  <2>16. CASE /\ p.maxp1 < f.min
              /\ \A j \in T : p.min < j.min => f.maxp1 < j.min
              /\ y = [fragtree |-> T \cup {f}, lastfrag |-> IF f.min > l THEN f.min ELSE l]
    <3>1. Makes({}, f, f.min, f.maxp1) BY Zenon DEF Makes, Covered, InIv
    <3>2. T \cup {f} = Becomes(T, {}, f.min, f.maxp1) BY Zenon, <2>5 DEF Becomes
    <3>3. (IF f.min > l THEN f.min ELSE l) = LastOf({}, l, f.min) BY Zenon DEF LastOf
    <3>4. f.maxp1 <= f.maxp1 BY <2>5
    <3>5. \A j \in T \ {} : p.min < j.min => f.maxp1 < j.min BY Zenon, <2>16
    <3>6. {} \subseteq T /\ \A j \in {} : f.min < j.min BY Zenon
    <3>7. y = [fragtree |-> Becomes(T, {}, f.min, f.maxp1), lastfrag |-> LastOf({}, l, f.min)]
      BY Zenon, <2>16, <3>2, <3>3
    <3> QED BY Zenon, <2>5, <2>14, <2>16, <3>1, <3>4, <3>5, <3>6, <3>7
  <2> QED BY <2>1, <2>3, <2>10, <2>12, <2>13, <2>15, <2>16, <1>AddCases
<1> QED BY Zenon, <1>Main

\* A sample is handed on exactly when all its bytes have arrived; until then
\* it is a sample that the defragmenter may keep.
LEMMA AddedComplete ==
  ASSUME NEW info, InfoOK(info), NEW x, NEW p, NEW f, NEW y, Added(x, p, f, y, info)
  PROVE  /\ (Appends(p, f) /\ is_complete(y, info)) <=> \A b \in 0..(info.size - 1) : Covered(y.fragtree, b)
         /\ ~(Appends(p, f) /\ is_complete(y, info)) => SampleOK(y, info)
<1>1. TreeShape(y.fragtree, info) /\ info.size \in Nat /\ info.size > 0 BY DEF Added, InfoOK
<1>2. \A i \in y.fragtree : i.min \in Nat /\ i.maxp1 \in Nat /\ i.maxp1 <= info.size
  BY Zenon, <1>1, TreeFields
<1>3. ASSUME is_complete(y, info) PROVE \A b \in 0..(info.size - 1) : Covered(y.fragtree, b)
  <2>1. PICK i \in y.fragtree : i.min = 0 /\ i.maxp1 >= info.size BY Zenon, <1>3 DEF is_complete
  <2> QED BY <1>1, <1>2, <2>1 DEF Covered
<1>4. ASSUME TreeOK(y.fragtree, info) PROVE ~\A b \in 0..(info.size - 1) : Covered(y.fragtree, b)
  <2>1. PICK i \in y.fragtree : i.min = 0 /\ i.maxp1 < info.size BY Zenon, <1>1, <1>4 DEF TreeShape, TreeOK
  <2>2. ~Covered(y.fragtree, i.maxp1) BY Zenon, <1>1, <2>1, GapAfter
  <2>3. i.maxp1 \in 0..(info.size - 1) BY <1>1, <1>2, <2>1
  <2> QED BY Zenon, <2>2, <2>3
<1>5. ASSUME ~is_complete(y, info) PROVE TreeOK(y.fragtree, info)
  <2>1. \A i \in y.fragtree : i.min = 0 => i.maxp1 < info.size BY <1>1, <1>2, <1>5 DEF is_complete
  <2> QED BY Zenon, <1>1, <2>1 DEF TreeOK
<1>6. ~(Appends(p, f) /\ is_complete(y, info)) => TreeOK(y.fragtree, info) BY Zenon, <1>5 DEF Added
<1> QED BY Zenon, <1>3, <1>4, <1>6 DEF SampleOK, Added

\* A first fragment that is not the whole sample.
LEMMA NewSample ==
  ASSUME NEW info, InfoOK(info), NEW f, IsFragments(f, info), nn_rdata_is_fragment(f, info),
         NEW y, y = defrag_rsample_new(f)
  PROVE  /\ SampleOK(y, info)
         /\ \A b \in Nat : Covered(y.fragtree, b) <=> InIv(f, b)
         /\ ~\A b \in 0..(info.size - 1) : InIv(f, b)
         /\ info.fragsize < info.size
<1>1. /\ f.min \in Nat /\ f.maxp1 \in Nat /\ f.min < f.maxp1 /\ f.maxp1 <= info.size /\ f = Iv(f.min, f.maxp1)
      /\ Boundary(f.min, info) /\ Boundary(f.maxp1, info)
      /\ info.size <= info.fragsize => f = Iv(0, info.size)
  BY Zenon, FragmentCut
<1>2. info.size \in Nat /\ info.size > 0 /\ info.fragsize \in Nat BY DEF InfoOK
<1>3. PICK z : z = Sentinel BY Zenon
<1>4. z.min = 0 /\ z.maxp1 = 0 /\ z \in IvRec(info.size)
  <2>1. z = Iv(0, 0) BY Zenon, <1>3 DEF Sentinel
  <2>2. 0 \in 0..info.size BY <1>2
  <2> QED BY Zenon, <1>2, <2>1, <2>2, IvFields
<1>5. f \in IvRec(info.size)
  <2>1. f.min \in 0..info.size /\ f.maxp1 \in 0..info.size BY <1>1, <1>2
  <2> QED BY <1>1, <1>2, <2>1, IvFields
<1>6. Boundary(0, info)
  <2>1. 0 = 0 * info.fragsize BY <1>2
  <2> QED BY Zenon, <2>1 DEF Boundary
<1>7. ~(f.min = 0 /\ f.maxp1 = info.size) BY Zenon DEF nn_rdata_is_fragment
<1>8. ~\A b \in 0..(info.size - 1) : InIv(f, b)
  <2>1. CASE f.min > 0
    <3>1. 0 \in 0..(info.size - 1) /\ ~InIv(f, 0) BY <1>1, <1>2, <2>1 DEF InIv
    <3> QED BY Zenon, <3>1
  <2>2. CASE f.min = 0
    <3>1. f.maxp1 \in 0..(info.size - 1) /\ ~InIv(f, f.maxp1) BY <1>1, <1>2, <1>7, <2>2 DEF InIv
    <3> QED BY Zenon, <3>1
  <2> QED BY <1>1, <2>1, <2>2
<1>9. info.fragsize < info.size
  <2>1. ~(info.size <= info.fragsize) BY <1>1, <1>7 DEF Iv
  <2> QED BY <1>2, <2>1
<1>10. CASE f.min > 0
  <2>1. y = [fragtree |-> {z, f}, lastfrag |-> f.min] BY Zenon, <1>3, <1>10 DEF defrag_rsample_new
  <2>2. PICK T : T = {z, f} BY Zenon
  <2>3. TreeShape(T, info)
    <3>1. T \subseteq IvRec(info.size) BY Zenon, <1>4, <1>5, <2>2
    <3>2. \A i \in T : Boundary(i.min, info) /\ Boundary(i.maxp1, info) BY Zenon, <1>1, <1>4, <1>6, <2>2
    <3>3. \A i \in T : i.min < i.maxp1 \/ i.min = 0 BY Zenon, <1>1, <1>4, <2>2
    <3>4. \A i, j \in T : i.min = j.min => i = j BY <1>4, <1>10, <2>2
    <3>5. \A i, j \in T : i.min < j.min => i.maxp1 < j.min BY <1>1, <1>4, <1>10, <2>2
    <3>6. \E i \in T : i.min = 0 BY Zenon, <1>4, <2>2
    <3> QED BY Zenon, <3>1, <3>2, <3>3, <3>4, <3>5, <3>6 DEF TreeShape
  <2>4. TreeOK(T, info) BY <1>2, <1>4, <1>10, <2>2, <2>3 DEF TreeOK
  <2>5. IsLast(T, f.min) BY <1>1, <1>4, <2>2 DEF IsLast
  <2>6. \A b \in Nat : Covered(T, b) <=> InIv(f, b) BY <1>4, <2>2 DEF Covered, InIv
  <2> QED BY <1>8, <1>9, <2>1, <2>2, <2>4, <2>5, <2>6 DEF SampleOK
<1>11. CASE f.min = 0
  <2>1. y = [fragtree |-> {f}, lastfrag |-> f.min] BY <1>11 DEF defrag_rsample_new
  <2>2. PICK T : T = {f} BY Zenon
  <2>3. TreeShape(T, info) BY <1>1, <1>5, <1>11, <2>2 DEF TreeShape
  <2>4. TreeOK(T, info) BY <1>1, <1>2, <1>7, <2>2, <2>3 DEF TreeOK
  <2>5. IsLast(T, f.min) BY <1>1, <2>2 DEF IsLast
  <2>6. \A b \in Nat : Covered(T, b) <=> InIv(f, b) BY Zenon, <2>2 DEF Covered, InIv
  <2> QED BY <1>8, <1>9, <2>1, <2>2, <2>4, <2>5, <2>6 DEF SampleOK
<1> QED BY <1>1, <1>10, <1>11

---------------------------------------------------------------------------
(* The samples of a defragmenter. *)

\* All of DefragOK but the cached max_sample.
DefragPart(d, info, n) ==
  /\ d = [sampletree |-> d.sampletree, max_sample |-> d.max_sample, n_samples |-> d.n_samples,
          max_samples |-> d.max_samples, drop_mode |-> d.drop_mode]
  /\ DOMAIN d.sampletree \subseteq 1..n
  /\ d.sampletree = [s \in DOMAIN d.sampletree |-> d.sampletree[s]]
  /\ \A s \in DOMAIN d.sampletree : SampleOK(d.sampletree[s], info)
  /\ DOMAIN d.sampletree # {} => info.fragsize < info.size
  /\ d.n_samples = Cardinality(DOMAIN d.sampletree)
  /\ d.max_samples \in Nat \ {0} /\ d.n_samples <= d.max_samples

\* The invariant is that of its parts and of the cached max_sample.
LEMMA PartOK ==
  ASSUME NEW d, NEW info, NEW n
  PROVE  DefragOK(d, info, n) <=> DefragPart(d, info, n) /\ d.max_sample = MaxOr0(DOMAIN d.sampletree)
BY Zenon DEF DefragOK, DefragPart

\* e has the samples of d without those in S.
Kept(d, e, S) ==
  /\ DOMAIN e.sampletree = DOMAIN d.sampletree \ S
  /\ \A t \in DOMAIN e.sampletree : e.sampletree[t] = d.sampletree[t]
  /\ e.max_samples = d.max_samples /\ e.drop_mode = d.drop_mode

\* Numbers up to n are finitely many, and one more or less counts as one.
LEMMA Finite ==
  ASSUME NEW n \in Nat, NEW D, D \subseteq 1..n
  PROVE  /\ IsFiniteSet(D) /\ Cardinality(D) \in Nat /\ (Cardinality(D) = 0 <=> D = {})
         /\ \A x : Cardinality(D \ {x}) = IF x \in D THEN Cardinality(D) - 1 ELSE Cardinality(D)
         /\ \A x : Cardinality(D \cup {x}) = IF x \in D THEN Cardinality(D) ELSE Cardinality(D) + 1
<1>1. IsFiniteSet(1..n) BY FS_Interval
<1>2. IsFiniteSet(D) BY Zenon, <1>1, FS_Subset
<1> QED BY Zenon, <1>2, FS_CardinalityType, FS_EmptySet, FS_RemoveElement, FS_AddElement

\* The least and the greatest sample.
LEMMA Extremes ==
  ASSUME NEW n \in Nat, NEW D, D \subseteq 1..n
  PROVE  /\ MaxOr0(D) \in 0..n /\ (MaxOr0(D) = 0 <=> D = {})
         /\ D # {} => MaxOr0(D) \in D /\ Min(D) \in D
         /\ \A t \in D : t <= MaxOr0(D) /\ Min(D) <= t
<1>1. CASE D = {} BY <1>1 DEF MaxOr0
<1>2. CASE D # {}
  <2>1. D \in SUBSET (0..n) /\ D \in SUBSET Nat OBVIOUS
  <2>2. Max(D) \in D /\ \A y \in D : y <= Max(D) BY Zenon, <1>2, <2>1, Maximum
  <2>3. Min(D) \in D /\ \A y \in D : Min(D) <= y BY Zenon, <1>2, <2>1, Minimum
  <2>4. MaxOr0(D) = Max(D) BY Zenon, <1>2 DEF MaxOr0
  <2>5. Max(D) \in 1..n BY Zenon, <2>2
  <2>6. MaxOr0(D) \in 0..n /\ MaxOr0(D) # 0 BY <2>4, <2>5
  <2> QED BY Zenon, <1>2, <2>2, <2>3, <2>4, <2>6
<1> QED BY Zenon, <1>1, <1>2

\* The greatest element is the one that is in the set and below none.
LEMMA MaxIs ==
  ASSUME NEW n \in Nat, NEW D, D \subseteq 1..n, NEW m \in D, \A t \in D : t <= m
  PROVE  MaxOr0(D) = m
<1>1. PICK x : x = MaxOr0(D) BY Zenon
<1>2. x \in D /\ m <= x /\ x <= m BY Zenon, <1>1, Extremes
<1>3. x \in Nat /\ m \in Nat BY <1>2
<1> QED BY <1>1, <1>2, <1>3

\* The cached max_sample, when it is computed anew.
LEMMA RefreshOK ==
  ASSUME NEW info, NEW n, NEW d, DefragPart(d, info, n), NEW e, e = RefreshMaxSample(d)
  PROVE  /\ DefragOK(e, info, n) /\ e.sampletree = d.sampletree /\ e.n_samples = d.n_samples
         /\ e.max_samples = d.max_samples /\ e.drop_mode = d.drop_mode
<1>1. PICK t, x, k, m, w : d = [sampletree |-> t, max_sample |-> x, n_samples |-> k, max_samples |-> m, drop_mode |-> w]
  BY Zenon DEF DefragPart
<1>2. e = [sampletree |-> t, max_sample |-> MaxOr0(DOMAIN t), n_samples |-> k, max_samples |-> m, drop_mode |-> w]
  BY Zenon, <1>1 DEF RefreshMaxSample
<1>3. /\ e.sampletree = t /\ e.max_sample = MaxOr0(DOMAIN t) /\ e.n_samples = k /\ e.max_samples = m /\ e.drop_mode = w
      /\ d.sampletree = t /\ d.n_samples = k /\ d.max_samples = m /\ d.drop_mode = w
  BY <1>1, <1>2
<1> QED BY Zenon, <1>2, <1>3 DEF DefragOK, DefragPart

\* Dropping samples; the cached max_sample stays as it was.
LEMMA DropOK ==
  ASSUME NEW info, NEW n \in Nat, NEW d, DefragPart(d, info, n), NEW S, S \subseteq DOMAIN d.sampletree,
         NEW e, e = defrag_rsample_drop(d, S)
  PROVE  /\ DefragPart(e, info, n) /\ Kept(d, e, S) /\ e.max_sample = d.max_sample
         /\ e.n_samples = d.n_samples - Cardinality(S)
<1>1. PICK t, x, k, m, w : d = [sampletree |-> t, max_sample |-> x, n_samples |-> k, max_samples |-> m, drop_mode |-> w]
  BY Zenon DEF DefragPart
<1>2. PICK u : u = [j \in DOMAIN t \ S |-> t[j]] BY Zenon
<1>3. e = [sampletree |-> u, max_sample |-> x, n_samples |-> k - Cardinality(S), max_samples |-> m, drop_mode |-> w]
  BY Zenon, <1>1, <1>2 DEF defrag_rsample_drop
<1>4. /\ e.sampletree = u /\ e.max_sample = x /\ e.n_samples = k - Cardinality(S) /\ e.max_samples = m /\ e.drop_mode = w
      /\ d.sampletree = t /\ d.n_samples = k /\ d.max_samples = m /\ d.drop_mode = w /\ d.max_sample = x
  BY <1>1, <1>3
<1>5. DOMAIN u = DOMAIN t \ S /\ (\A j \in DOMAIN u : u[j] = t[j]) /\ u = [j \in DOMAIN u |-> u[j]]
  BY Zenon, <1>2
<1>6. Kept(d, e, S) BY Zenon, <1>4, <1>5 DEF Kept
<1>7. DOMAIN t \subseteq 1..n /\ k = Cardinality(DOMAIN t) /\ m \in Nat /\ k <= m /\ m \in Nat \ {0}
  BY Zenon, <1>4 DEF DefragPart
<1>8. Cardinality(DOMAIN u) = k - Cardinality(S) /\ Cardinality(S) \in Nat /\ k \in Nat
  <2>1. IsFiniteSet(DOMAIN t) /\ k \in Nat BY Zenon, <1>7, Finite
  <2>2. S \subseteq DOMAIN t BY Zenon, <1>4
  <2>3. S \cap DOMAIN t = S /\ DOMAIN t \cap S = S BY Zenon, <2>2
  <2>4. Cardinality(DOMAIN t \ S) = Cardinality(DOMAIN t) - Cardinality(DOMAIN t \cap S)
    BY Zenon, <2>1, FS_Difference
  <2>5. IsFiniteSet(S) BY Zenon, <2>1, <2>2, FS_Subset
  <2>6. Cardinality(S) \in Nat BY Zenon, <2>5, FS_CardinalityType
  <2> QED BY Zenon, <1>5, <1>7, <2>1, <2>3, <2>4, <2>6
<1>9. k - Cardinality(S) <= m
  <2>1. m \in Nat /\ k <= m /\ Cardinality(S) \in Nat /\ k \in Nat BY Zenon, <1>7, <1>8
  <2> QED BY ONLY <2>1
<1>10. \A j \in DOMAIN u : SampleOK(u[j], info) BY Zenon, <1>4, <1>5 DEF DefragPart
<1>11. DOMAIN u # {} => info.fragsize < info.size BY Zenon, <1>4, <1>5 DEF DefragPart
<1>12. DefragPart(e, info, n) BY Zenon, <1>3, <1>4, <1>5, <1>7, <1>8, <1>9, <1>10, <1>11 DEF DefragPart
<1> QED BY Zenon, <1>4, <1>6, <1>12

\* nn_defrag_notegap: the samples in the gap go, and no others.
LEMMA NotegapOK ==
  ASSUME NEW info, NEW n \in Nat, NEW d, DefragOK(d, info, n), NEW a, NEW b,
         NEW e, e = nn_defrag_notegap(d, a, b)
  PROVE  DefragOK(e, info, n) /\ Kept(d, e, {s \in DOMAIN d.sampletree : a <= s /\ s < b})
<1>1. PICK S : S = {s \in DOMAIN d.sampletree : a <= s /\ s < b} BY Zenon
<1>2. PICK c : c = defrag_rsample_drop(d, S) BY Zenon
<1>3. DefragPart(c, info, n) /\ Kept(d, c, S) BY Zenon, <1>1, <1>2, PartOK, DropOK
<1>4. e = RefreshMaxSample(c) BY Zenon, <1>1, <1>2 DEF nn_defrag_notegap
<1>5. /\ DefragOK(e, info, n) /\ e.sampletree = c.sampletree /\ e.max_samples = c.max_samples
      /\ e.drop_mode = c.drop_mode
  BY <1>3, <1>4, RefreshOK
<1>6. Kept(d, e, S) BY Zenon, <1>3, <1>5 DEF Kept
<1> QED BY Zenon, <1>1, <1>5, <1>6

\* Removing one sample and refreshing max_sample if it was that one.
LEMMA RemoveOK ==
  ASSUME NEW info, NEW n \in Nat, NEW d, DefragOK(d, info, n), NEW s \in DOMAIN d.sampletree,
         NEW c, c = defrag_rsample_drop(d, {s}),
         NEW e, e = IF s = d.max_sample THEN RefreshMaxSample(c) ELSE c
  PROVE  DefragOK(e, info, n) /\ Kept(d, e, {s}) /\ e.n_samples = d.n_samples - 1
<1>1. DefragPart(d, info, n) /\ d.max_sample = MaxOr0(DOMAIN d.sampletree) BY Zenon, PartOK
<1>2. DefragPart(c, info, n) /\ Kept(d, c, {s}) /\ c.max_sample = d.max_sample /\ c.n_samples = d.n_samples - 1
  <2>1. PICK S : S = {s} BY Zenon
  <2>2. S \subseteq DOMAIN d.sampletree /\ Cardinality(S) = 1 /\ c = defrag_rsample_drop(d, S)
    BY Zenon, <2>1, FS_Singleton
  <2>3. /\ DefragPart(c, info, n) /\ Kept(d, c, S) /\ c.max_sample = d.max_sample
        /\ c.n_samples = d.n_samples - Cardinality(S)
    BY <1>1, <2>2, DropOK
  <2> QED BY Zenon, <2>1, <2>2, <2>3
<1>3. CASE s = d.max_sample
  <2>1. e = RefreshMaxSample(c) BY Zenon, <1>3
  <2>2. /\ DefragOK(e, info, n) /\ e.sampletree = c.sampletree /\ e.max_samples = c.max_samples
        /\ e.drop_mode = c.drop_mode /\ e.n_samples = c.n_samples
    BY <1>2, <2>1, RefreshOK
  <2> QED BY Zenon, <1>2, <2>2 DEF Kept
<1>4. CASE s # d.max_sample
  <2>1. e = c BY Zenon, <1>4
  <2>2. PICK D : D = DOMAIN d.sampletree BY Zenon
  <2>3. D \subseteq 1..n /\ D # {} BY Zenon, <1>1, <2>2 DEF DefragPart
  <2>4. DOMAIN c.sampletree = D \ {s} BY Zenon, <1>2, <2>2 DEF Kept
  <2>5. PICK m : m = d.max_sample BY Zenon
  <2>6. m = MaxOr0(D) /\ m \in D /\ \A t \in D : t <= m BY <1>1, <2>2, <2>3, <2>5, Extremes
  <2>7. m \in D \ {s} /\ D \ {s} \subseteq 1..n /\ \A t \in D \ {s} : t <= m BY Zenon, <1>4, <2>3, <2>5, <2>6
  <2>8. MaxOr0(D \ {s}) = m BY Zenon, <2>7, MaxIs
  <2>9. DefragOK(c, info, n)
    <3>1. c.max_sample = MaxOr0(DOMAIN c.sampletree) BY Zenon, <1>2, <2>4, <2>5, <2>8
    <3> QED BY Zenon, <1>2, <3>1, PartOK
  <2> QED BY Zenon, <1>2, <2>1, <2>9
<1> QED BY Zenon, <1>3, <1>4

HasByte(d, s, b) == s \in DOMAIN d.sampletree /\ Covered(d.sampletree[s].fragtree, b)

\* Fragments f reach over both ends of an interval of sample s.
Over(d, s, f) == s \in DOMAIN d.sampletree /\ ~NoneInside(d.sampletree[s].fragtree, f)

\* The bytes of sample s and of fragments f are all.
AllHere(d, s, f, info) == \A b \in 0..(info.size - 1) : HasByte(d, s, b) \/ InIv(f, b)

\* e is d with bytes of f added to sample s: all of them unless f reaches over
\* an interval, and in any case a new one if f has one.
HasMore(d, s, f, e) ==
  /\ s \in DOMAIN e.sampletree
  /\ \A b \in Nat : /\ HasByte(d, s, b) => HasByte(e, s, b)
                    /\ HasByte(e, s, b) => HasByte(d, s, b) \/ InIv(f, b)
                    /\ ~Over(d, s, f) /\ InIv(f, b) => HasByte(e, s, b)
  /\ \/ \A b \in Nat : InIv(f, b) => HasByte(d, s, b)
     \/ \E b \in Nat : HasByte(e, s, b) /\ ~HasByte(d, s, b)

\* e has the samples of d, except perhaps s.
OthersKept(d, s, e) ==
  /\ DOMAIN e.sampletree \ {s} = DOMAIN d.sampletree \ {s}
  /\ \A t \in DOMAIN d.sampletree \ {s} : e.sampletree[t] = d.sampletree[t]
  /\ e.max_samples = d.max_samples /\ e.drop_mode = d.drop_mode

\* What o says of fragments f of sample s having been put into d.
WithFragment(d, s, f, o, info) ==
  /\ o.complete \in BOOLEAN
  /\ o.complete => AllHere(d, s, f, info)
  /\ ~Over(d, s, f) /\ AllHere(d, s, f, info) => o.complete
  /\ o.complete => s \notin DOMAIN o.defrag.sampletree
  /\ ~o.complete => HasMore(d, s, f, o.defrag)
  /\ OthersKept(d, s, o.defrag)

\* A whole sample does not go through the tree.
PassesBy(d, o) == o = Out(d, TRUE)

\* There is no room for a sample that is not the latest one.
Full(d, s) == d.n_samples = d.max_samples /\ s # d.max_sample

\* The sample that has to go for sample s.
Dropped(d, s) == IF Full(d, s) /\ Admits(d, s) THEN {SampleToDrop(d)} ELSE {}

\* A whole sample passes by; fragments are refused for want of room, or put
\* into what is left when a sample has been dropped for them.
Rsampled(d, s, f, o, info) ==
  \/ ~nn_rdata_is_fragment(f, info) /\ PassesBy(d, o)
  \/ /\ nn_rdata_is_fragment(f, info)
     /\ Full(d, s) /\ ~Admits(d, s) /\ o.defrag = d /\ o.complete = FALSE
     /\ s \notin DOMAIN d.sampletree /\ ~AllHere(d, s, f, info)
  \/ /\ nn_rdata_is_fragment(f, info)
     /\ ~(Full(d, s) /\ ~Admits(d, s))
     /\ \E c : Kept(d, c, Dropped(d, s)) /\ WithFragment(c, s, f, o, info)

\* The defragmenter has nothing of a sample that it does not admit.
LEMMA RefusedIsNew ==
  ASSUME NEW info, NEW n \in Nat, NEW d, DefragOK(d, info, n), d.drop_mode \in {"DROP_LATEST", "DROP_OLDEST"},
         NEW s \in 1..n, ~Admits(d, s)
  PROVE  /\ s \notin DOMAIN d.sampletree
         /\ d.drop_mode = "DROP_LATEST" => \A t \in DOMAIN d.sampletree : t < s
<1>1. PICK D : D = DOMAIN d.sampletree BY Zenon
<1>2. D \subseteq 1..n /\ d.max_sample = MaxOr0(D) BY Zenon, <1>1 DEF DefragOK
<1>3. PICK x, z : x = MaxOr0(D) /\ z = Min(D) BY Zenon
<1>4. x \in 0..n /\ (D # {} => z \in D) /\ \A t \in D : t <= x /\ z <= t BY Zenon, <1>2, <1>3, Extremes
<1>5. CASE d.drop_mode = "DROP_LATEST"
  <2>1. ~(s <= x) BY Zenon, <1>2, <1>3, <1>5 DEF Admits
  <2>2. \A t \in D : t < s BY <1>2, <1>4, <2>1
  <2>3. s \notin D BY <2>2
  <2> QED BY Zenon, <1>1, <2>2, <2>3
<1>6. CASE d.drop_mode = "DROP_OLDEST"
  <2>1. ~(s >= z) BY Zenon, <1>1, <1>3, <1>6 DEF Admits, SampleToDrop
  <2>2. s \notin D
    <3> SUFFICES ASSUME s \in D PROVE FALSE BY Zenon
    <3>1. z \in 1..n /\ z <= s BY Zenon, <1>2, <1>4
    <3> QED BY Zenon, <2>1, <3>1
  <2> QED BY Zenon, <1>1, <1>6, <2>2
<1> QED BY Zenon, <1>5, <1>6

\* nn_defrag_rsample does one of these, and leaves a defragmenter as it should be.
LEMMA RsampleOK ==
  \A info, n, d, s, f, o :
    /\ InfoOK(info) /\ n \in Nat /\ DefragOK(d, info, n)
    /\ d.drop_mode \in {"DROP_LATEST", "DROP_OLDEST"} /\ s \in 1..n /\ IsFragments(f, info)
    /\ o = nn_defrag_rsample(d, s, f, info)
    => DefragOK(o.defrag, info, n) /\ Rsampled(d, s, f, o, info)
\* At the limit one sample goes, as defrag_limit_samples chooses it.
<1>LimitOK.
     ASSUME NEW info, NEW n \in Nat, NEW d, DefragOK(d, info, n), d.n_samples = d.max_samples,
            NEW e, e = defrag_limit_samples(d), NEW x, x = SampleToDrop(d)
     PROVE  x \in DOMAIN d.sampletree /\ DefragOK(e, info, n) /\ Kept(d, e, {x}) /\ e.n_samples < e.max_samples
  <2> USE <1>LimitOK
  <2>1. PICK D : D = DOMAIN d.sampletree BY Zenon
  <2>2. /\ D \subseteq 1..n /\ d.n_samples = Cardinality(D) /\ d.max_samples \in Nat /\ d.max_samples # 0
        /\ d.max_sample = MaxOr0(D)
    BY Zenon, <2>1 DEF DefragOK
  <2>3. D # {} BY Zenon, <2>2, Finite
  <2>4. x \in D BY Zenon, <2>2, <2>3, <2>1, Extremes DEF SampleToDrop
  <2>5. PICK c : c = defrag_rsample_drop(d, {x}) BY Zenon
  <2>6. e = IF x = d.max_sample THEN RefreshMaxSample(c) ELSE c
    <3>1. ~(d.n_samples < d.max_samples) BY <2>2
    <3> QED BY Zenon, <2>5, <3>1 DEF defrag_limit_samples
  <2>7. DefragOK(e, info, n) /\ Kept(d, e, {x}) /\ e.n_samples = d.n_samples - 1
    BY <2>1, <2>4, <2>5, <2>6, RemoveOK
  <2>8. e.max_samples = d.max_samples BY Zenon, <2>7 DEF Kept
  <2>9. e.n_samples < e.max_samples
    <3>1. PICK k \in Nat : k = d.max_samples BY Zenon, <2>2
    <3>2. e.n_samples = k - 1 /\ e.max_samples = k BY Zenon, <2>7, <2>8, <3>1
    <3> QED BY <3>2
  <2> QED BY Zenon, <2>1, <2>4, <2>7, <2>9
<1>WithSampleOK.
     ASSUME NEW info, NEW n, NEW d, DefragPart(d, info, n), NEW s, NEW y, NEW e, e = WithSample(d, s, y)
     PROVE  /\ DOMAIN e.sampletree = DOMAIN d.sampletree \cup {s} /\ e.sampletree[s] = y
            /\ \A t \in DOMAIN d.sampletree \ {s} : e.sampletree[t] = d.sampletree[t]
            /\ e = [sampletree |-> e.sampletree, max_sample |-> d.max_sample, n_samples |-> d.n_samples,
                    max_samples |-> d.max_samples, drop_mode |-> d.drop_mode]
            /\ e.sampletree = [t \in DOMAIN e.sampletree |-> e.sampletree[t]]
            /\ OthersKept(d, s, e)
  <2> USE <1>WithSampleOK
  <2>1. PICK t, x, k, m, w : d = [sampletree |-> t, max_sample |-> x, n_samples |-> k, max_samples |-> m, drop_mode |-> w]
    BY Zenon DEF DefragPart
  <2>2. PICK u : u = [j \in DOMAIN t \cup {s} |-> IF j = s THEN y ELSE t[j]] BY Zenon
  <2>3. e = [sampletree |-> u, max_sample |-> x, n_samples |-> k, max_samples |-> m, drop_mode |-> w]
    BY Zenon, <2>1, <2>2 DEF WithSample
  <2>4. /\ e.sampletree = u /\ e.max_sample = x /\ e.n_samples = k /\ e.max_samples = m /\ e.drop_mode = w
        /\ d.sampletree = t /\ d.n_samples = k /\ d.max_samples = m /\ d.drop_mode = w /\ d.max_sample = x
    BY <2>1, <2>3
  <2>5. /\ DOMAIN u = DOMAIN t \cup {s} /\ u[s] = y /\ u = [j \in DOMAIN u |-> u[j]]
        /\ \A j \in DOMAIN t \ {s} : u[j] = t[j]
    BY Zenon, <2>2
  <2>6. OthersKept(d, s, e) BY Zenon, <2>4, <2>5 DEF OthersKept
  <2> QED BY Zenon, <2>3, <2>4, <2>5, <2>6
\* A fragment of a sample that the defragmenter has.
<1>AddToOK.
     ASSUME NEW info, InfoOK(info), NEW n \in Nat, NEW d, DefragOK(d, info, n), NEW s \in DOMAIN d.sampletree,
            NEW f, IsFragments(f, info), NEW o, o = AddTo(d, s, f, info)
     PROVE  DefragOK(o.defrag, info, n) /\ WithFragment(d, s, f, o, info)
  <2> USE <1>AddToOK
  <2>1. PICK x : x = d.sampletree[s] BY Zenon
  <2>2. PICK p : p = Predeq(x, f) BY Zenon
  <2>3. PICK y : y = defrag_add_fragment(x, p, f) BY Zenon
  <2>4. PICK c \in BOOLEAN : c = (Appends(p, f) /\ is_complete(y, info)) BY Zenon
  <2>5. PICK r : r = defrag_rsample_drop(d, {s}) BY Zenon
  <2>6. PICK e : e = IF ~c THEN WithSample(d, s, y)
                     ELSE IF s = d.max_sample THEN RefreshMaxSample(r) ELSE r
    BY Zenon
  <2>7. o = Out(e, c) BY Zenon, <2>1, <2>2, <2>3, <2>4, <2>5, <2>6 DEF AddTo
  <2>8. o.defrag = e /\ o.complete = c BY <2>7 DEF Out
  <2>9. SampleOK(x, info) BY Zenon, <2>1 DEF DefragOK
  <2>10. Added(x, p, f, y, info) BY Zenon, <2>2, <2>3, <2>9, AddFragment
  <2>11. /\ c <=> \A b \in 0..(info.size - 1) : Covered(y.fragtree, b)
         /\ ~c => SampleOK(y, info)
    BY Zenon, <2>4, <2>10, AddedComplete
  <2>12. \A b : HasByte(d, s, b) <=> Covered(x.fragtree, b) BY Zenon, <2>1 DEF HasByte
  <2>Before. \A b \in Nat : HasByte(d, s, b) => Covered(y.fragtree, b)
    BY Zenon, <2>10, <2>12 DEF Added, AddsBytes
  <2>After. \A b \in Nat : Covered(y.fragtree, b) => HasByte(d, s, b) \/ InIv(f, b)
    BY Zenon, <2>10, <2>12 DEF Added, AddsBytes
  <2>Exact. ~Over(d, s, f) => \A b \in Nat : InIv(f, b) => Covered(y.fragtree, b)
    BY Zenon, <2>1, <2>10 DEF Added, AddsBytes, Over
  <2>Progress. \/ \A b \in Nat : InIv(f, b) => HasByte(d, s, b)
               \/ \E b \in Nat : Covered(y.fragtree, b) /\ ~HasByte(d, s, b)
    BY Zenon, <2>10, <2>12 DEF Added, AddsBytes
  <2>13. (c => AllHere(d, s, f, info)) /\ (~Over(d, s, f) /\ AllHere(d, s, f, info) => c)
    <3>1. \A b \in 0..(info.size - 1) : b \in Nat BY DEF InfoOK
    <3>2. c => AllHere(d, s, f, info) BY Zenon, <2>11, <2>After, <3>1 DEF AllHere
    <3>3. ASSUME ~Over(d, s, f), AllHere(d, s, f, info) PROVE c
      <4>1. \A b \in 0..(info.size - 1) : HasByte(d, s, b) \/ InIv(f, b) BY Zenon, <3>3 DEF AllHere
      <4> QED BY Zenon, <2>11, <2>Before, <2>Exact, <3>1, <3>3, <4>1
    <3> QED BY Zenon, <3>2, <3>3
  <2>14. CASE c
    <3>1. e = IF s = d.max_sample THEN RefreshMaxSample(r) ELSE r BY Zenon, <2>6, <2>14
    <3>2. DefragOK(e, info, n) /\ Kept(d, e, {s}) BY Zenon, <2>5, <3>1, RemoveOK
    <3>3. s \notin DOMAIN e.sampletree /\ OthersKept(d, s, e) BY Zenon, <3>2 DEF Kept, OthersKept
    <3> QED BY Zenon, <2>8, <2>13, <2>14, <3>2, <3>3 DEF WithFragment
  <2>15. CASE ~c
    <3>1. e = WithSample(d, s, y) BY Zenon, <2>6, <2>15
    <3>2. DefragPart(d, info, n) /\ d.max_sample = MaxOr0(DOMAIN d.sampletree) BY Zenon, PartOK
    <3>3. /\ DOMAIN e.sampletree = DOMAIN d.sampletree \cup {s} /\ e.sampletree[s] = y
          /\ \A t \in DOMAIN d.sampletree \ {s} : e.sampletree[t] = d.sampletree[t]
          /\ e = [sampletree |-> e.sampletree, max_sample |-> d.max_sample, n_samples |-> d.n_samples,
                  max_samples |-> d.max_samples, drop_mode |-> d.drop_mode]
          /\ e.sampletree = [t \in DOMAIN e.sampletree |-> e.sampletree[t]]
          /\ OthersKept(d, s, e)
      BY <3>1, <3>2, <1>WithSampleOK
    <3>4. DOMAIN e.sampletree = DOMAIN d.sampletree BY Zenon, <3>3
    <3>5. /\ e.max_sample = d.max_sample /\ e.n_samples = d.n_samples /\ e.max_samples = d.max_samples
          /\ e.drop_mode = d.drop_mode
      BY <3>3
    <3>6. \A t \in DOMAIN e.sampletree : SampleOK(e.sampletree[t], info)
      BY Zenon, <2>11, <2>15, <3>2, <3>3, <3>4 DEF DefragPart
    <3>7. DefragOK(e, info, n) BY Zenon, <3>2, <3>3, <3>4, <3>5, <3>6 DEF DefragOK, DefragPart
    <3>8. s \in DOMAIN e.sampletree /\ \A b : HasByte(e, s, b) <=> Covered(y.fragtree, b)
      BY Zenon, <3>3, <3>4 DEF HasByte
    <3>9. HasMore(d, s, f, e) BY Zenon, <2>Before, <2>After, <2>Exact, <2>Progress, <3>8 DEF HasMore
    <3> QED BY Zenon, <2>8, <2>13, <2>15, <3>3, <3>7, <3>9 DEF WithFragment
  <2> QED BY Zenon, <2>14, <2>15
\* The first fragment of a sample, when there is room.
<1>AddNewOK.
     ASSUME NEW info, InfoOK(info), NEW n \in Nat, NEW d, DefragOK(d, info, n), d.n_samples < d.max_samples,
            NEW s \in 1..n, s \notin DOMAIN d.sampletree,
            NEW f, IsFragments(f, info), nn_rdata_is_fragment(f, info), NEW o, o = Out(AddNew(d, s, f), FALSE)
     PROVE  DefragOK(o.defrag, info, n) /\ WithFragment(d, s, f, o, info)
  <2> USE <1>AddNewOK
  <2>1. PICK D : D = DOMAIN d.sampletree BY Zenon
  <2>2. DefragPart(d, info, n) /\ d.max_sample = MaxOr0(D) BY Zenon, <2>1, PartOK
  <2>3. PICK y : y = defrag_rsample_new(f) BY Zenon
  <2>4. /\ SampleOK(y, info) /\ info.fragsize < info.size
        /\ \A b \in Nat : Covered(y.fragtree, b) <=> InIv(f, b)
        /\ ~\A b \in 0..(info.size - 1) : InIv(f, b)
    BY Zenon, <2>3, NewSample
  <2>5. PICK c : c = WithSample(d, s, y) BY Zenon
  <2>6. /\ DOMAIN c.sampletree = D \cup {s} /\ c.sampletree[s] = y
        /\ \A t \in D \ {s} : c.sampletree[t] = d.sampletree[t]
        /\ c = [sampletree |-> c.sampletree, max_sample |-> d.max_sample, n_samples |-> d.n_samples,
                max_samples |-> d.max_samples, drop_mode |-> d.drop_mode]
        /\ c.sampletree = [t \in DOMAIN c.sampletree |-> c.sampletree[t]]
        /\ OthersKept(d, s, c)
    BY <2>1, <2>2, <2>5, <1>WithSampleOK
  <2>7. PICK e : e = AddNew(d, s, f) BY Zenon
  <2>8. PICK u, x, m, k, w : u = c.sampletree /\ x = d.max_sample /\ m = d.max_samples /\ k = d.n_samples /\ w = d.drop_mode
    BY Zenon
  <2>9. c = [sampletree |-> u, max_sample |-> x, n_samples |-> k, max_samples |-> m, drop_mode |-> w]
    BY Zenon, <2>6, <2>8
  <2>10. e = [sampletree |-> u, max_sample |-> IF s > x THEN s ELSE x, n_samples |-> k + 1,
              max_samples |-> m, drop_mode |-> w]
    <3>1. e = [c EXCEPT !.n_samples = @ + 1, !.max_sample = IF s > @ THEN s ELSE @]
      BY Zenon, <2>3, <2>5, <2>7 DEF AddNew
    <3> QED BY Zenon, <2>9, <3>1
  <2>11. /\ e.sampletree = u /\ e.max_sample = (IF s > x THEN s ELSE x) /\ e.n_samples = k + 1
         /\ e.max_samples = m /\ e.drop_mode = w
    BY Zenon, <2>10
  <2>12. D \subseteq 1..n /\ k = Cardinality(D) /\ m \in Nat \ {0} /\ k < m /\ x = MaxOr0(D) /\ s \notin D
    BY Zenon, <2>1, <2>2, <2>8 DEF DefragPart
  <2>13. DOMAIN u = D \cup {s} /\ D \cup {s} \subseteq 1..n BY Zenon, <2>6, <2>8, <2>12
  <2>14. k \in Nat /\ k + 1 = Cardinality(D \cup {s}) BY Zenon, <2>12, Finite
  <2>15. k + 1 <= m BY <2>12, <2>14
  <2>16. (IF s > x THEN s ELSE x) = MaxOr0(D \cup {s})
    <3>1. x \in 0..n /\ (x = 0 <=> D = {}) /\ (D # {} => x \in D) /\ \A t \in D : t <= x
      BY Zenon, <2>12, Extremes
    <3>2. PICK z : z = IF s > x THEN s ELSE x BY Zenon
    <3>3. z \in D \cup {s}
      <4>1. CASE D = {} BY <3>1, <3>2, <4>1
      <4>2. CASE D # {} BY Zenon, <3>1, <3>2, <4>2
      <4> QED BY Zenon, <4>1, <4>2
    <3>4. \A t \in D \cup {s} : t <= z
      <4> TAKE t \in D \cup {s}
      <4>1. t \in Nat /\ s \in Nat /\ x \in Nat BY <2>13, <3>1
      <4> QED BY <3>1, <3>2, <4>1
    <3> QED BY Zenon, <2>13, <3>2, <3>3, <3>4, MaxIs
  <2>17. \A t \in DOMAIN u : SampleOK(u[t], info) BY Zenon, <2>1, <2>2, <2>4, <2>6, <2>8, <2>13 DEF DefragPart
  <2>18. u = [t \in DOMAIN u |-> u[t]] BY Zenon, <2>6, <2>8
  <2>19. DefragOK(e, info, n)
    BY Zenon, <2>4, <2>10, <2>11, <2>12, <2>13, <2>14, <2>15, <2>16, <2>17, <2>18 DEF DefragOK
  <2>20. o.defrag = e /\ o.complete = FALSE BY Zenon, <2>7 DEF Out
  <2>21. \A b : ~HasByte(d, s, b) BY Zenon DEF HasByte
  <2>22. ~AllHere(d, s, f, info) BY Zenon, <2>4, <2>21 DEF AllHere
  <2>23. HasMore(d, s, f, e) BY Zenon, <2>4, <2>6, <2>8, <2>11, <2>13, <2>21 DEF HasMore, HasByte
  <2>24. OthersKept(d, s, e) BY <2>6, <2>8, <2>11 DEF OthersKept
  <2> QED BY Zenon, <2>19, <2>20, <2>22, <2>23, <2>24 DEF WithFragment
<1>Main. ASSUME NEW info, InfoOK(info), NEW n \in Nat, NEW d, DefragOK(d, info, n),
                d.drop_mode \in {"DROP_LATEST", "DROP_OLDEST"}, NEW s \in 1..n,
                NEW f, IsFragments(f, info), NEW o, o = nn_defrag_rsample(d, s, f, info)
         PROVE  DefragOK(o.defrag, info, n) /\ Rsampled(d, s, f, o, info)
  <2> USE <1>Main
  <2>1. PICK D : D = DOMAIN d.sampletree BY Zenon
  <2>2. /\ D \subseteq 1..n /\ d.n_samples = Cardinality(D) /\ d.max_samples \in Nat /\ d.max_samples # 0
        /\ d.n_samples <= d.max_samples /\ d.max_sample = MaxOr0(D) /\ (D # {} => info.fragsize < info.size)
    BY Zenon, <2>1 DEF DefragOK
  <2>3. d.n_samples \in Nat /\ (d.n_samples = 0 <=> D = {})
    <3>1. D \subseteq 1..n /\ d.n_samples = Cardinality(D) BY Zenon, <2>2
    <3>2. Cardinality(D) \in Nat /\ (Cardinality(D) = 0 <=> D = {}) BY ONLY Zenon, <3>1, Finite, n \in Nat
    <3> QED BY ONLY Zenon, <3>1, <3>2
  <2>4. Kept(d, d, {}) BY Zenon DEF Kept
  <2>5. CASE ~nn_rdata_is_fragment(f, info)
    <3>1. PassesBy(d, o) BY Zenon, <2>5 DEF nn_defrag_rsample, PassesBy
    <3>2. o.defrag = d BY <3>1 DEF PassesBy, Out
    <3> QED BY Zenon, <2>5, <3>1, <3>2 DEF Rsampled
  <2>6. CASE nn_rdata_is_fragment(f, info) /\ s = d.max_sample
    <3>1. o = AddTo(d, s, f, info) BY Zenon, <2>6 DEF nn_defrag_rsample
    <3>2. s \in DOMAIN d.sampletree
      <4>1. s # 0 OBVIOUS
      <4> QED BY Zenon, <2>1, <2>2, <2>6, <4>1, Extremes
    <3>3. DefragOK(o.defrag, info, n) /\ WithFragment(d, s, f, o, info) BY Zenon, <3>1, <3>2, <1>AddToOK
    <3>4. ~Full(d, s) /\ Dropped(d, s) = {} BY Zenon, <2>6 DEF Full, Dropped
    <3> QED BY Zenon, <2>4, <2>6, <3>3, <3>4 DEF Rsampled
  <2>7. CASE nn_rdata_is_fragment(f, info) /\ s # d.max_sample /\ ~Admits(d, s)
    <3>1. o.defrag = d /\ o.complete = FALSE BY Zenon, <2>7 DEF nn_defrag_rsample, Out
    <3>2. Full(d, s) BY <2>2, <2>3, <2>7 DEF Full, Admits
    <3>3. s \notin DOMAIN d.sampletree BY Zenon, <2>7, RefusedIsNew
    <3>4. ~\A b \in 0..(info.size - 1) : InIv(f, b) BY Zenon, <2>7, NewSample
    <3>5. ~AllHere(d, s, f, info) BY Zenon, <3>3, <3>4 DEF AllHere, HasByte
    <3> QED BY Zenon, <2>7, <3>1, <3>2, <3>3, <3>5 DEF Rsampled
  <2>8. CASE nn_rdata_is_fragment(f, info) /\ s # d.max_sample /\ Admits(d, s)
    <3>1. PICK c : c = defrag_limit_samples(d) BY Zenon
    <3>2. o = AddToOrNew(c, s, f, info) BY Zenon, <2>8, <3>1 DEF nn_defrag_rsample
    <3>3. DefragOK(c, info, n) /\ Kept(d, c, Dropped(d, s)) /\ c.n_samples < c.max_samples
      <4>1. CASE d.n_samples = d.max_samples
        <5>1. Dropped(d, s) = {SampleToDrop(d)} BY Zenon, <2>8, <4>1 DEF Dropped, Full
        <5>2. PICK x : x = SampleToDrop(d) BY Zenon
        <5>3. DefragOK(c, info, n) /\ Kept(d, c, {x}) /\ c.n_samples < c.max_samples
          BY Zenon, <3>1, <4>1, <5>2, <1>LimitOK
        <5> QED BY Zenon, <5>1, <5>2, <5>3
      <4>2. CASE d.n_samples < d.max_samples
        <5>1. c = d BY Zenon, <3>1, <4>2 DEF defrag_limit_samples
        <5>2. Dropped(d, s) = {} BY <2>2, <2>3, <4>2 DEF Dropped, Full
        <5> QED BY Zenon, <2>4, <4>2, <5>1, <5>2
      <4> QED BY <2>2, <2>3, <4>1, <4>2
    <3>4. DefragOK(o.defrag, info, n) /\ WithFragment(c, s, f, o, info)
      <4>1. CASE s \in DOMAIN c.sampletree
        <5>1. o = AddTo(c, s, f, info) BY Zenon, <3>2, <4>1 DEF AddToOrNew
        <5> QED BY Zenon, <3>3, <4>1, <5>1, <1>AddToOK
      <4>2. CASE s \notin DOMAIN c.sampletree
        <5>1. o = Out(AddNew(c, s, f), FALSE) BY Zenon, <3>2, <4>2 DEF AddToOrNew
        <5> QED BY Zenon, <2>8, <3>3, <4>2, <5>1, <1>AddNewOK
      <4> QED BY Zenon, <4>1, <4>2
    <3> QED BY Zenon, <2>8, <3>3, <3>4 DEF Rsampled
  <2> QED BY Zenon, <2>5, <2>6, <2>7, <2>8
<1> TAKE info, n, d, s, f, o
<1> HAVE /\ InfoOK(info) /\ n \in Nat /\ DefragOK(d, info, n)
         /\ d.drop_mode \in {"DROP_LATEST", "DROP_OLDEST"} /\ s \in 1..n /\ IsFragments(f, info)
         /\ o = nn_defrag_rsample(d, s, f, info)
<1> QED BY Zenon, <1>Main

\* More samples may be written.
LEMMA DefragGrows ==
  ASSUME NEW info, NEW n \in Nat, NEW m \in Nat, n <= m, NEW d, DefragOK(d, info, n)
  PROVE  DefragOK(d, info, m)
<1>1. DOMAIN d.sampletree \subseteq 1..m BY DEF DefragOK
<1> QED BY Zenon, <1>1 DEF DefragOK

SameLimits(d, e) == e.max_samples = d.max_samples /\ e.drop_mode = d.drop_mode

\* nn_defrag_notegap leaves the limit and the policy alone.
LEMMA NotegapKeeps ==
  \A info, n, d, a, b, e :
    n \in Nat /\ DefragOK(d, info, n) /\ e = nn_defrag_notegap(d, a, b)
    => DefragOK(e, info, n) /\ SameLimits(d, e)
<1> SUFFICES ASSUME NEW info, NEW n \in Nat, NEW d, DefragOK(d, info, n), NEW a, NEW b,
                    NEW e, e = nn_defrag_notegap(d, a, b)
             PROVE  DefragOK(e, info, n) /\ SameLimits(d, e)
  BY Zenon
<1>1. DefragOK(e, info, n) /\ Kept(d, e, {s \in DOMAIN d.sampletree : a <= s /\ s < b}) BY NotegapOK
<1> QED BY Zenon, <1>1 DEF Kept, SameLimits

\* nn_defrag_rsample leaves the limit and the policy alone.
LEMMA RsampleKeeps ==
  \A info, n, d, s, f, o :
    /\ InfoOK(info) /\ n \in Nat /\ DefragOK(d, info, n)
    /\ d.drop_mode \in {"DROP_LATEST", "DROP_OLDEST"} /\ s \in 1..n /\ IsFragments(f, info)
    /\ o = nn_defrag_rsample(d, s, f, info)
    => SameLimits(d, o.defrag)
<1> SUFFICES ASSUME NEW info, InfoOK(info), NEW n \in Nat, NEW d, DefragOK(d, info, n),
                    d.drop_mode \in {"DROP_LATEST", "DROP_OLDEST"}, NEW s \in 1..n,
                    NEW f, IsFragments(f, info), NEW o, o = nn_defrag_rsample(d, s, f, info)
             PROVE  SameLimits(d, o.defrag)
  BY Zenon
<1>1. Rsampled(d, s, f, o, info) BY Zenon, RsampleOK
<1>2. PassesBy(d, o) => o.defrag = d BY DEF PassesBy, Out
<1> QED BY Zenon, <1>1, <1>2 DEF Rsampled, SameLimits, Kept, WithFragment, OthersKept

=============================================================================
