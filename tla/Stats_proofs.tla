----------------------------- MODULE Stats_proofs -----------------------------
(***************************************************************************)
(* Proofs about the statistics, for any packets, filters, numbers of       *)
(* buckets and orders in which a hash map lists what it holds.             *)
(*                                                                         *)
(* The lemmas come in the order of the code: sums over packets, lists in   *)
(* an order, the tables and their sorts, the graph, the protocol tree and  *)
(* its rows.  StatsInv says that an open dialog shows what is computed     *)
(* from the packets in view; it is inductive because every key and every   *)
(* arrival that changes those computes it again (ComputedIs).              *)
(***************************************************************************)
EXTENDS StatsDialog, SequenceTheorems, FiniteSetTheorems, WellFoundedInduction, TLAPS

-----------------------------------------------------------------------------
(* The least of a set of naturals, and induction over a finite set.        *)
LEMMA LeastExists ==
  ASSUME NEW S \in SUBSET Nat, S # {}
  PROVE  \E x \in S : \A y \in S : x <= y
<1> DEFINE R == OpToRel(<, Nat)
<1>1. IsWellFoundedOn(R, Nat)
  BY NatLessThanWellFounded
<1>2. \A x, y \in Nat : x < y => <<x, y>> \in R
  BY DEF OpToRel
<1> HIDE DEF R
<1>3. PICK x \in S : \A y \in S : ~ (<<y, x>> \in R)
  BY <1>1, WFMin, Zenon
<1>4. ASSUME NEW y \in S PROVE x <= y
  <2>1. x \in Nat /\ y \in Nat /\ ~(<<y, x>> \in R)
    BY <1>3
  <2>2. ~(y < x)
    BY <1>2, <2>1
  <2> QED
    BY <2>1, <2>2
<1> QED
  BY <1>3, <1>4

LEMMA LeastOf ==
  ASSUME NEW S \in SUBSET Nat, S # {}
  PROVE  Min(S) \in S /\ \A y \in S : Min(S) <= y
BY LeastExists DEF Min

LEMMA SetInduction ==
  ASSUME NEW S \in SUBSET Nat, 0 \in S, \A k \in S : k + 1 \in S
  PROVE  S = Nat
<1> DEFINE T == Nat \ S
<1> SUFFICES ASSUME T # {} PROVE FALSE
  OBVIOUS
<1>1. T \in SUBSET Nat
  OBVIOUS
<1> HIDE DEF T
<1>2. PICK x \in T : \A y \in T : x <= y
  BY <1>1, LeastExists
<1> USE DEF T
<1>3. x - 1 \in Nat /\ x - 1 < x /\ (x - 1) + 1 = x
  BY <1>2
<1>4. x - 1 \notin T
  BY <1>2, <1>3
<1> QED
  BY <1>2, <1>3, <1>4

-----------------------------------------------------------------------------
(* Sums.  u has the sums of the first k values of f.                       *)
Sums(u, f, k) == u = [n \in 0..k |-> IF n = 0 THEN 0 ELSE u[n - 1] + f[n]]

LEMMA SumsRun ==
  ASSUME NEW f, NEW k \in Nat
  PROVE  \E u : Sums(u, f, k)
<1> DEFINE S == {n \in Nat : \E u : Sums(u, f, n)}
<1>1. 0 \in S
  <2> DEFINE v == [n \in 0..0 |-> 0]
  <2>1. Sums(v, f, 0)
    BY DEF Sums
  <2> HIDE DEF v
  <2> QED
    BY <2>1
<1>2. ASSUME NEW n \in S PROVE n + 1 \in S
  <2>1. n \in Nat /\ n + 1 \in Nat
    OBVIOUS
  <2>2. PICK u : Sums(u, f, n)
    OBVIOUS
  <2> DEFINE last == u[n] + f[n + 1]
             v == [i \in 0..(n + 1) |-> IF i = n + 1 THEN last ELSE u[i]]
  <2>3. \A i \in 0..(n + 1) : i # n + 1 => i \in 0..n
    BY <2>1
  <2>4. n \in 0..(n + 1) /\ n + 1 \in 0..(n + 1) /\ n # n + 1 /\ (n + 1) - 1 = n /\ n + 1 # 0
    BY <2>1
  <2> HIDE DEF last
  <2>5. v[n + 1] = last /\ v[n] = u[n]
    BY <2>4
  <2>6. ASSUME NEW i \in 0..(n + 1)
        PROVE  v[i] = IF i = 0 THEN 0 ELSE v[i - 1] + f[i]
    <3>1. CASE i = n + 1
      BY <2>4, <2>5, <3>1 DEF last
    <3>2. CASE i # n + 1
      <4>1. i \in 0..n /\ v[i] = u[i]
        BY <2>3, <3>2
      <4>2. u[i] = IF i = 0 THEN 0 ELSE u[i - 1] + f[i]
        BY <2>2, <4>1 DEF Sums
      <4>3. i # 0 => v[i - 1] = u[i - 1]
        <5>1. i # 0 => i - 1 \in 0..(n + 1) /\ i - 1 # n + 1
          BY <2>1, <4>1
        <5> QED
          BY <5>1
      <4> QED
        BY <4>1, <4>2, <4>3
    <3> QED
      BY <3>1, <3>2
  <2>7. v = [i \in 0..(n + 1) |-> IF i = 0 THEN 0 ELSE v[i - 1] + f[i]]
    <3>1. v = [i \in 0..(n + 1) |-> v[i]]
      OBVIOUS
    <3> HIDE DEF v
    <3> QED
      BY <2>6, <3>1
  <2> HIDE DEF v
  <2>8. Sums(v, f, n + 1)
    BY <2>7 DEF Sums
  <2> QED
    BY <2>1, <2>8
<1>3. S \in SUBSET Nat
  OBVIOUS
<1> HIDE DEF S
<1>4. S = Nat
  BY <1>1, <1>2, <1>3, SetInduction
<1> QED
  BY <1>4 DEF S

LEMMA SumOf ==
  ASSUME NEW f, NEW k \in Nat
  PROVE  \E u : Sums(u, f, k) /\ SumTo(f, k) = u[k]
<1> DEFINE w == CHOOSE u : u = [n \in 0..k |-> IF n = 0 THEN 0 ELSE u[n - 1] + f[n]]
<1>1. SumTo(f, k) = w[k]
  BY DEF SumTo
<1>2. \E u : u = [n \in 0..k |-> IF n = 0 THEN 0 ELSE u[n - 1] + f[n]]
  BY SumsRun DEF Sums
<1>3. Sums(w, f, k)
  BY <1>2 DEF Sums
<1> HIDE DEF w
<1> QED
  BY <1>1, <1>3

(* Sums of one f are the same as far as they go.                           *)
LEMMA SumsAgree ==
  ASSUME NEW f, NEW k \in Nat, NEW m \in Nat, k <= m, NEW u, NEW w, Sums(u, f, k), Sums(w, f, m)
  PROVE  \A n \in 0..k : u[n] = w[n]
<1> DEFINE S == {n \in Nat : n <= k => u[n] = w[n]}
<1>1. 0 \in S
  BY DEF Sums
<1>2. ASSUME NEW n \in S PROVE n + 1 \in S
  <2>1. n \in Nat /\ n + 1 \in Nat /\ (n + 1) - 1 = n /\ n + 1 # 0
    OBVIOUS
  <2>2. ASSUME n + 1 <= k PROVE u[n + 1] = w[n + 1]
    <3>1. n + 1 \in 0..k /\ n + 1 \in 0..m /\ n <= k
      BY <2>1, <2>2
    <3>2. u[n + 1] = u[n] + f[n + 1]
      BY <2>1, <3>1 DEF Sums
    <3>3. w[n + 1] = w[n] + f[n + 1]
      BY <2>1, <3>1 DEF Sums
    <3> QED
      BY <3>1, <3>2, <3>3
  <2> QED
    BY <2>1, <2>2
<1>3. S \in SUBSET Nat
  OBVIOUS
<1> HIDE DEF S
<1>4. S = Nat
  BY <1>1, <1>2, <1>3, SetInduction
<1> QED
  BY <1>4 DEF S

LEMMA SumToNone ==
  ASSUME NEW f
  PROVE  SumTo(f, 0) = 0
<1>1. PICK u : Sums(u, f, 0) /\ SumTo(f, 0) = u[0]
  BY SumOf
<1> QED
  BY <1>1 DEF Sums

LEMMA SumToNext ==
  ASSUME NEW f, NEW k \in Nat
  PROVE  SumTo(f, k + 1) = SumTo(f, k) + f[k + 1]
<1>1. PICK u : Sums(u, f, k) /\ SumTo(f, k) = u[k]
  BY SumOf
<1>2. PICK w : Sums(w, f, k + 1) /\ SumTo(f, k + 1) = w[k + 1]
  BY SumOf
<1>3. u[k] = w[k]
  BY <1>1, <1>2, SumsAgree
<1>4. w[k + 1] = w[k] + f[k + 1]
  <2>1. k + 1 \in 0..(k + 1) /\ k + 1 # 0 /\ (k + 1) - 1 = k
    OBVIOUS
  <2> QED
    BY <1>2, <2>1 DEF Sums
<1> QED
  BY <1>1, <1>2, <1>3, <1>4

(* What a sum depends on, its type, and the sum of sums.                   *)
LEMMA SumToNat ==
  ASSUME NEW k \in Nat, NEW f, \A n \in 1..k : f[n] \in Nat
  PROVE  SumTo(f, k) \in Nat
<1> DEFINE S == {n \in Nat : n <= k => SumTo(f, n) \in Nat}
<1>1. 0 \in S
  BY SumToNone
<1>2. ASSUME NEW n \in S PROVE n + 1 \in S
  <2>1. n + 1 <= k => n + 1 \in 1..k /\ n <= k
    OBVIOUS
  <2> QED
    BY <2>1, SumToNext
<1>3. S \in SUBSET Nat
  OBVIOUS
<1> HIDE DEF S
<1>4. S = Nat
  BY <1>1, <1>2, <1>3, SetInduction
<1> QED
  BY <1>4 DEF S

LEMMA SumToSum ==
  ASSUME NEW k \in Nat, NEW f, NEW g, NEW h,
         \A n \in 1..k : f[n] \in Nat /\ g[n] \in Nat /\ h[n] = f[n] + g[n]
  PROVE  SumTo(h, k) = SumTo(f, k) + SumTo(g, k)
<1> DEFINE S == {n \in Nat : n <= k => SumTo(h, n) = SumTo(f, n) + SumTo(g, n)}
<1>1. 0 \in S
  BY SumToNone
<1>2. ASSUME NEW n \in S PROVE n + 1 \in S
  <2>1. n + 1 <= k => n + 1 \in 1..k /\ n <= k
    OBVIOUS
  <2>2. n + 1 <= k => SumTo(f, n) \in Nat /\ SumTo(g, n) \in Nat
    BY SumToNat
  <2>3. /\ SumTo(f, n + 1) = SumTo(f, n) + f[n + 1]
        /\ SumTo(g, n + 1) = SumTo(g, n) + g[n + 1]
        /\ SumTo(h, n + 1) = SumTo(h, n) + h[n + 1]
    BY SumToNext
  <2> QED
    BY <2>1, <2>2, <2>3
<1>3. S \in SUBSET Nat
  OBVIOUS
<1> HIDE DEF S
<1>4. S = Nat
  BY <1>1, <1>2, <1>3, SetInduction
<1> QED
  BY <1>4 DEF S

LEMMA SumToSame ==
  ASSUME NEW k \in Nat, NEW f, NEW g, \A n \in 1..k : f[n] = g[n]
  PROVE  SumTo(f, k) = SumTo(g, k)
<1> DEFINE S == {n \in Nat : n <= k => SumTo(f, n) = SumTo(g, n)}
<1>1. 0 \in S
  BY SumToNone
<1>2. ASSUME NEW n \in S PROVE n + 1 \in S
  <2>1. n + 1 <= k => n + 1 \in 1..k /\ n <= k
    OBVIOUS
  <2> QED
    BY <2>1, SumToNext
<1>3. S \in SUBSET Nat
  OBVIOUS
<1> HIDE DEF S
<1>4. S = Nat
  BY <1>1, <1>2, <1>3, SetInduction
<1> QED
  BY <1>4 DEF S

(* The packets of a view.                                                  *)
LEMMA PacketFields ==
  ASSUME NEW p \in Arriving
  PROVE  /\ p.src \in DOMAIN Text /\ p.dst \in DOMAIN Text /\ p.srcPort \in Int /\ p.dstPort \in Int
         /\ p.bytes \in Nat /\ p.ts \in Int
BY StatsAssumption

LEMMA InView ==
  ASSUME NEW v \in Seq(Arriving)
  PROVE  /\ Len(v) \in Nat /\ DOMAIN v = 1..Len(v) /\ IsFiniteSet(DOMAIN v) /\ Cardinality(DOMAIN v) = Len(v)
         /\ \A i \in DOMAIN v : v[i] \in Arriving /\ v[i].bytes \in Nat /\ v[i].ts \in Int
<1>1. Len(v) \in Nat /\ DOMAIN v = 1..Len(v)
  BY LenProperties
<1>2. \A i \in DOMAIN v : v[i] \in Arriving
  BY <1>1, ElementOfSeq
<1>3. IsFiniteSet(1..Len(v)) /\ Cardinality(1..Len(v)) = Len(v)
  BY <1>1, FS_Interval
<1> QED
  BY <1>1, <1>2, <1>3, PacketFields

BytesIn(v, I) == [i \in DOMAIN v |-> IF i \in I THEN v[i].bytes ELSE 0]

LEMMA BytesNat ==
  ASSUME NEW v \in Seq(Arriving), NEW I
  PROVE  Bytes(v, I) \in Nat /\ \A i \in 1..Len(v) : BytesIn(v, I)[i] \in Nat
<1>1. \A i \in 1..Len(v) : BytesIn(v, I)[i] \in Nat
  BY InView DEF BytesIn
<1>2. SumTo(BytesIn(v, I), Len(v)) \in Nat
  BY <1>1, InView, SumToNat
<1> QED
  BY <1>1, <1>2 DEF Bytes, BytesIn

LEMMA BytesJoin ==
  ASSUME NEW v \in Seq(Arriving), NEW I, NEW J, I \cap J = {}
  PROVE  Bytes(v, I \cup J) = Bytes(v, I) + Bytes(v, J)
<1> DEFINE f == BytesIn(v, I)
           g == BytesIn(v, J)
           h == BytesIn(v, I \cup J)
           k == Len(v)
<1>1. k \in Nat
  BY InView
<1>2. \A n \in 1..k : f[n] \in Nat /\ g[n] \in Nat
  BY BytesNat
<1>3. \A n \in 1..k : h[n] = f[n] + g[n]
  BY InView DEF BytesIn
<1> HIDE DEF f, g, h, k
<1>4. SumTo(h, k) = SumTo(f, k) + SumTo(g, k)
  BY <1>1, <1>2, <1>3, SumToSum
<1> QED
  BY <1>4 DEF Bytes, BytesIn, f, g, h, k

(* Bytes of what carries none.                                             *)
LEMMA BytesOfSome ==
  ASSUME NEW v \in Seq(Arriving), NEW I, NEW J, \A i \in DOMAIN v : v[i].bytes > 0 => (i \in I <=> i \in J)
  PROVE  Bytes(v, I) = Bytes(v, J)
<1> DEFINE f == BytesIn(v, I)
           g == BytesIn(v, J)
           k == Len(v)
<1>1. k \in Nat
  BY InView
<1>2. \A n \in 1..k : f[n] = g[n]
  <2> SUFFICES ASSUME NEW n \in 1..k PROVE f[n] = g[n]
    OBVIOUS
  <2>1. n \in DOMAIN v /\ v[n].bytes \in Nat
    BY InView
  <2>2. v[n].bytes = 0 \/ v[n].bytes > 0
    BY <2>1
  <2> QED
    BY <2>1, <2>2 DEF BytesIn
<1> HIDE DEF f, g, k
<1>3. SumTo(f, k) = SumTo(g, k)
  BY <1>1, <1>2, SumToSame
<1> QED
  BY <1>3 DEF Bytes, BytesIn, f, g, k

LEMMA BytesOfNone ==
  ASSUME NEW v \in Seq(Arriving)
  PROVE  Bytes(v, {}) = 0
<1>1. Bytes(v, {} \cup {}) = Bytes(v, {}) + Bytes(v, {})
  <2>1. {} \cap {} = {}
    OBVIOUS
  <2> DEFINE none == {}
  <2>2. none \cap none = {}
    OBVIOUS
  <2> HIDE DEF none
  <2>3. Bytes(v, none \cup none) = Bytes(v, none) + Bytes(v, none)
    BY <2>2, BytesJoin
  <2> QED
    BY <2>3 DEF none
<1>2. {} \cup {} = {}
  OBVIOUS
<1>3. Bytes(v, {}) \in Nat
  BY BytesNat
<1> QED
  BY <1>1, <1>2, <1>3

(* What is divided among n sets is the sum of what is in each.             *)
Within(I, n) == UNION {I[j] : j \in 1..n}
Disjoint(I, n) == \A i, j \in 1..n : i # j => I[i] \cap I[j] = {}

LEMMA WithinNext ==
  ASSUME NEW I, NEW n \in Nat
  PROVE  Within(I, 0) = {} /\ Within(I, n + 1) = Within(I, n) \cup I[n + 1]
<1>1. 1..(n + 1) = 1..n \cup {n + 1} /\ 1..0 = {}
  OBVIOUS
<1>2. Within(I, n + 1) = Within(I, n) \cup I[n + 1]
  BY <1>1, Zenon DEF Within
<1> QED
  BY <1>1, <1>2 DEF Within

LEMMA BytesOfUnion ==
  ASSUME NEW v \in Seq(Arriving), NEW k \in Nat, NEW I, Disjoint(I, k)
  PROVE  SumTo([j \in 1..k |-> Bytes(v, I[j])], k) = Bytes(v, Within(I, k))
<1> DEFINE f == [j \in 1..k |-> Bytes(v, I[j])]
           S == {n \in Nat : n <= k => SumTo(f, n) = Bytes(v, Within(I, n))}
<1>1. 0 \in S
  <2>1. Within(I, 0) = {}
    BY WithinNext
  <2> HIDE DEF f
  <2> QED
    BY <2>1, SumToNone, BytesOfNone
<1>2. ASSUME NEW n \in S PROVE n + 1 \in S
  <2>1. n \in Nat
    OBVIOUS
  <2>2. ASSUME n + 1 <= k PROVE SumTo(f, n + 1) = Bytes(v, Within(I, n + 1))
    <3>1. n <= k /\ n + 1 \in 1..k
      BY <2>1, <2>2
    <3>2. SumTo(f, n) = Bytes(v, Within(I, n))
      BY <3>1
    <3>3. f[n + 1] = Bytes(v, I[n + 1])
      BY <3>1
    <3>4. Within(I, n) \cap I[n + 1] = {}
      <4>1. \A j \in 1..n : j \in 1..k /\ j # n + 1
        BY <2>1, <3>1
      <4> QED
        BY <3>1, <4>1 DEF Within, Disjoint
    <3>5. Within(I, n + 1) = Within(I, n) \cup I[n + 1]
      BY <2>1, WithinNext
    <3> DEFINE A == Within(I, n)
               B == I[n + 1]
    <3>6. A \cap B = {}
      BY <3>4
    <3> HIDE DEF A, B
    <3>7. Bytes(v, A \cup B) = Bytes(v, A) + Bytes(v, B)
      BY <3>6, BytesJoin
    <3> HIDE DEF f
    <3>8. SumTo(f, n + 1) = SumTo(f, n) + f[n + 1]
      BY <2>1, SumToNext
    <3> QED
      BY <3>2, <3>3, <3>5, <3>7, <3>8 DEF A, B
  <2> QED
    BY <2>1, <2>2
<1>3. S \in SUBSET Nat
  OBVIOUS
<1> HIDE DEF S
<1>4. S = Nat
  BY <1>1, <1>2, <1>3, SetInduction
<1> QED
  BY <1>4 DEF S

LEMMA TotalOfUnion ==
  ASSUME NEW k \in Nat, NEW I, Disjoint(I, k), \A j \in 1..k : IsFiniteSet(I[j])
  PROVE  SumTo([j \in 1..k |-> Total(I[j])], k) = Total(Within(I, k))
<1> DEFINE f == [j \in 1..k |-> Total(I[j])]
           S == {n \in Nat : n <= k => IsFiniteSet(Within(I, n)) /\ SumTo(f, n) = Total(Within(I, n))}
<1>1. 0 \in S
  <2>1. Within(I, 0) = {} /\ IsFiniteSet({}) /\ Cardinality({}) = 0
    BY WithinNext, FS_EmptySet
  <2> HIDE DEF f
  <2> QED
    BY <2>1, SumToNone DEF Total
<1>2. ASSUME NEW n \in S PROVE n + 1 \in S
  <2>1. n \in Nat
    OBVIOUS
  <2>2. ASSUME n + 1 <= k
        PROVE  IsFiniteSet(Within(I, n + 1)) /\ SumTo(f, n + 1) = Total(Within(I, n + 1))
    <3>1. n <= k /\ n + 1 \in 1..k
      BY <2>1, <2>2
    <3>2. IsFiniteSet(Within(I, n)) /\ SumTo(f, n) = Total(Within(I, n))
      BY <3>1
    <3>3. f[n + 1] = Total(I[n + 1]) /\ IsFiniteSet(I[n + 1])
      BY <3>1
    <3>4. Within(I, n) \cap I[n + 1] = {}
      <4>1. \A j \in 1..n : j \in 1..k /\ j # n + 1
        BY <2>1, <3>1
      <4> QED
        BY <3>1, <4>1 DEF Within, Disjoint
    <3>5. Within(I, n + 1) = Within(I, n) \cup I[n + 1]
      BY <2>1, WithinNext
    <3> DEFINE A == Within(I, n)
               B == I[n + 1]
    <3>6. A \cap B = {} /\ IsFiniteSet(A) /\ IsFiniteSet(B)
      BY <3>2, <3>3, <3>4
    <3> HIDE DEF A, B
    <3>7. IsFiniteSet(A \cup B) /\ Cardinality(A \cup B) = Cardinality(A) + Cardinality(B)
      <4>1. Cardinality(A) \in Nat /\ Cardinality(B) \in Nat /\ Cardinality({}) = 0
        BY <3>6, FS_CardinalityType, FS_EmptySet
      <4>2. /\ IsFiniteSet(A \cup B)
            /\ Cardinality(A \cup B) = Cardinality(A) + Cardinality(B) - Cardinality(A \cap B)
        BY <3>6, FS_Union
      <4>3. Cardinality(A \cap B) = 0
        BY <3>6, <4>1
      <4> QED
        BY <4>1, <4>2, <4>3
    <3> HIDE DEF f
    <3>8. SumTo(f, n + 1) = SumTo(f, n) + f[n + 1]
      BY <2>1, SumToNext
    <3> QED
      BY <3>2, <3>3, <3>5, <3>7, <3>8 DEF A, B, Total
  <2> QED
    BY <2>1, <2>2
<1>3. S \in SUBSET Nat
  OBVIOUS
<1> HIDE DEF S
<1>4. S = Nat
  BY <1>1, <1>2, <1>3, SetInduction
<1> QED
  BY <1>4 DEF S

-----------------------------------------------------------------------------
(* Elements in an order: the number of the earlier ones of each is another *)
(* number.                                                                 *)
StrictOrder(S, R) ==
  /\ \A x \in S : <<x, x>> \notin R
  /\ \A x, y \in S : x # y => <<x, y>> \in R \/ <<y, x>> \in R
  /\ \A x, y, z \in S : <<x, y>> \in R /\ <<y, z>> \in R => <<x, z>> \in R

Earlier(S, R, x) == {y \in S : <<y, x>> \in R}
PlaceIn(S, R, x) == Cardinality(Earlier(S, R, x))

LEMMA EarlierCounted ==
  ASSUME NEW S, NEW R, IsFiniteSet(S), StrictOrder(S, R), NEW x \in S
  PROVE  /\ IsFiniteSet(Earlier(S, R, x)) /\ PlaceIn(S, R, x) \in Nat
         /\ PlaceIn(S, R, x) < Cardinality(S)
<1> DEFINE E == Earlier(S, R, x)
           T == S \ {x}
<1>1. E \in SUBSET T
  BY DEF Earlier, StrictOrder
<1>2. IsFiniteSet(T) /\ Cardinality(T) = Cardinality(S) - 1 /\ Cardinality(S) \in Nat
  BY FS_RemoveElement, FS_CardinalityType
<1> HIDE DEF E, T
<1>3. IsFiniteSet(E) /\ Cardinality(E) <= Cardinality(T) /\ Cardinality(E) \in Nat
  BY <1>1, <1>2, FS_Subset, FS_CardinalityType
<1> QED
  BY <1>2, <1>3 DEF PlaceIn, E

LEMMA EarlierPlace ==
  ASSUME NEW S, NEW R, IsFiniteSet(S), StrictOrder(S, R), NEW x \in S, NEW y \in S, <<x, y>> \in R
  PROVE  PlaceIn(S, R, x) < PlaceIn(S, R, y)
<1> DEFINE E == Earlier(S, R, x)
           F == Earlier(S, R, y)
<1>1. E \cup {x} \in SUBSET F /\ x \notin E
  BY DEF Earlier, StrictOrder
<1>2. IsFiniteSet(E) /\ IsFiniteSet(F) /\ Cardinality(E) \in Nat /\ Cardinality(F) \in Nat
  BY EarlierCounted DEF PlaceIn
<1> HIDE DEF E, F
<1>3. Cardinality(E \cup {x}) = Cardinality(E) + 1
  BY <1>1, <1>2, FS_AddElement
<1>4. Cardinality(E \cup {x}) <= Cardinality(F)
  BY <1>1, <1>2, FS_Subset
<1> QED
  BY <1>2, <1>3, <1>4 DEF PlaceIn, E, F

LEMMA PlacesTaken ==
  ASSUME NEW S, NEW R, IsFiniteSet(S), StrictOrder(S, R)
  PROVE  /\ Cardinality(S) \in Nat
         /\ \A x, y \in S : PlaceIn(S, R, x) = PlaceIn(S, R, y) => x = y
         /\ \A n \in 1..Cardinality(S) : \E x \in S : PlaceIn(S, R, x) = n - 1
<1> DEFINE c == Cardinality(S)
           T == 1..c
           f == [x \in S |-> PlaceIn(S, R, x) + 1]
<1>1. c \in Nat
  BY FS_CardinalityType
<1>2. \A x \in S : PlaceIn(S, R, x) \in Nat /\ PlaceIn(S, R, x) < c
  BY EarlierCounted
<1>3. \A x, y \in S : PlaceIn(S, R, x) = PlaceIn(S, R, y) => x = y
  <2> SUFFICES ASSUME NEW x \in S, NEW y \in S, x # y PROVE PlaceIn(S, R, x) # PlaceIn(S, R, y)
    OBVIOUS
  <2>1. <<x, y>> \in R \/ <<y, x>> \in R
    BY DEF StrictOrder
  <2>2. PlaceIn(S, R, x) < PlaceIn(S, R, y) \/ PlaceIn(S, R, y) < PlaceIn(S, R, x)
    BY <2>1, EarlierPlace
  <2> QED
    BY <1>2, <2>2
<1>4. f \in [S -> T]
  BY <1>1, <1>2
<1>5. f \in Injection(S, T)
  <2>1. \A x, y \in S : f[x] = f[y] => x = y
    BY <1>2, <1>3
  <2> QED
    BY <1>4, <2>1 DEF Injection, IsInjective
<1>6. IsFiniteSet(T) /\ Cardinality(T) = c
  BY <1>1, FS_Interval
<1>7. f \in Surjection(S, T)
  <2> HIDE DEF f, T
  <2>1. Cardinality(S) = Cardinality(T)
    BY <1>6
  <2> QED
    BY <1>5, <1>6, <2>1, FS_Injection
<1>8. \A n \in T : \E x \in S : f[x] = n
  BY <1>7 DEF Surjection
<1>9. \A n \in 1..c : \E x \in S : PlaceIn(S, R, x) = n - 1
  <2> SUFFICES ASSUME NEW n \in 1..c PROVE \E x \in S : PlaceIn(S, R, x) = n - 1
    OBVIOUS
  <2>1. PICK x \in S : f[x] = n
    BY <1>8
  <2>2. PlaceIn(S, R, x) + 1 = n /\ PlaceIn(S, R, x) \in Nat
    BY <1>2, <2>1
  <2>3. PlaceIn(S, R, x) = n - 1
    BY <2>2
  <2> QED
    BY <2>3
<1> QED
  BY <1>1, <1>3, <1>9

(* Every element once, in order.                                           *)
Lists(s, S) ==
  /\ s \in [1..Cardinality(S) -> S] /\ Cardinality(S) \in Nat
  /\ \A x \in S : \E n \in 1..Cardinality(S) : s[n] = x
  /\ \A m, n \in 1..Cardinality(S) : s[m] = s[n] => m = n

LEMMA ArrangedIs ==
  ASSUME NEW S, NEW R, IsFiniteSet(S), StrictOrder(S, R)
  PROVE  /\ Lists(Arranged(S, R), S)
         /\ \A m, n \in 1..Cardinality(S) : m < n => <<Arranged(S, R)[m], Arranged(S, R)[n]>> \in R
<1> DEFINE c == Cardinality(S)
           A == Arranged(S, R)
<1>1. /\ c \in Nat
      /\ \A x, y \in S : PlaceIn(S, R, x) = PlaceIn(S, R, y) => x = y
      /\ \A n \in 1..c : \E x \in S : PlaceIn(S, R, x) = n - 1
  BY PlacesTaken
<1>2. \A x \in S : PlaceIn(S, R, x) \in Nat /\ PlaceIn(S, R, x) < c
  BY EarlierCounted
<1>3. A = [n \in 1..c |-> CHOOSE x \in S : PlaceIn(S, R, x) = n - 1]
  BY DEF Arranged, PlaceIn, Earlier
<1> HIDE DEF A
<1>4. ASSUME NEW n \in 1..c PROVE A[n] \in S /\ PlaceIn(S, R, A[n]) = n - 1
  <2>1. \E x \in S : PlaceIn(S, R, x) = n - 1
    BY <1>1
  <2>2. A[n] = CHOOSE x \in S : PlaceIn(S, R, x) = n - 1
    BY <1>3
  <2> QED
    BY <2>1, <2>2
<1>5. A \in [1..c -> S]
  <2>1. A = [n \in 1..c |-> A[n]]
    BY <1>3
  <2> QED
    BY <1>4, <2>1
<1>6. ASSUME NEW x \in S PROVE \E n \in 1..c : A[n] = x
  <2> DEFINE n == PlaceIn(S, R, x) + 1
  <2>1. n \in 1..c /\ n - 1 = PlaceIn(S, R, x)
    BY <1>1, <1>2
  <2> HIDE DEF n
  <2>2. A[n] \in S /\ PlaceIn(S, R, A[n]) = PlaceIn(S, R, x)
    BY <1>4, <2>1
  <2> QED
    BY <1>1, <2>1, <2>2
<1>7. ASSUME NEW m \in 1..c, NEW n \in 1..c, A[m] = A[n] PROVE m = n
  <2>1. m - 1 = n - 1
    BY <1>4, <1>7
  <2> QED
    BY <1>1, <2>1
<1>8. ASSUME NEW m \in 1..c, NEW n \in 1..c, m < n PROVE <<A[m], A[n]>> \in R
  <2>1. A[m] \in S /\ A[n] \in S /\ PlaceIn(S, R, A[m]) = m - 1 /\ PlaceIn(S, R, A[n]) = n - 1
    BY <1>4
  <2>2. A[m] # A[n]
    BY <1>7, <1>8
  <2>3. <<A[m], A[n]>> \in R \/ <<A[n], A[m]>> \in R
    BY <2>1, <2>2 DEF StrictOrder
  <2>4. <<A[n], A[m]>> \in R => n - 1 < m - 1
    <3> DEFINE a == A[m]
               b == A[n]
    <3>1. a \in S /\ b \in S /\ PlaceIn(S, R, a) = m - 1 /\ PlaceIn(S, R, b) = n - 1
      BY <2>1
    <3> HIDE DEF a, b
    <3>2. <<b, a>> \in R => PlaceIn(S, R, b) < PlaceIn(S, R, a)
      BY <3>1, EarlierPlace
    <3> QED
      BY <3>1, <3>2 DEF a, b
  <2> QED
    BY <1>1, <1>8, <2>3, <2>4
<1>9. Lists(A, S)
  BY <1>1, <1>5, <1>6, <1>7 DEF Lists
<1> QED
  BY <1>8, <1>9 DEF A

(* A stable sort has the same elements, in the order of their values.      *)
LEMMA ValuesInOrder ==
  ASSUME NEW k \in Nat, NEW value \in [1..k -> Int], NEW ascending \in BOOLEAN
  PROVE  StrictOrder(1..k, ValueOrder(value, ascending))
<1> DEFINE R == ValueOrder(value, ascending)
<1>1. \A x, y \in 1..k :
        <<x, y>> \in R <=> IF value[x] = value[y] THEN x < y
                           ELSE IF ascending THEN value[x] < value[y] ELSE value[y] < value[x]
  BY DEF ValueOrder
<1>2. \A x \in 1..k : value[x] \in Int
  OBVIOUS
<1> HIDE DEF R
<1>3. \A x \in 1..k : <<x, x>> \notin R
  BY <1>1
<1>4. \A x, y \in 1..k : x # y => <<x, y>> \in R \/ <<y, x>> \in R
  BY <1>1, <1>2
<1>5. \A x, y, z \in 1..k : <<x, y>> \in R /\ <<y, z>> \in R => <<x, z>> \in R
  <2> SUFFICES ASSUME NEW x \in 1..k, NEW y \in 1..k, NEW z \in 1..k, <<x, y>> \in R, <<y, z>> \in R
               PROVE  <<x, z>> \in R
    OBVIOUS
  <2>1. CASE ascending
    BY <1>1, <1>2, <2>1
  <2>2. CASE ~ascending
    BY <1>1, <1>2, <2>2
  <2> QED
    BY <2>1, <2>2
<1> QED
  BY <1>3, <1>4, <1>5 DEF StrictOrder, R

OrderedBy(s, value, ascending) ==
  \A m, n \in DOMAIN s : m < n =>
    IF ascending THEN value[s[m]] <= value[s[n]] ELSE value[s[m]] >= value[s[n]]

LEMMA StableSortIs ==
  ASSUME NEW S, NEW s, Lists(s, S), NEW value \in [DOMAIN s -> Int], NEW ascending \in BOOLEAN
  PROVE  LET places == Arranged(DOMAIN s, ValueOrder(value, ascending))
             r == StableSort(s, value, ascending)
         IN  /\ Lists(r, S) /\ DOMAIN r = DOMAIN s
             /\ \A n \in DOMAIN s : places[n] \in DOMAIN s /\ r[n] = s[places[n]]
             /\ OrderedBy(places, value, ascending) /\ DOMAIN places = DOMAIN s
<1> DEFINE c == Cardinality(S)
           R == ValueOrder(value, ascending)
           places == Arranged(1..c, R)
           r == StableSort(s, value, ascending)
<1>1. /\ s \in [1..c -> S] /\ c \in Nat /\ DOMAIN s = 1..c
      /\ \A x \in S : \E n \in 1..c : s[n] = x
      /\ \A m, n \in 1..c : s[m] = s[n] => m = n
  BY DEF Lists
<1>2. IsFiniteSet(1..c) /\ Cardinality(1..c) = c
  BY <1>1, FS_Interval
<1>3. StrictOrder(1..c, R)
  BY <1>1, ValuesInOrder
<1>4. Lists(places, 1..c) /\ \A m, n \in 1..c : m < n => <<places[m], places[n]>> \in R
  <2> HIDE DEF R
  <2> DEFINE T == 1..c
  <2>1. IsFiniteSet(T) /\ StrictOrder(T, R) /\ Cardinality(T) = c
    BY <1>2, <1>3
  <2> HIDE DEF T
  <2>2. Lists(Arranged(T, R), T) /\ \A m, n \in 1..Cardinality(T) : m < n => <<Arranged(T, R)[m], Arranged(T, R)[n]>> \in R
    BY <2>1, ArrangedIs
  <2> QED
    BY <2>1, <2>2 DEF T
<1>5. /\ places \in [1..c -> 1..c]
      /\ \A x \in 1..c : \E n \in 1..c : places[n] = x
      /\ \A m, n \in 1..c : places[m] = places[n] => m = n
  <2> HIDE DEF places
  <2> QED
    BY <1>2, <1>4 DEF Lists
<1>6. r = [n \in 1..c |-> s[places[n]]]
  BY <1>1 DEF StableSort
<1> HIDE DEF places, r
<1>7. r \in [1..c -> S] /\ \A n \in 1..c : r[n] = s[places[n]]
  BY <1>1, <1>5, <1>6
<1>8. Lists(r, S)
  <2>1. ASSUME NEW x \in S PROVE \E n \in 1..c : r[n] = x
    <3>1. PICK i \in 1..c : s[i] = x
      BY <1>1
    <3>2. PICK n \in 1..c : places[n] = i
      BY <1>5
    <3> QED
      BY <1>7, <3>1, <3>2
  <2>2. ASSUME NEW m \in 1..c, NEW n \in 1..c, r[m] = r[n] PROVE m = n
    <3>1. places[m] \in 1..c /\ places[n] \in 1..c /\ s[places[m]] = s[places[n]]
      BY <1>5, <1>7, <2>2
    <3>2. places[m] = places[n]
      BY <1>1, <3>1
    <3> QED
      BY <1>5, <3>2
  <2> QED
    BY <1>1, <1>7, <2>1, <2>2 DEF Lists
<1>9. OrderedBy(places, value, ascending)
  <2> SUFFICES ASSUME NEW m \in 1..c, NEW n \in 1..c, m < n
               PROVE  IF ascending THEN value[places[m]] <= value[places[n]]
                      ELSE value[places[m]] >= value[places[n]]
    BY <1>5 DEF OrderedBy
  <2> DEFINE a == places[m]
             b == places[n]
  <2>1. <<a, b>> \in R
    BY <1>4
  <2>2. a \in DOMAIN s /\ b \in DOMAIN s
    BY <1>1, <1>5
  <2> HIDE DEF a, b
  <2>3. value[a] \in Int /\ value[b] \in Int
    BY <2>2
  <2>4. IF value[a] = value[b] THEN a < b ELSE IF ascending THEN value[a] < value[b] ELSE value[b] < value[a]
    BY <2>1, <2>2 DEF ValueOrder
  <2>5. IF ascending THEN value[a] <= value[b] ELSE value[a] >= value[b]
    BY <2>3, <2>4
  <2> QED
    BY <2>5 DEF a, b
<1> QED
  BY <1>1, <1>5, <1>7, <1>8, <1>9 DEF places, r

(* The least and the greatest of some times.                               *)
LEMMA TimesBounded ==
  ASSUME NEW v \in Seq(Arriving)
  PROVE  \E a, b \in Int : \A i \in DOMAIN v : a <= v[i].ts /\ v[i].ts <= b
<1> DEFINE S == {n \in Nat : n <= Len(v) => \E a, b \in Int : \A i \in 1..n : a <= v[i].ts /\ v[i].ts <= b}
<1>0. Len(v) \in Nat /\ DOMAIN v = 1..Len(v) /\ \A i \in 1..Len(v) : v[i].ts \in Int
  BY InView
<1>1. 0 \in S
  OBVIOUS
<1>2. ASSUME NEW n \in S PROVE n + 1 \in S
  <2>1. n \in Nat
    OBVIOUS
  <2>2. ASSUME n + 1 <= Len(v)
        PROVE  \E a, b \in Int : \A i \in 1..(n + 1) : a <= v[i].ts /\ v[i].ts <= b
    <3>1. PICK a \in Int, b \in Int : \A i \in 1..n : a <= v[i].ts /\ v[i].ts <= b
      BY <1>0, <2>1, <2>2
    <3> DEFINE t == v[n + 1].ts
               low == IF t < a THEN t ELSE a
               high == IF t > b THEN t ELSE b
    <3>2. t \in Int
      BY <1>0, <2>1, <2>2
    <3>3. low \in Int /\ high \in Int /\ low <= a /\ b <= high /\ low <= t /\ t <= high
      BY <3>2
    <3>4. \A i \in 1..(n + 1) : low <= v[i].ts /\ v[i].ts <= high
      <4> SUFFICES ASSUME NEW i \in 1..(n + 1) PROVE low <= v[i].ts /\ v[i].ts <= high
        OBVIOUS
      <4>1. CASE i = n + 1
        BY <3>3, <4>1
      <4>2. CASE i # n + 1
        <5>1. i \in 1..n /\ v[i].ts \in Int
          BY <1>0, <2>1, <2>2, <4>2
        <5>2. a <= v[i].ts /\ v[i].ts <= b
          BY <3>1, <5>1
        <5> HIDE DEF low, high
        <5> QED
          BY <3>3, <5>1, <5>2
      <4> QED
        BY <4>1, <4>2
    <3> QED
      BY <3>3, <3>4
  <2> QED
    BY <2>1, <2>2
<1>3. S \in SUBSET Nat
  OBVIOUS
<1> HIDE DEF S
<1>4. S = Nat
  BY <1>1, <1>2, <1>3, SetInduction
<1>5. Len(v) \in S /\ Len(v) <= Len(v)
  BY <1>0, <1>4
<1>6. \E a, b \in Int : \A i \in 1..Len(v) : a <= v[i].ts /\ v[i].ts <= b
  BY <1>5, Zenon DEF S
<1> QED
  BY <1>0, <1>6

LEMMA LeastInt ==
  ASSUME NEW S \in SUBSET Int, S # {}, NEW a \in Int, \A x \in S : a <= x
  PROVE  Min(S) \in S /\ \A y \in S : Min(S) <= y
<1> DEFINE T == {n \in Nat : n + a \in S}
<1>0. \A x \in S : x - a \in Nat /\ (x - a) + a \in S
  OBVIOUS
<1>1. T \in SUBSET Nat /\ T # {}
  BY <1>0
<1> HIDE DEF T
<1>2. PICK t \in T : \A y \in T : t <= y
  BY <1>1, LeastExists
<1>3. PICK x \in S : t = x - a
  BY <1>2 DEF T
<1>4. \A y \in S : x <= y
  <2> SUFFICES ASSUME NEW y \in S PROVE x <= y
    OBVIOUS
  <2>1. y - a \in T
    BY <1>0 DEF T
  <2>2. x - a <= y - a
    BY <1>2, <1>3, <2>1
  <2> QED
    BY <2>2
<1>5. \E z \in S : \A y \in S : z <= y
  BY <1>4
<1> QED
  BY <1>5 DEF Min

LEMMA GreatestInt ==
  ASSUME NEW S \in SUBSET Int, S # {}, NEW b \in Int, \A x \in S : x <= b
  PROVE  Max(S) \in S /\ \A y \in S : Max(S) >= y
<1> DEFINE T == {n \in Nat : b - n \in S}
<1>0. \A x \in S : b - x \in Nat /\ b - (b - x) \in S
  OBVIOUS
<1>1. T \in SUBSET Nat /\ T # {}
  BY <1>0
<1> HIDE DEF T
<1>2. PICK t \in T : \A y \in T : t <= y
  BY <1>1, LeastExists
<1>3. PICK x \in S : t = b - x
  BY <1>2 DEF T
<1>4. \A y \in S : x >= y
  <2> SUFFICES ASSUME NEW y \in S PROVE x >= y
    OBVIOUS
  <2>1. b - y \in T
    BY <1>0 DEF T
  <2>2. b - x <= b - y
    BY <1>2, <1>3, <2>1
  <2> QED
    BY <2>2
<1>5. \E z \in S : \A y \in S : z >= y
  BY <1>4
<1> QED
  BY <1>5 DEF Max

LEMMA TimesRange ==
  ASSUME NEW v \in Seq(Arriving), NEW I \in SUBSET (DOMAIN v), I # {}
  PROVE  /\ Min(Times(v, I)) \in Int /\ Max(Times(v, I)) \in Int
         /\ \A i \in I : Min(Times(v, I)) <= v[i].ts /\ v[i].ts <= Max(Times(v, I))
<1> DEFINE S == Times(v, I)
<1>1. PICK a \in Int, b \in Int : \A i \in DOMAIN v : a <= v[i].ts /\ v[i].ts <= b
  BY TimesBounded
<1>2. S \in SUBSET Int /\ S # {} /\ (\A x \in S : a <= x /\ x <= b) /\ \A i \in I : v[i].ts \in S
  BY <1>1, InView DEF Times
<1> HIDE DEF S
<1>3. Min(S) \in S /\ \A y \in S : Min(S) <= y
  BY <1>2, LeastInt
<1>4. Max(S) \in S /\ \A y \in S : Max(S) >= y
  BY <1>2, GreatestInt
<1>5. Min(S) \in Int /\ Max(S) \in Int /\ \A i \in I : Min(S) <= v[i].ts /\ v[i].ts <= Max(S)
  <2> SUFFICES ASSUME NEW i \in I PROVE v[i].ts <= Max(S)
    BY <1>2, <1>3, <1>4
  <2>1. v[i].ts \in S /\ v[i].ts \in Int /\ Max(S) \in Int /\ Max(S) >= v[i].ts
    BY <1>2, <1>4
  <2> QED
    BY <2>1
<1> QED
  BY <1>5 DEF S

-----------------------------------------------------------------------------
(* The tables.                                                             *)

LEMMA ImageFinite ==
  ASSUME NEW S, IsFiniteSet(S), NEW f, NEW T, \A t \in T : \E x \in S : f[x] = t
  PROVE  IsFiniteSet(T)
<1> DEFINE U == {x \in S : f[x] \in T}
           g == [x \in U |-> f[x]]
<1>1. U \in SUBSET S
  OBVIOUS
<1>2. g \in Surjection(U, T)
  <2>1. g \in [U -> T]
    OBVIOUS
  <2>2. \A t \in T : \E x \in U : g[x] = t
    OBVIOUS
  <2> HIDE DEF g, U
  <2> QED
    BY <2>1, <2>2 DEF Surjection
<1> HIDE DEF U, g
<1>3. IsFiniteSet(U)
  BY <1>1, FS_Subset
<1> QED
  BY <1>2, <1>3, FS_Surjection

(* What a row is the row of.                                               *)
LEMMA ConversationOf ==
  ASSUME NEW v, NEW r \in Conversations(v)
  PROVE  r = Conversation(v, r.key) /\ \E i \in DOMAIN v : ConvKey(v[i]) = r.key
<1>1. PICK i \in DOMAIN v : r = Conversation(v, ConvKey(v[i]))
  BY DEF Conversations
<1>2. r.key = ConvKey(v[i])
  BY <1>1 DEF Conversation
<1> QED
  BY <1>1, <1>2

LEMMA EndpointOf ==
  ASSUME NEW v, NEW r \in Endpoints(v)
  PROVE  r = Endpoint(v, r.key) /\ \E i \in DOMAIN v : v[i].src = r.key \/ v[i].dst = r.key
<1>1. PICK i \in DOMAIN v : r = Endpoint(v, v[i].src) \/ r = Endpoint(v, v[i].dst)
  BY DEF Endpoints
<1>2. (r.key = v[i].src /\ r = Endpoint(v, v[i].src)) \/ (r.key = v[i].dst /\ r = Endpoint(v, v[i].dst))
  BY <1>1 DEF Endpoint
<1> QED
  BY <1>2

LEMMA TotalNat ==
  ASSUME NEW v \in Seq(Arriving), NEW I \in SUBSET (DOMAIN v)
  PROVE  IsFiniteSet(I) /\ Total(I) \in Nat
<1>1. IsFiniteSet(DOMAIN v)
  BY InView
<1>2. IsFiniteSet(I)
  BY <1>1, FS_Subset
<1> QED
  BY <1>2, FS_CardinalityType DEF Total

LEMMA ConversationTyped ==
  ASSUME NEW v \in Seq(Arriving), NEW r \in Conversations(v)
  PROVE  /\ r.packetsAtoB \in Nat /\ r.packetsBtoA \in Nat /\ r.bytesAtoB \in Nat /\ r.bytesBtoA \in Nat
         /\ r.first \in Int /\ r.last \in Int
<1> DEFINE its == {i \in DOMAIN v : ConvKey(v[i]) = r.key}
           forward == {i \in its : IsForward(v[i])}
           back == its \ forward
<1>1. r = Conversation(v, r.key) /\ its # {}
  BY ConversationOf
<1>2. its \in SUBSET (DOMAIN v) /\ forward \in SUBSET (DOMAIN v) /\ back \in SUBSET (DOMAIN v)
  OBVIOUS
<1>3. /\ r.packetsAtoB = Total(forward) /\ r.packetsBtoA = Total(back)
      /\ r.bytesAtoB = Bytes(v, forward) /\ r.bytesBtoA = Bytes(v, back)
      /\ r.first = Min(Times(v, its)) /\ r.last = Max(Times(v, its))
  BY <1>1 DEF Conversation
<1> HIDE DEF its, forward, back
<1>4. Total(forward) \in Nat /\ Total(back) \in Nat
  BY <1>2, TotalNat
<1>5. Bytes(v, forward) \in Nat /\ Bytes(v, back) \in Nat
  BY BytesNat
<1>6. Min(Times(v, its)) \in Int /\ Max(Times(v, its)) \in Int
  BY <1>1, <1>2, TimesRange
<1> QED
  BY <1>3, <1>4, <1>5, <1>6

LEMMA EndpointTyped ==
  ASSUME NEW v \in Seq(Arriving), NEW r \in Endpoints(v)
  PROVE  r.txPackets \in Nat /\ r.rxPackets \in Nat /\ r.txBytes \in Nat /\ r.rxBytes \in Nat
<1> DEFINE tx == {i \in DOMAIN v : v[i].src = r.key /\ v[i].bytes > 0}
           rx == {i \in DOMAIN v : v[i].dst = r.key /\ v[i].bytes > 0}
<1>1. r = Endpoint(v, r.key)
  BY EndpointOf
<1>2. tx \in SUBSET (DOMAIN v) /\ rx \in SUBSET (DOMAIN v)
  OBVIOUS
<1>3. /\ r.txPackets = Total(tx) /\ r.rxPackets = Total(rx)
      /\ r.txBytes = Bytes(v, tx) /\ r.rxBytes = Bytes(v, rx)
  BY <1>1 DEF Endpoint
<1> HIDE DEF tx, rx
<1>4. Total(tx) \in Nat /\ Total(rx) \in Nat
  BY <1>2, TotalNat
<1>5. Bytes(v, tx) \in Nat /\ Bytes(v, rx) \in Nat
  BY BytesNat
<1> QED
  BY <1>3, <1>4, <1>5

ColumnsOf(t) == {Columns[t][n] : n \in DOMAIN Columns[t]}

LEMMA ColumnsAre ==
  /\ ColumnsOf("conv") = {"TotalPackets", "TotalBytes", "PacketsAtoB", "PacketsBtoA", "Duration"}
  /\ ColumnsOf("ends") = {"TotalPackets", "TotalBytes", "TxPackets", "RxPackets", "TxBytes", "RxBytes"}
<1> DEFINE C == <<"TotalPackets", "TotalBytes", "PacketsAtoB", "PacketsBtoA", "Duration">>
           E == <<"TotalPackets", "TotalBytes", "TxPackets", "RxPackets", "TxBytes", "RxBytes">>
<1>1. Columns["conv"] = C /\ Columns["ends"] = E
  BY DEF Columns, Tables
<1>2. {C[n] : n \in DOMAIN C} = {"TotalPackets", "TotalBytes", "PacketsAtoB", "PacketsBtoA", "Duration"}
  OBVIOUS
<1>3. {E[n] : n \in DOMAIN E} = {"TotalPackets", "TotalBytes", "TxPackets", "RxPackets", "TxBytes", "RxBytes"}
  OBVIOUS
<1> HIDE DEF C, E
<1> QED
  BY <1>1, <1>2, <1>3 DEF ColumnsOf

LEMMA ValueInt ==
  ASSUME NEW v \in Seq(Arriving), NEW t \in Tables, NEW r \in Rows(t, v), NEW column \in ColumnsOf(t)
  PROVE  Value(t, r, column) \in Int
<1>1. CASE t = "conv"
  <2>1. r \in Conversations(v)
    BY <1>1 DEF Rows
  <2>2. /\ r.packetsAtoB \in Nat /\ r.packetsBtoA \in Nat /\ r.bytesAtoB \in Nat /\ r.bytesBtoA \in Nat
        /\ r.first \in Int /\ r.last \in Int
    BY <2>1, ConversationTyped
  <2>3. column \in {"TotalPackets", "TotalBytes", "PacketsAtoB", "PacketsBtoA", "Duration"}
    BY <1>1, ColumnsAre
  <2> QED
    BY <1>1, <2>2, <2>3 DEF Value, ConvValue
<1>2. CASE t = "ends"
  <2>1. r \in Endpoints(v)
    BY <1>2 DEF Rows
  <2>2. r.txPackets \in Nat /\ r.rxPackets \in Nat /\ r.txBytes \in Nat /\ r.rxBytes \in Nat
    BY <2>1, EndpointTyped
  <2>3. column \in {"TotalPackets", "TotalBytes", "TxPackets", "RxPackets", "TxBytes", "RxBytes"}
    BY <1>2, ColumnsAre
  <2> QED
    BY <1>2, <2>2, <2>3 DEF Value, EndpointValue
<1> QED
  BY <1>1, <1>2 DEF Tables

LEMMA RowsFinite ==
  ASSUME NEW v \in Seq(Arriving), NEW t \in Tables
  PROVE  IsFiniteSet(Rows(t, v))
<1> DEFINE D == DOMAIN v
<1>1. IsFiniteSet(D)
  BY InView
<1>2. CASE t = "conv"
  <2> DEFINE f == [i \in D |-> Conversation(v, ConvKey(v[i]))]
             T == Rows(t, v)
  <2>1. \A r \in T : \E i \in D : f[i] = r
    BY <1>2 DEF Rows, Conversations
  <2> HIDE DEF f, T, D
  <2> QED
    BY <1>1, <2>1, ImageFinite DEF T
<1>3. CASE t = "ends"
  <2> DEFINE f == [i \in D |-> Endpoint(v, v[i].src)]
             g == [i \in D |-> Endpoint(v, v[i].dst)]
             T == {Endpoint(v, v[i].src) : i \in D}
             U == {Endpoint(v, v[i].dst) : i \in D}
  <2>1. \A r \in T : \E i \in D : f[i] = r
    OBVIOUS
  <2>2. \A r \in U : \E i \in D : g[i] = r
    OBVIOUS
  <2>3. Rows(t, v) = T \cup U
    BY <1>3 DEF Rows, Endpoints
  <2> HIDE DEF f, g, T, U, D
  <2>4. IsFiniteSet(T) /\ IsFiniteSet(U)
    BY <1>1, <2>1, <2>2, ImageFinite
  <2> QED
    BY <2>3, <2>4, FS_Union
<1> QED
  BY <1>2, <1>3 DEF Tables

(* The number of the first packet of a row, which is that of no other.     *)
LEMMA SeenFirst ==
  ASSUME NEW v \in Seq(Arriving), NEW t \in Tables, NEW r \in Rows(t, v)
  PROVE  Min(Seen(t, v, r)) \in Seen(t, v, r) /\ Seen(t, v, r) \in SUBSET Nat
<1> DEFINE S == Seen(t, v, r)
<1>1. DOMAIN v \in SUBSET Nat
  BY InView
<1>2. S \in SUBSET Nat
  BY <1>1 DEF Seen
<1>3. S # {}
  <2>1. CASE t = "conv"
    <3>1. \E i \in DOMAIN v : ConvKey(v[i]) = r.key
      BY <2>1, ConversationOf DEF Rows
    <3> QED
      BY <2>1, <3>1 DEF Seen
  <2>2. CASE t = "ends"
    <3>1. \E i \in DOMAIN v : v[i].src = r.key \/ v[i].dst = r.key
      BY <2>2, EndpointOf DEF Rows
    <3> QED
      BY <2>2, <3>1 DEF Seen
  <2> QED
    BY <2>1, <2>2 DEF Tables
<1> HIDE DEF S
<1>4. Min(S) \in S
  BY <1>2, <1>3, LeastOf
<1> QED
  BY <1>2, <1>4 DEF S

LEMMA FirstDiffers ==
  ASSUME NEW v \in Seq(Arriving), NEW t \in Tables, NEW r \in Rows(t, v), NEW s \in Rows(t, v),
         NEW n, n \in Seen(t, v, r), n \in Seen(t, v, s)
  PROVE  r = s
<1>1. DOMAIN v \in SUBSET Nat
  BY InView
<1>2. CASE t = "conv"
  <2>1. PICK i \in DOMAIN v : n = 2 * i /\ ConvKey(v[i]) = r.key
    BY <1>2 DEF Seen
  <2>2. PICK j \in DOMAIN v : n = 2 * j /\ ConvKey(v[j]) = s.key
    BY <1>2 DEF Seen
  <2>3. i = j
    BY <1>1, <2>1, <2>2
  <2>4. r = Conversation(v, r.key) /\ s = Conversation(v, s.key)
    BY <1>2, ConversationOf DEF Rows
  <2> QED
    BY <2>1, <2>2, <2>3, <2>4
<1>3. CASE t = "ends"
  <2>1. PICK i \in DOMAIN v : (n = 2 * i /\ v[i].src = r.key) \/ (n = 2 * i + 1 /\ v[i].dst = r.key)
    BY <1>3 DEF Seen
  <2>2. PICK j \in DOMAIN v : (n = 2 * j /\ v[j].src = s.key) \/ (n = 2 * j + 1 /\ v[j].dst = s.key)
    BY <1>3 DEF Seen
  <2>3. i = j /\ (n = 2 * i => n # 2 * j + 1) /\ (n = 2 * i + 1 => n # 2 * j)
    <3>1. i \in Nat /\ j \in Nat
      BY <1>1
    <3> QED
      BY <2>1, <2>2, <3>1
  <2>4. r.key = s.key
    BY <2>1, <2>2, <2>3
  <2>5. r = Endpoint(v, r.key) /\ s = Endpoint(v, s.key)
    BY <1>3, EndpointOf DEF Rows
  <2> QED
    BY <2>4, <2>5
<1> QED
  BY <1>2, <1>3 DEF Tables

LEMMA RowsInOrder ==
  ASSUME NEW v \in Seq(Arriving), NEW t \in Tables, NEW up \in BOOLEAN
  PROVE  StrictOrder(Rows(t, v), HashOrder(t, v, up))
<1> DEFINE S == Rows(t, v)
           f == [r \in S |-> Min(Seen(t, v, r))]
           R == HashOrder(t, v, up)
<1>1. \A r \in S : f[r] \in Nat
  BY SeenFirst
<1>2. ASSUME NEW r \in S, NEW s \in S, f[r] = f[s] PROVE r = s
  <2>1. f[r] \in Seen(t, v, r) /\ f[s] \in Seen(t, v, s)
    BY SeenFirst
  <2> HIDE DEF f
  <2> QED
    BY <1>2, <2>1, FirstDiffers
<1>3. \A r, s \in S : <<r, s>> \in R <=> IF up THEN f[r] < f[s] ELSE f[s] < f[r]
  BY DEF HashOrder
<1> HIDE DEF f, S, R
<1>4. \A x \in S : <<x, x>> \notin R
  BY <1>1, <1>3
<1>5. \A x, y \in S : x # y => <<x, y>> \in R \/ <<y, x>> \in R
  <2> SUFFICES ASSUME NEW x \in S, NEW y \in S, x # y PROVE <<x, y>> \in R \/ <<y, x>> \in R
    OBVIOUS
  <2>1. f[x] # f[y] /\ f[x] \in Nat /\ f[y] \in Nat
    BY <1>1, <1>2
  <2>2. f[x] < f[y] \/ f[y] < f[x]
    BY <2>1
  <2> QED
    BY <1>3, <2>2
<1>6. \A x, y, z \in S : <<x, y>> \in R /\ <<y, z>> \in R => <<x, z>> \in R
  <2> SUFFICES ASSUME NEW x \in S, NEW y \in S, NEW z \in S, <<x, y>> \in R, <<y, z>> \in R
               PROVE  <<x, z>> \in R
    OBVIOUS
  <2>1. f[x] \in Nat /\ f[y] \in Nat /\ f[z] \in Nat
    BY <1>1
  <2>2. IF up THEN f[x] < f[y] /\ f[y] < f[z] ELSE f[y] < f[x] /\ f[z] < f[y]
    BY <1>3
  <2>3. IF up THEN f[x] < f[z] ELSE f[z] < f[x]
    BY <2>1, <2>2
  <2> QED
    BY <1>3, <2>3
<1> QED
  BY <1>4, <1>5, <1>6 DEF StrictOrder, S, R

(* A table lists its rows, in the order of a column.                       *)
InOrder(t, s, by) ==
  \A m, n \in DOMAIN s : m < n =>
    IF by.ascending THEN Value(t, s[m], by.column) <= Value(t, s[n], by.column)
    ELSE Value(t, s[m], by.column) >= Value(t, s[n], by.column)

LEMMA SortedIs ==
  ASSUME NEW v \in Seq(Arriving), NEW t \in Tables, NEW s, Lists(s, Rows(t, v)),
         NEW by, by.column \in ColumnsOf(t), by.ascending \in BOOLEAN
  PROVE  Lists(Sorted(t, s, by), Rows(t, v)) /\ InOrder(t, Sorted(t, s, by), by)
<1> DEFINE S == Rows(t, v)
           value == [n \in DOMAIN s |-> Value(t, s[n], by.column)]
           up == by.ascending
           r == StableSort(s, value, up)
           places == Arranged(DOMAIN s, ValueOrder(value, up))
<1>1. \A n \in DOMAIN s : s[n] \in S
  BY DEF Lists
<1>2. \A n \in DOMAIN s : Value(t, s[n], by.column) \in Int
  BY <1>1, ValueInt
<1>3. value \in [DOMAIN s -> Int]
  BY <1>2
<1>4. \A n \in DOMAIN s : value[n] = Value(t, s[n], by.column)
  OBVIOUS
<1>5. Sorted(t, s, by) = r
  BY DEF Sorted
<1> HIDE DEF S, value, up, r
<1>6. /\ Lists(r, S) /\ DOMAIN r = DOMAIN s
      /\ \A n \in DOMAIN s : places[n] \in DOMAIN s /\ r[n] = s[places[n]]
      /\ OrderedBy(places, value, up) /\ DOMAIN places = DOMAIN s
  <2>1. Lists(s, S) /\ up \in BOOLEAN
    BY DEF S, up
  <2> QED
    BY <1>3, <2>1, StableSortIs DEF r
<1> HIDE DEF places
<1>7. \A n \in DOMAIN s : Value(t, r[n], by.column) = value[places[n]]
  BY <1>4, <1>6
<1>8. InOrder(t, r, by)
  BY <1>6, <1>7 DEF InOrder, OrderedBy, up
<1> QED
  BY <1>5, <1>6, <1>8 DEF S

LEMMA ComputeIs ==
  ASSUME NEW v \in Seq(Arriving), NEW t \in Tables, NEW up \in BOOLEAN
  PROVE  Lists(Compute(t, v, up), Rows(t, v))
<1> DEFINE s == Arranged(Rows(t, v), HashOrder(t, v, up))
           by == [column |-> "TotalPackets", ascending |-> FALSE]
<1>1. Lists(s, Rows(t, v))
  BY RowsFinite, RowsInOrder, ArrangedIs
<1>2. by.column \in ColumnsOf(t) /\ by.ascending \in BOOLEAN
  BY ColumnsAre DEF Tables
<1>3. Compute(t, v, up) = Sorted(t, s, by)
  BY DEF Compute
<1> HIDE DEF s, by
<1> QED
  BY <1>1, <1>2, <1>3, SortedIs

LEMMA ListedAll ==
  ASSUME NEW s, NEW S, Lists(s, S)
  PROVE  {s[n] : n \in DOMAIN s} = S /\ Len(s) = Cardinality(S)
<1>1. s \in Seq(S) /\ Len(s) = Cardinality(S) /\ DOMAIN s = 1..Cardinality(S)
  BY DEF Lists
<1> QED
  BY <1>1 DEF Lists

-----------------------------------------------------------------------------
(* Both directions of an exchange are of one conversation.                 *)
LEMMA BothDirectionsHold ==
  ASSUME packets \in Seq(Arriving)
  PROVE  BothDirections
<1> SUFFICES ASSUME NEW i \in DOMAIN packets
             PROVE  ConvKey(packets[i]) = ConvKey(Mirrored(packets[i]))
  BY DEF BothDirections
<1> DEFINE p == packets[i]
           m == Mirrored(p)
           rank == IF {p.src, p.dst} \subseteq DOMAIN Numeric THEN Numeric ELSE Text
<1>1. p \in Arriving
  BY InView
<1>2. /\ p \in [src : DOMAIN Text, dst : DOMAIN Text, srcPort : Int, dstPort : Int,
                proto : STRING, flags : Nat, bytes : Nat, ts : Int]
  BY <1>1, StatsAssumption
<1>3. /\ m.src = p.dst /\ m.dst = p.src /\ m.srcPort = p.dstPort /\ m.dstPort = p.srcPort
      /\ m.proto = p.proto
  BY <1>2 DEF Mirrored
<1>4. rank[p.src] \in Int /\ rank[p.dst] \in Int /\ (rank[p.src] = rank[p.dst] => p.src = p.dst)
  BY <1>2, AddressesDiffer
<1>5. /\ IsForward(p) <=> \/ rank[p.src] < rank[p.dst]
                          \/ rank[p.src] = rank[p.dst] /\ p.srcPort <= p.dstPort
      /\ IsForward(m) <=> \/ rank[p.dst] < rank[p.src]
                          \/ rank[p.dst] = rank[p.src] /\ p.dstPort <= p.srcPort
  <2>1. {p.dst, p.src} = {p.src, p.dst}
    OBVIOUS
  <2> HIDE DEF p, m
  <2> QED
    BY <1>3, <2>1 DEF IsForward, AddrIsLower
<1>6. p.srcPort \in Int /\ p.dstPort \in Int
  BY <1>2
<1> HIDE DEF p, m, rank
<1>7. \/ IsForward(p) /\ ~IsForward(m)
      \/ ~IsForward(p) /\ IsForward(m)
      \/ p.src = p.dst /\ p.srcPort = p.dstPort
  BY <1>4, <1>5, <1>6
<1>8. ConvKey(p) = ConvKey(m)
  BY <1>3, <1>7 DEF ConvKey
<1> QED
  BY <1>8 DEF p, m

-----------------------------------------------------------------------------
(* The I/O graph: every packet is in one bucket.                           *)
LEMMA BucketIs ==
  ASSUME NEW ts \in Int, NEW start \in Int, NEW end \in Int, start <= ts, NEW n \in Nat, n >= 1
  PROVE  Bucket(ts, start, end, n) \in 1..n
<1>1. CASE start >= end
  BY <1>1 DEF Bucket
<1>2. CASE ~(start >= end)
  <2> DEFINE past == ts - start
             span == end - start
             a == past * n
             x == a \div span + 1
             S == {x, n}
  <2>1. past \in Nat /\ span \in Nat \ {0}
    BY <1>2
  <2>2. (past * n) \in Nat
    <3> HIDE DEF past
    <3> QED
      BY <2>1
  <2>3. a \in Nat
    BY <2>2
  <2>4. (a \div span) \in Nat
    <3> HIDE DEF a, span
    <3> QED
      BY <2>1, <2>3
  <2>5. x \in Nat /\ x >= 1
    <3> HIDE DEF a, span
    <3> QED
      BY <2>4
  <2>6. Bucket(ts, start, end, n) = Min(S)
    BY <1>2 DEF Bucket
  <2> HIDE DEF x
  <2>7. S \in SUBSET Nat /\ S # {}
    BY <2>5
  <2> HIDE DEF S
  <2>8. Min(S) \in S /\ \A y \in S : Min(S) <= y
    BY <2>7, LeastOf
  <2>9. Min(S) \in {x, n} /\ Min(S) <= n
    BY <2>8 DEF S
  <2> QED
    BY <2>5, <2>6, <2>9
<1> QED
  BY <1>1, <1>2

InBucket(v, start, end, n) ==
  [b \in 1..n |-> {i \in DOMAIN v : Bucket(v[i].ts, start, end, n) = b}]

LEMMA BucketsCover ==
  ASSUME NEW v \in Seq(Arriving), NEW start \in Int, NEW end \in Int, NEW n \in Nat, n >= 1,
         \A i \in DOMAIN v : start <= v[i].ts
  PROVE  /\ Disjoint(InBucket(v, start, end, n), n)
         /\ Within(InBucket(v, start, end, n), n) = DOMAIN v
         /\ \A b \in 1..n : IsFiniteSet(InBucket(v, start, end, n)[b])
<1> DEFINE I == InBucket(v, start, end, n)
<1>1. \A b \in 1..n : I[b] = {i \in DOMAIN v : Bucket(v[i].ts, start, end, n) = b}
  BY DEF InBucket
<1>2. \A i \in DOMAIN v : Bucket(v[i].ts, start, end, n) \in 1..n
  BY InView, BucketIs
<1>3. IsFiniteSet(DOMAIN v)
  BY InView
<1> HIDE DEF I
<1>4. Disjoint(I, n)
  BY <1>1 DEF Disjoint
<1>5. Within(I, n) = DOMAIN v
  <2>1. \A b \in 1..n : I[b] \in SUBSET (DOMAIN v)
    BY <1>1
  <2>2. \A i \in DOMAIN v : \E b \in 1..n : i \in I[b]
    BY <1>1, <1>2
  <2>3. \A i \in DOMAIN v : i \in Within(I, n)
    BY <2>2 DEF Within
  <2>4. \A i \in Within(I, n) : i \in DOMAIN v
    BY <2>1 DEF Within
  <2> QED
    BY <2>3, <2>4
<1>6. \A b \in 1..n : IsFiniteSet(I[b])
  <2> SUFFICES ASSUME NEW b \in 1..n PROVE IsFiniteSet(I[b])
    OBVIOUS
  <2>1. I[b] \in SUBSET (DOMAIN v)
    BY <1>1
  <2> QED
    BY <1>3, <2>1, FS_Subset
<1> QED
  BY <1>4, <1>5, <1>6 DEF I

LEMMA GraphConservesHolds ==
  ASSUME packets \in Seq(Arriving)
  PROVE  GraphConserves
<1> SUFFICES ASSUME NEW n \in MinBuckets..MaxBuckets
             PROVE  /\ SumTo(IoGraph(packets, n).packets, n) = Len(packets)
                    /\ SumTo(IoGraph(packets, n).bytes, n) = Bytes(packets, DOMAIN packets)
  BY DEF GraphConserves
<1> DEFINE v == packets
           start == IF v = <<>> THEN 0 ELSE Min(Times(v, DOMAIN v))
           end == IF v = <<>> THEN 0 ELSE Max(Times(v, DOMAIN v))
           I == InBucket(v, start, end, n)
<1>1. n \in Nat /\ n >= 1
  BY StatsAssumption
<1>2. v # <<>> => DOMAIN v # {}
  BY EmptySeq, InView
<1>3. start \in Int /\ end \in Int /\ \A i \in DOMAIN v : start <= v[i].ts
  <2>1. CASE v = <<>>
    BY <2>1
  <2>2. CASE v # <<>>
    BY <1>2, <2>2, TimesRange
  <2> QED
    BY <2>1, <2>2
<1>4. /\ IoGraph(v, n).packets = [b \in 1..n |-> Total(I[b])]
      /\ IoGraph(v, n).bytes = [b \in 1..n |-> Bytes(v, I[b])]
  <2> HIDE DEF v
  <2> QED
    BY DEF IoGraph, InBucket
<1> HIDE DEF v, start, end
<1>5. Disjoint(I, n) /\ Within(I, n) = DOMAIN v /\ \A b \in 1..n : IsFiniteSet(I[b])
  <2>1. v \in Seq(Arriving)
    BY DEF v
  <2> QED
    BY <1>1, <1>3, <2>1, BucketsCover
<1> HIDE DEF I
<1>6. SumTo([b \in 1..n |-> Total(I[b])], n) = Total(DOMAIN v)
  BY <1>1, <1>5, TotalOfUnion
<1>7. SumTo([b \in 1..n |-> Bytes(v, I[b])], n) = Bytes(v, DOMAIN v)
  BY <1>1, <1>5, BytesOfUnion DEF v
<1>8. Total(DOMAIN v) = Len(v)
  BY InView DEF Total, v
<1> QED
  BY <1>4, <1>6, <1>7, <1>8 DEF v

-----------------------------------------------------------------------------
(* The two tables agree.  What the conversations count for a side of theirs*)
(* in one direction is what the packets P of that direction carry, of which*)
(* who[i] is on that side.                                                 *)
WayIs(v, convs, way, P) ==
  \A n \in DOMAIN convs : convs[n][way] = Bytes(v, {i \in P : ConvKey(v[i]) = convs[n].key})
OnSide(v, side, P, who) == \A i \in P : ConvKey(v[i])[side][1] = who[i]
Of(P, who, addr) == {i \in P : who[i] = addr}

LEMMA SideIs ==
  ASSUME NEW v \in Seq(Arriving), NEW convs, Lists(convs, Conversations(v)),
         NEW side, NEW way, NEW addr, NEW P \in SUBSET (DOMAIN v), NEW who,
         WayIs(v, convs, way, P), OnSide(v, side, P, who)
  PROVE  SideBytes(convs, side, addr, way) = Bytes(v, Of(P, who, addr))
<1> DEFINE k == Cardinality(Conversations(v))
           Q == {i \in P : who[i] = addr}
           I == [n \in 1..k |-> {i \in Q : ConvKey(v[i]) = convs[n].key}]
           f == [n \in DOMAIN convs |-> IF convs[n].key[side][1] = addr THEN convs[n][way] ELSE 0]
           g == [n \in 1..k |-> Bytes(v, I[n])]
<1>1. k \in Nat /\ DOMAIN convs = 1..k /\ Len(convs) = k
  BY ListedAll DEF Lists
<1>2. \A n \in 1..k : convs[n] \in Conversations(v)
  BY DEF Lists
<1>3. \A n \in 1..k : f[n] = g[n]
  <2> SUFFICES ASSUME NEW n \in 1..k PROVE f[n] = g[n]
    OBVIOUS
  <2>1. CASE convs[n].key[side][1] = addr
    <3>1. I[n] = {i \in P : ConvKey(v[i]) = convs[n].key}
      BY <2>1 DEF OnSide
    <3> QED
      BY <1>1, <2>1, <3>1 DEF WayIs
  <2>2. CASE convs[n].key[side][1] # addr
    <3>1. I[n] = {}
      BY <2>2 DEF OnSide
    <3> QED
      BY <1>1, <2>2, <3>1, BytesOfNone
  <2> QED
    BY <2>1, <2>2
<1>4. SideBytes(convs, side, addr, way) = SumTo(f, k)
  BY <1>1 DEF SideBytes
<1> HIDE DEF f, g
<1>5. SumTo(f, k) = SumTo(g, k)
  BY <1>1, <1>3, SumToSame
<1>6. Disjoint(I, k)
  <2> SUFFICES ASSUME NEW m \in 1..k, NEW n \in 1..k, m # n PROVE I[m] \cap I[n] = {}
    BY DEF Disjoint
  <2>1. convs[m].key # convs[n].key
    <3>1. convs[m] # convs[n]
      BY DEF Lists
    <3>2. convs[m] = Conversation(v, convs[m].key) /\ convs[n] = Conversation(v, convs[n].key)
      BY <1>2, ConversationOf
    <3> QED
      BY <3>1, <3>2
  <2> QED
    BY <2>1
<1>7. Within(I, k) = Q
  <2>1. ASSUME NEW i \in Q PROVE \E n \in 1..k : i \in I[n]
    <3>1. Conversation(v, ConvKey(v[i])) \in Conversations(v)
      BY DEF Conversations
    <3>2. PICK n \in 1..k : convs[n] = Conversation(v, ConvKey(v[i]))
      BY <3>1 DEF Lists
    <3>3. convs[n].key = ConvKey(v[i])
      BY <3>2 DEF Conversation
    <3> QED
      BY <3>3
  <2>2. \A n \in 1..k : I[n] \in SUBSET Q
    OBVIOUS
  <2> HIDE DEF I, Q
  <2>3. \A i \in Q : i \in Within(I, k)
    BY <2>1 DEF Within
  <2>4. \A i \in Within(I, k) : i \in Q
    BY <2>2 DEF Within
  <2> QED
    BY <2>3, <2>4
<1> HIDE DEF I, Q
<1>8. SumTo(g, k) = Bytes(v, Q)
  <2>1. SumTo([n \in 1..k |-> Bytes(v, I[n])], k) = Bytes(v, Within(I, k))
    BY <1>1, <1>6, BytesOfUnion
  <2> QED
    BY <1>7, <2>1 DEF g
<1> QED
  BY <1>4, <1>5, <1>8 DEF Q, Of

Forward(v) == {i \in DOMAIN v : IsForward(v[i])}
Backward(v) == {i \in DOMAIN v : ~IsForward(v[i])}

LEMMA ConversationSides ==
  ASSUME NEW v \in Seq(Arriving), NEW r \in Conversations(v)
  PROVE  /\ r["bytesAtoB"] = Bytes(v, {i \in Forward(v) : ConvKey(v[i]) = r.key})
         /\ r["bytesBtoA"] = Bytes(v, {i \in Backward(v) : ConvKey(v[i]) = r.key})
<1> DEFINE its == {i \in DOMAIN v : ConvKey(v[i]) = r.key}
           forward == {i \in its : IsForward(v[i])}
           back == its \ forward
<1>1. r = Conversation(v, r.key)
  BY ConversationOf
<1>2. r["bytesAtoB"] = Bytes(v, forward) /\ r["bytesBtoA"] = Bytes(v, back)
  BY <1>1 DEF Conversation
<1>3. /\ forward = {i \in Forward(v) : ConvKey(v[i]) = r.key}
      /\ back = {i \in Backward(v) : ConvKey(v[i]) = r.key}
  BY DEF Forward, Backward
<1> HIDE DEF forward, back
<1> QED
  BY <1>2, <1>3

LEMMA TablesAgreeHolds ==
  ASSUME packets \in Seq(Arriving)
  PROVE  TablesAgree
<1> SUFFICES ASSUME NEW up \in BOOLEAN, NEW e \in Endpoints(packets)
             PROVE  LET convs == Compute("conv", packets, up) IN
                    /\ e.txBytes = SideBytes(convs, "a", e.key, "bytesAtoB") + SideBytes(convs, "b", e.key, "bytesBtoA")
                    /\ e.rxBytes = SideBytes(convs, "a", e.key, "bytesBtoA") + SideBytes(convs, "b", e.key, "bytesAtoB")
  BY DEF TablesAgree
<1> DEFINE v == packets
           convs == Compute("conv", v, up)
           addr == e.key
           F == Forward(v)
           B == Backward(v)
           from == [i \in DOMAIN v |-> v[i].src]
           to == [i \in DOMAIN v |-> v[i].dst]
           tx == {i \in DOMAIN v : v[i].src = addr /\ v[i].bytes > 0}
           rx == {i \in DOMAIN v : v[i].dst = addr /\ v[i].bytes > 0}
           fromF == Of(F, from, addr)
           fromB == Of(B, from, addr)
           toF == Of(F, to, addr)
           toB == Of(B, to, addr)
<1>1. Lists(convs, Conversations(v))
  BY ComputeIs DEF Tables, Rows
<1>2. \A n \in DOMAIN convs : convs[n] \in Conversations(v)
  BY <1>1 DEF Lists
<1>3. \A n \in DOMAIN convs :
        /\ convs[n]["bytesAtoB"] = Bytes(v, {i \in F : ConvKey(v[i]) = convs[n].key})
        /\ convs[n]["bytesBtoA"] = Bytes(v, {i \in B : ConvKey(v[i]) = convs[n].key})
  BY <1>2, ConversationSides
<1>4. /\ F \in SUBSET (DOMAIN v) /\ B \in SUBSET (DOMAIN v)
      /\ \A i \in F : ConvKey(v[i])["a"][1] = from[i] /\ ConvKey(v[i])["b"][1] = to[i]
      /\ \A i \in B : ConvKey(v[i])["a"][1] = to[i] /\ ConvKey(v[i])["b"][1] = from[i]
  BY DEF Forward, Backward, ConvKey
<1>40. /\ WayIs(v, convs, "bytesAtoB", F) /\ WayIs(v, convs, "bytesBtoA", B)
       /\ OnSide(v, "a", F, from) /\ OnSide(v, "b", B, from)
       /\ OnSide(v, "a", B, to) /\ OnSide(v, "b", F, to)
  BY <1>3, <1>4 DEF WayIs, OnSide
<1>5. e.txBytes = Bytes(v, tx) /\ e.rxBytes = Bytes(v, rx)
  <2>1. e = Endpoint(v, addr)
    BY EndpointOf
  <2> QED
    BY <2>1 DEF Endpoint
<1>6. /\ \A i \in DOMAIN v : v[i].bytes > 0 => (i \in tx <=> i \in fromF \cup fromB)
      /\ \A i \in DOMAIN v : v[i].bytes > 0 => (i \in rx <=> i \in toF \cup toB)
      /\ fromF \cap fromB = {} /\ toF \cap toB = {}
  BY DEF Forward, Backward, Of
<1>7. v \in Seq(Arriving)
  OBVIOUS
<1> HIDE DEF v, convs, F, B, from, to, tx, rx, addr
<1>8. /\ SideBytes(convs, "a", addr, "bytesAtoB") = Bytes(v, fromF)
      /\ SideBytes(convs, "b", addr, "bytesBtoA") = Bytes(v, fromB)
      /\ SideBytes(convs, "a", addr, "bytesBtoA") = Bytes(v, toB)
      /\ SideBytes(convs, "b", addr, "bytesAtoB") = Bytes(v, toF)
  BY <1>1, <1>4, <1>40, <1>7, SideIs
<1> HIDE DEF fromF, fromB, toF, toB
<1>9. Bytes(v, tx) = Bytes(v, fromF) + Bytes(v, fromB) /\ Bytes(v, rx) = Bytes(v, toF) + Bytes(v, toB)
  <2> DEFINE sent == fromF \cup fromB
             got == toF \cup toB
  <2>1. Bytes(v, sent) = Bytes(v, fromF) + Bytes(v, fromB) /\ Bytes(v, got) = Bytes(v, toF) + Bytes(v, toB)
    BY <1>6, <1>7, BytesJoin
  <2>2. /\ \A i \in DOMAIN v : v[i].bytes > 0 => (i \in tx <=> i \in sent)
        /\ \A i \in DOMAIN v : v[i].bytes > 0 => (i \in rx <=> i \in got)
    BY <1>6
  <2> HIDE DEF sent, got
  <2>3. Bytes(v, tx) = Bytes(v, sent)
    BY <1>7, <2>2, BytesOfSome
  <2>4. Bytes(v, rx) = Bytes(v, got)
    BY <1>7, <2>2, BytesOfSome
  <2> QED
    BY <2>1, <2>3, <2>4
<1>10. Bytes(v, toF) \in Nat /\ Bytes(v, toB) \in Nat
  BY <1>7, BytesNat
<1> QED
  BY <1>5, <1>8, <1>9, <1>10 DEF convs, addr, v

-----------------------------------------------------------------------------
(* The protocol hierarchy.  Each layer of a packet is a child of the one   *)
(* above it.                                                               *)
Protos == KnownProtos \cup {p.proto : p \in Arriving}

LayersFit(l) ==
  /\ Len(l) \in 1..4 /\ l \in Seq(Protos)
  /\ \A k \in 1..3 : k < Len(l) => IsChildOf(l[k + 1], l[k])

LEMMA FitOne ==
  ASSUME NEW a \in Protos
  PROVE  LayersFit(<<a>>)
<1> DEFINE l == <<a>>
<1>1. Len(l) = 1 /\ l \in Seq(Protos)
  OBVIOUS
<1> HIDE DEF l
<1>4. LayersFit(l)
  BY <1>1 DEF LayersFit
<1> QED
  BY <1>4 DEF l

LEMMA FitTwo ==
  ASSUME NEW a \in Protos, NEW b \in Protos, IsChildOf(b, a)
  PROVE  LayersFit(<<a, b>>)
<1> DEFINE l == <<a, b>>
<1>1. Len(l) = 2 /\ l \in Seq(Protos) /\ l[1] = a /\ l[2] = b
  OBVIOUS
<1> HIDE DEF l
<1>2. \A k \in 1..3 : k < Len(l) => k = 1
  BY <1>1
<1>3. IsChildOf(l[2], l[1])
  BY <1>1
<1>4. LayersFit(l)
  BY <1>1, <1>2, <1>3 DEF LayersFit
<1> QED
  BY <1>4 DEF l

LEMMA FitThree ==
  ASSUME NEW a \in Protos, NEW b \in Protos, NEW c \in Protos, IsChildOf(b, a), IsChildOf(c, b)
  PROVE  LayersFit(<<a, b, c>>)
<1> DEFINE l == <<a, b, c>>
<1>1. Len(l) = 3 /\ l \in Seq(Protos) /\ l[1] = a /\ l[2] = b /\ l[3] = c
  OBVIOUS
<1> HIDE DEF l
<1>2. \A k \in 1..3 : k < Len(l) => k \in 1..2
  BY <1>1
<1>3. IsChildOf(l[2], l[1]) /\ IsChildOf(l[3], l[2])
  BY <1>1
<1>4. LayersFit(l)
  BY <1>1, <1>2, <1>3 DEF LayersFit
<1> QED
  BY <1>4 DEF l

LEMMA FitFour ==
  ASSUME NEW a \in Protos, NEW b \in Protos, NEW c \in Protos, NEW d \in Protos,
         IsChildOf(b, a), IsChildOf(c, b), IsChildOf(d, c)
  PROVE  LayersFit(<<a, b, c, d>>)
<1> DEFINE l == <<a, b, c, d>>
<1>1. Len(l) = 4 /\ l \in Seq(Protos) /\ l[1] = a /\ l[2] = b /\ l[3] = c /\ l[4] = d
  OBVIOUS
<1> HIDE DEF l
<1>3. IsChildOf(l[2], l[1]) /\ IsChildOf(l[3], l[2]) /\ IsChildOf(l[4], l[3])
  BY <1>1
<1>4. LayersFit(l)
  BY <1>1, <1>3 DEF LayersFit
<1> QED
  BY <1>4 DEF l

LEMMA LayersAre ==
  ASSUME NEW p \in Arriving
  PROVE  LayersFit(Layers(p))
<1> DEFINE q == p.proto
           net == Network(p)
           over == IF p.flags # 0 THEN "TCP" ELSE "UDP"
<1>1. net \in {"IPv4", "IPv6"} /\ over \in {"TCP", "UDP"}
  BY DEF Network
<1>2. Layers(p) =
        CASE q \in TcpApps -> <<"Ethernet", net, "TCP", q>>
          [] q \in UdpApps -> <<"Ethernet", net, "UDP", q>>
          [] q = "DNS" -> <<"Ethernet", net, over, q>>
          [] q \in {"TCP", "UDP"} -> <<"Ethernet", net, q>>
          [] q = "ICMP" -> <<"Ethernet", "IPv4", q>>
          [] q = "ICMPv6" -> <<"Ethernet", "IPv6", q>>
          [] q = "Ethernet" -> <<q>>
          [] q \in {"PFLOG", "ENC"} -> <<q, net>>
          [] OTHER -> <<"Ethernet", q>>
  BY DEF Layers
<1>4. /\ {"Ethernet", "IPv4", "IPv6", "TCP", "UDP", "ICMP", "ICMPv6"} \subseteq Protos
      /\ q \in Protos /\ net \in Protos
  BY DEF Protos, KnownProtos, Network
<1> HIDE DEF q, net, over
<1>3. /\ \A a \in {"Ethernet", "PFLOG", "ENC"} : IsChildOf(net, a)
      /\ \A a \in {"IPv4", "IPv6"}, b \in {"TCP", "UDP"} : IsChildOf(b, a)
      /\ IsChildOf("ICMP", "IPv4") /\ IsChildOf("ICMPv6", "IPv6")
      /\ IsChildOf("IPv4", "Ethernet") /\ IsChildOf("IPv6", "Ethernet")
  BY <1>1 DEF IsChildOf
<1>5. CASE q \in TcpApps \cup UdpApps \cup {"DNS"}
  <2>1. \E b \in {"TCP", "UDP"} : Layers(p) = <<"Ethernet", net, b, q>> /\ IsChildOf(q, b)
    <3>1. /\ q \in TcpApps => q \notin UdpApps /\ q # "DNS"
          /\ q \in UdpApps => q \notin TcpApps /\ q # "DNS"
          /\ q = "DNS" => q \notin TcpApps /\ q \notin UdpApps
          /\ q \in TcpApps \cup UdpApps =>
               q \notin {"TCP", "UDP", "ICMP", "ICMPv6", "Ethernet", "PFLOG", "ENC"}
      BY DEF TcpApps, UdpApps
    <3>2. CASE q \in TcpApps
      <4>1. Layers(p) = <<"Ethernet", net, "TCP", q>>
        BY <1>2, <3>1, <3>2
      <4>2. IsChildOf(q, "TCP")
        BY <3>2 DEF IsChildOf
      <4> QED
        BY <4>1, <4>2
    <3>3. CASE q \in UdpApps
      <4>1. Layers(p) = <<"Ethernet", net, "UDP", q>>
        BY <1>2, <3>1, <3>3
      <4>2. IsChildOf(q, "UDP")
        BY <3>3 DEF IsChildOf
      <4> QED
        BY <4>1, <4>2
    <3>4. CASE q = "DNS"
      <4>1. Layers(p) = <<"Ethernet", net, over, q>>
        BY <1>2, <3>1, <3>4
      <4>2. IsChildOf(q, over)
        BY <1>1, <3>4 DEF IsChildOf
      <4> QED
        BY <1>1, <4>1, <4>2
    <3> QED
      BY <1>5, <3>2, <3>3, <3>4
  <2>2. PICK b \in {"TCP", "UDP"} : Layers(p) = <<"Ethernet", net, b, q>> /\ IsChildOf(q, b)
    BY <2>1
  <2>3. IsChildOf(net, "Ethernet") /\ IsChildOf(b, net)
    BY <1>1, <1>3
  <2> QED
    BY <1>4, <2>2, <2>3, FitFour
<1>6. CASE q \notin TcpApps \cup UdpApps \cup {"DNS"}
  <2>1. Layers(p) =
        CASE q \in {"TCP", "UDP"} -> <<"Ethernet", net, q>>
          [] q = "ICMP" -> <<"Ethernet", "IPv4", q>>
          [] q = "ICMPv6" -> <<"Ethernet", "IPv6", q>>
          [] q = "Ethernet" -> <<q>>
          [] q \in {"PFLOG", "ENC"} -> <<q, net>>
          [] OTHER -> <<"Ethernet", q>>
    BY <1>2, <1>6
  <2>2. CASE q \in {"TCP", "UDP"}
    <3>1. Layers(p) = <<"Ethernet", net, q>>
      BY <2>1, <2>2
    <3>2. IsChildOf(net, "Ethernet") /\ IsChildOf(q, net)
      BY <1>1, <1>3, <2>2
    <3> QED
      BY <1>4, <3>1, <3>2, FitThree
  <2>3. CASE q = "ICMP"
    <3>1. Layers(p) = <<"Ethernet", "IPv4", "ICMP">>
      BY <2>1, <2>3
    <3> QED
      BY <1>4, <1>3, <3>1, FitThree
  <2>4. CASE q = "ICMPv6"
    <3>1. Layers(p) = <<"Ethernet", "IPv6", "ICMPv6">>
      BY <2>1, <2>4
    <3> QED
      BY <1>4, <1>3, <3>1, FitThree
  <2>5. CASE q = "Ethernet"
    <3>1. Layers(p) = <<q>>
      BY <2>1, <2>5
    <3> QED
      BY <1>4, <3>1, FitOne
  <2>6. CASE q \in {"PFLOG", "ENC"}
    <3>1. Layers(p) = <<q, net>>
      BY <2>1, <2>6
    <3>2. IsChildOf(net, q)
      BY <1>3, <2>6
    <3> QED
      BY <1>4, <3>1, <3>2, FitTwo
  <2>7. CASE q \notin {"TCP", "UDP", "ICMP", "ICMPv6", "Ethernet", "PFLOG", "ENC"}
    <3>1. Layers(p) = <<"Ethernet", q>>
      BY <2>1, <2>7
    <3>2. IsChildOf(q, "Ethernet")
      BY <1>6, <2>7 DEF IsChildOf, KnownProtos
    <3> QED
      BY <1>4, <3>1, <3>2, FitTwo
  <2> QED
    BY <2>2, <2>3, <2>4, <2>5, <2>6, <2>7
<1> QED
  BY <1>5, <1>6

Prefix(l, k) == SubSeq(l, 1, k)

LEMMA DepthIs ==
  ASSUME NEW n \in 1..4, NEW d \in Nat, d >= 1
  PROVE  (d < n => d \in 1..3 /\ d \in 1..n /\ d + 1 <= n) /\ (d <= n => d \in 1..4)
OBVIOUS

LEMMA FirstOf ==
  ASSUME NEW T, NEW l \in Seq(T), Len(l) >= 1
  PROVE  <<l[1]>> = SubSeq(l, 1, 1)
OBVIOUS

LEMMA PrefixIs ==
  ASSUME NEW l, LayersFit(l), NEW k \in 1..Len(l)
  PROVE  /\ Len(Prefix(l, k)) = k /\ Prefix(l, k)[k] = l[k] /\ Prefix(l, 1) = <<l[1]>>
         /\ k < Len(l) => Prefix(l, k + 1) = Append(Prefix(l, k), l[k + 1])
<1>1. l \in Seq(Protos)
  BY DEF LayersFit
<1>2. Len(l) \in Nat /\ Len(l) >= 1
  BY DEF LayersFit
<1>3. Len(SubSeq(l, 1, k)) = k /\ SubSeq(l, 1, k)[k] = l[k]
  BY <1>1, <1>2
<1>4. SubSeq(l, 1, 1) = <<l[1]>>
  BY <1>1, <1>2, FirstOf
<1>5. k < Len(l) => SubSeq(l, 1, k + 1) = Append(SubSeq(l, 1, k), l[k + 1])
  BY <1>1, <1>2
<1> QED
  BY <1>3, <1>4, <1>5 DEF Prefix

LEMMA StepBelow ==
  ASSUME NEW v, NEW paths, NEW d \in Nat, NEW i \in DOMAIN v, d < Len(Layers(v[i])), d >= 1,
         LayersFit(Layers(v[i])), Prefix(Layers(v[i]), d) \in paths
  PROVE  Prefix(Layers(v[i]), d + 1) \in Below(v, paths, d + 1)
<1> DEFINE l == Layers(v[i])
           path == Prefix(l, d)
           q == l[d + 1]
<1>1. Len(l) \in 1..4 /\ d \in 1..3 /\ d \in 1..Len(l) /\ d + 1 <= Len(l)
  <2>1. Len(l) \in 1..4 /\ d < Len(l)
    BY DEF LayersFit
  <2> HIDE DEF l
  <2> QED
    BY <2>1, DepthIs
<1>2. Len(path) = d /\ path[d] = l[d] /\ Prefix(l, d + 1) = Append(path, q)
  BY <1>1, PrefixIs
<1>3. IsChildOf(q, l[d])
  BY <1>1 DEF LayersFit
<1>4. q \in Level(v, d + 1)
  BY <1>1 DEF Level
<1> HIDE DEF l, path, q
<1>5. <<path, q>> \in {y \in paths \X Level(v, d + 1) : IsChildOf(y[2], y[1][Len(y[1])])}
  BY <1>2, <1>3, <1>4 DEF path, l
<1>6. Append(path, q) \in Below(v, paths, d + 1)
  BY <1>5 DEF Below
<1> QED
  BY <1>2, <1>6 DEF l

LEMMA PrefixesIn ==
  ASSUME NEW v \in Seq(Arriving), NEW i \in DOMAIN v, NEW k \in 1..Len(Layers(v[i]))
  PROVE  Prefix(Layers(v[i]), k) \in ProtoPaths(v)
<1> DEFINE l == Layers(v[i])
           one == {<<q>> : q \in Level(v, 1)}
           two == Below(v, one, 2)
           three == Below(v, two, 3)
           four == Below(v, three, 4)
<1>1. LayersFit(l) /\ Len(l) \in 1..4
  BY InView, LayersAre DEF LayersFit
<1>2. Prefix(l, 1) \in one
  <2>1. l[1] \in Level(v, 1)
    BY <1>1 DEF Level
  <2>2. Prefix(l, 1) = <<l[1]>>
    BY <1>1, PrefixIs
  <2> QED
    BY <2>1, <2>2
<1>3. ProtoPaths(v) = one \cup two \cup three \cup four
  BY DEF ProtoPaths
<1> HIDE DEF one
<1>4. ASSUME Len(l) >= 2 PROVE Prefix(l, 2) \in two
  <2> DEFINE d == 1
  <2>1. d \in Nat /\ d >= 1 /\ d < Len(l) /\ Prefix(l, d) \in one
    BY <1>1, <1>2, <1>4
  <2> HIDE DEF d
  <2>2. Prefix(l, d + 1) \in Below(v, one, d + 1)
    BY <1>1, <2>1, StepBelow
  <2>3. d + 1 = 2
    BY DEF d
  <2> QED
    BY <2>2, <2>3
<1> HIDE DEF two
<1>5. ASSUME Len(l) >= 3 PROVE Prefix(l, 3) \in three
  <2> DEFINE d == 2
  <2>1. d \in Nat /\ d >= 1 /\ d < Len(l) /\ Prefix(l, d) \in two
    BY <1>1, <1>4, <1>5
  <2> HIDE DEF d
  <2>2. Prefix(l, d + 1) \in Below(v, two, d + 1)
    BY <1>1, <2>1, StepBelow
  <2>3. d + 1 = 3
    BY DEF d
  <2> QED
    BY <2>2, <2>3
<1> HIDE DEF three
<1>6. ASSUME Len(l) >= 4 PROVE Prefix(l, 4) \in four
  <2> DEFINE d == 3
  <2>1. d \in Nat /\ d >= 1 /\ d < Len(l) /\ Prefix(l, d) \in three
    BY <1>1, <1>5, <1>6
  <2> HIDE DEF d
  <2>2. Prefix(l, d + 1) \in Below(v, three, d + 1)
    BY <1>1, <2>1, StepBelow
  <2>3. d + 1 = 4
    BY DEF d
  <2> QED
    BY <2>2, <2>3
<1> HIDE DEF four, l
<1>7. k \in 1..Len(l) /\ k \in 1..4
  <2>1. k \in 1..Len(l)
    BY DEF l
  <2>2. k \in Nat /\ k >= 1 /\ k <= Len(l)
    BY <1>1, <2>1
  <2> QED
    BY <1>1, <2>1, <2>2, DepthIs
<1>8. Prefix(l, k) \in one \cup two \cup three \cup four
  <2>1. CASE k = 1
    BY <1>2, <2>1
  <2>2. CASE k = 2
    BY <1>1, <1>4, <1>7, <2>2
  <2>3. CASE k = 3
    BY <1>1, <1>5, <1>7, <2>3
  <2>4. CASE k = 4
    BY <1>1, <1>6, <1>7, <2>4
  <2> QED
    BY <1>7, <2>1, <2>2, <2>3, <2>4
<1> QED
  BY <1>3, <1>8 DEF l

LEMMA NoLayerLostHolds ==
  ASSUME packets \in Seq(Arriving)
  PROVE  NoLayerLost
<1> DEFINE v == packets
<1> SUFFICES ASSUME NEW i \in DOMAIN v, NEW k \in 1..Len(Layers(v[i]))
             PROVE  \E node \in ProtoNodes(v) :
                      /\ node.path = SubSeq(Layers(v[i]), 1, k)
                      /\ node.packets >= Cardinality({j \in DOMAIN v : IsPrefix(node.path, Layers(v[j]))})
  BY DEF NoLayerLost
<1> DEFINE l == Layers(v[i])
           path == Prefix(l, k)
           node == ProtoNode(v, path)
           counted == Counted(v, k, l[k])
           its == {j \in DOMAIN v : IsPrefix(path, Layers(v[j]))}
<1>0. v \in Seq(Arriving)
  OBVIOUS
<1> HIDE DEF v
<1>1. LayersFit(l) /\ Len(l) \in 1..4 /\ k \in 1..Len(l)
  BY <1>0, InView, LayersAre DEF LayersFit
<1>2. Len(path) = k /\ path[k] = l[k]
  BY <1>1, PrefixIs
<1>3. path \in ProtoPaths(v)
  BY <1>0, PrefixesIn
<1>4. node \in ProtoNodes(v)
  BY <1>3 DEF ProtoNodes
<1>5. node.path = path /\ node.packets = Total(counted)
  BY <1>2 DEF ProtoNode
<1> HIDE DEF l, path, node
<1>6. its \in SUBSET counted
  <2> SUFFICES ASSUME NEW j \in DOMAIN v, IsPrefix(path, Layers(v[j]))
               PROVE  j \in counted
    OBVIOUS
  <2> DEFINE m == Layers(v[j])
  <2>1. LayersFit(m) /\ Len(m) \in 1..4
    BY <1>0, InView, LayersAre DEF LayersFit
  <2>2. k <= Len(m) /\ SubSeq(path, 1, k) = Prefix(m, k)
    BY <1>2 DEF IsPrefix, Prefix
  <2>3. k \in 1..Len(m) /\ k \in Nat /\ k >= 1
    BY <1>1, <2>1, <2>2
  <2>4. Prefix(m, k)[k] = m[k]
    BY <2>1, <2>3, PrefixIs
  <2>5. SubSeq(path, 1, k)[k] = path[k]
    <3>1. l \in Seq(Protos)
      BY <1>1 DEF LayersFit
    <3>2. path \in Seq(Protos)
      BY <1>1, <3>1 DEF path, Prefix
    <3> QED
      BY <1>2, <2>3, <3>2
  <2>6. m[k] = l[k]
    BY <1>2, <2>2, <2>4, <2>5
  <2> HIDE DEF m
  <2> QED
    BY <2>2, <2>6 DEF Counted, m
<1>7. IsFiniteSet(counted) /\ Total(counted) \in Nat
  <2>1. counted \in SUBSET (DOMAIN v)
    BY DEF Counted
  <2> HIDE DEF counted
  <2> QED
    BY <1>0, <2>1, TotalNat
<1> HIDE DEF counted, its
<1>8. Cardinality(its) \in Nat /\ Cardinality(its) <= Cardinality(counted)
  <2>1. IsFiniteSet(its) /\ Cardinality(its) <= Cardinality(counted)
    BY <1>6, <1>7, FS_Subset
  <2> QED
    BY <2>1, FS_CardinalityType
<1>9. node.packets >= Cardinality(its)
  BY <1>5, <1>7, <1>8 DEF Total
<1> QED
  BY <1>4, <1>5, <1>9 DEF its, path, l, Prefix, v

-----------------------------------------------------------------------------
(* The paths of the hierarchy: as long as the layers of a packet, and each *)
(* with all that lead to it.                                               *)
LEMMA PrefixFields ==
  ASSUME NEW P, NEW m \in Seq(P), NEW k \in Nat, k <= Len(m)
  PROVE  Prefix(m, k) \in Seq(P) /\ Len(Prefix(m, k)) = k /\ \A j \in 1..k : Prefix(m, k)[j] = m[j]
BY DEF Prefix

LEMMA PrefixSame ==
  ASSUME NEW P, NEW m \in Seq(P), NEW n \in Seq(P), NEW k \in Nat, k <= Len(m), k <= Len(n),
         \A j \in 1..k : m[j] = n[j]
  PROVE  Prefix(m, k) = Prefix(n, k)
BY DEF Prefix

LEMMA PrefixTwice ==
  ASSUME NEW P, NEW m \in Seq(P), NEW j \in 1..Len(m), NEW k \in 1..j
  PROVE  Prefix(Prefix(m, j), k) = Prefix(m, k)
BY DEF Prefix

LEMMA PrefixWhole ==
  ASSUME NEW P, NEW m \in Seq(P)
  PROVE  m = Prefix(m, Len(m))
BY DEF Prefix

LEMMA PrefixAppend ==
  ASSUME NEW P, NEW m \in Seq(P), NEW q \in P
  PROVE  /\ Append(m, q) \in Seq(P) /\ Len(Append(m, q)) = Len(m) + 1
         /\ m = Prefix(Append(m, q), Len(m))
BY DEF Prefix

LEMMA LevelIs ==
  ASSUME NEW v \in Seq(Arriving), NEW d \in 1..4
  PROVE  Level(v, d) \in SUBSET Protos /\ IsFiniteSet(Level(v, d))
<1> DEFINE D == DOMAIN v
           f == [i \in D |-> Layers(v[i])[d]]
           S == Level(v, d)
<1>1. IsFiniteSet(D)
  BY InView
<1>2. \A q \in S : \E i \in D : d <= Len(Layers(v[i])) /\ f[i] = q
  BY DEF Level
<1>3. \A i \in D : LayersFit(Layers(v[i]))
  BY InView, LayersAre
<1>4. ASSUME NEW i \in D, d <= Len(Layers(v[i])) PROVE f[i] \in Protos
  <2> DEFINE l == Layers(v[i])
  <2>1. l \in Seq(Protos) /\ Len(l) \in 1..4
    BY <1>3 DEF LayersFit
  <2> HIDE DEF l
  <2>2. l[d] \in Protos
    BY <1>4, <2>1 DEF l
  <2> QED
    BY <2>2 DEF l
<1> HIDE DEF D, f, S
<1>5. IsFiniteSet(S)
  BY <1>1, <1>2, ImageFinite
<1> QED
  BY <1>2, <1>4, <1>5 DEF S

PathsOf(S, d) == \A m \in S : m \in Seq(Protos) /\ Len(m) = d
ClosedIn(S, paths) == \A m \in S : \A k \in 1..Len(m) : Prefix(m, k) \in paths

LEMMA BelowIs ==
  ASSUME NEW v \in Seq(Arriving), NEW d \in 1..3, NEW S, IsFiniteSet(S), PathsOf(S, d),
         NEW paths, ClosedIn(S, paths), Below(v, S, d + 1) \in SUBSET paths
  PROVE  LET B == Below(v, S, d + 1) IN IsFiniteSet(B) /\ PathsOf(B, d + 1) /\ ClosedIn(B, paths)
<1> DEFINE B == Below(v, S, d + 1)
           L == Level(v, d + 1)
           X == S \X L
           f == [x \in X |-> Append(x[1], x[2])]
<1>1. L \in SUBSET Protos /\ IsFiniteSet(L)
  <2>1. d + 1 \in 1..4
    OBVIOUS
  <2> QED
    BY <2>1, LevelIs
<1>2. \A m \in B : \E x \in X : f[x] = m
  BY DEF Below
<1>3. \A m \in B : \E n \in S, q \in L : m = Append(n, q)
  BY DEF Below
<1> HIDE DEF B, L
<1>4. IsFiniteSet(X)
  BY <1>1, FS_Product
<1> HIDE DEF X, f
<1>5. IsFiniteSet(B)
  BY <1>2, <1>4, ImageFinite
<1>6. ASSUME NEW m \in B
      PROVE  /\ m \in Seq(Protos) /\ Len(m) = d + 1
             /\ \A k \in 1..Len(m) : Prefix(m, k) \in paths
  <2>1. PICK n \in S, q \in L : m = Append(n, q)
    BY <1>3
  <2>2. n \in Seq(Protos) /\ Len(n) = d /\ q \in Protos
    BY <1>1 DEF PathsOf
  <2>3. m \in Seq(Protos) /\ Len(m) = d + 1 /\ n = Prefix(m, d)
    BY <2>1, <2>2, PrefixAppend
  <2>4. ASSUME NEW k \in 1..(d + 1) PROVE Prefix(m, k) \in paths
    <3>1. CASE k = d + 1
      <4>1. m = Prefix(m, k)
        BY <2>3, <3>1, PrefixWhole
      <4>2. m \in paths
        BY DEF B
      <4> QED
        BY <4>1, <4>2
    <3>2. CASE k # d + 1
      <4>1. k \in 1..d /\ d \in 1..Len(m)
        BY <2>3, <3>2
      <4>2. Prefix(Prefix(m, d), k) = Prefix(m, k)
        BY <2>3, <4>1, PrefixTwice
      <4>3. Prefix(n, k) \in paths
        BY <2>2, <4>1 DEF ClosedIn
      <4> QED
        BY <2>3, <4>2, <4>3
    <3> QED
      BY <3>1, <3>2
  <2> QED
    BY <2>3, <2>4
<1> QED
  BY <1>5, <1>6 DEF PathsOf, ClosedIn, B

TreePaths(paths) ==
  /\ IsFiniteSet(paths) /\ ClosedIn(paths, paths)
  /\ \A m \in paths : m \in Seq(Protos) /\ Len(m) \in 1..4

LEMMA ProtoPathsAre ==
  ASSUME NEW v \in Seq(Arriving)
  PROVE  TreePaths(ProtoPaths(v))
<1> DEFINE paths == ProtoPaths(v)
           L == Level(v, 1)
           one == {<<q>> : q \in L}
           two == Below(v, one, 2)
           three == Below(v, two, 3)
           four == Below(v, three, 4)
<1>1. paths = one \cup two \cup three \cup four
  BY DEF ProtoPaths
<1>2. IsFiniteSet(one) /\ PathsOf(one, 1) /\ ClosedIn(one, paths)
  <2>1. L \in SUBSET Protos /\ IsFiniteSet(L)
    BY LevelIs
  <2>2. IsFiniteSet(one)
    <3> DEFINE f == [q \in L |-> <<q>>]
    <3>1. \A m \in one : \E q \in L : f[q] = m
      OBVIOUS
    <3> HIDE DEF f, L, one
    <3> QED
      BY <2>1, <3>1, ImageFinite
  <2>3. PathsOf(one, 1)
    <3>1. ASSUME NEW q \in Protos PROVE <<q>> \in Seq(Protos) /\ Len(<<q>>) = 1
      OBVIOUS
    <3> HIDE DEF L
    <3> QED
      BY <2>1, <3>1 DEF PathsOf
  <2>4. ASSUME NEW m \in one, NEW k \in 1..Len(m) PROVE Prefix(m, k) \in paths
    <3>1. m \in Seq(Protos) /\ Len(m) = 1
      BY <2>3 DEF PathsOf
    <3>2. m = Prefix(m, Len(m))
      BY <3>1, PrefixWhole
    <3>3. k = Len(m)
      BY <3>1
    <3> QED
      BY <1>1, <3>2, <3>3
  <2> QED
    BY <2>2, <2>3, <2>4 DEF ClosedIn
<1> HIDE DEF paths, one
<1>3. IsFiniteSet(two) /\ PathsOf(two, 2) /\ ClosedIn(two, paths)
  <2> DEFINE d == 1
  <2>1. d \in 1..3 /\ PathsOf(one, d) /\ Below(v, one, d + 1) \in SUBSET paths
    BY <1>1, <1>2
  <2>2. two = Below(v, one, d + 1) /\ d + 1 = 2
    OBVIOUS
  <2> HIDE DEF d, two
  <2> QED
    BY <1>2, <2>1, <2>2, BelowIs
<1> HIDE DEF two
<1>4. IsFiniteSet(three) /\ PathsOf(three, 3) /\ ClosedIn(three, paths)
  <2> DEFINE d == 2
  <2>1. d \in 1..3 /\ PathsOf(two, d) /\ Below(v, two, d + 1) \in SUBSET paths
    BY <1>1, <1>3
  <2>2. three = Below(v, two, d + 1) /\ d + 1 = 3
    OBVIOUS
  <2> HIDE DEF d, three
  <2> QED
    BY <1>3, <2>1, <2>2, BelowIs
<1> HIDE DEF three
<1>5. IsFiniteSet(four) /\ PathsOf(four, 4) /\ ClosedIn(four, paths)
  <2> DEFINE d == 3
  <2>1. d \in 1..3 /\ PathsOf(three, d) /\ Below(v, three, d + 1) \in SUBSET paths
    BY <1>1, <1>4
  <2>2. four = Below(v, three, d + 1) /\ d + 1 = 4
    OBVIOUS
  <2> HIDE DEF d, four
  <2> QED
    BY <1>4, <2>1, <2>2, BelowIs
<1> HIDE DEF four
<1>6. IsFiniteSet(paths)
  BY <1>1, <1>2, <1>3, <1>4, <1>5, FS_Union
<1>7. ClosedIn(paths, paths)
  BY <1>1, <1>2, <1>3, <1>4, <1>5 DEF ClosedIn
<1>8. \A m \in paths : m \in Seq(Protos) /\ Len(m) \in 1..4
  BY <1>1, <1>2, <1>3, <1>4, <1>5 DEF PathsOf
<1> QED
  BY <1>6, <1>7, <1>8 DEF TreePaths, paths

-----------------------------------------------------------------------------
(* The order of a tree is an order.                                        *)
TreeTies(Tie) ==
  /\ \A q \in Protos : Tie[q] \in Int
  /\ \A q, r \in Protos : Tie[q] = Tie[r] => q = r

CountsFor(paths, count) == \A m \in paths : count[m] \in Nat

Better(m, n, k, count, Tie) ==
  \/ count[Prefix(m, k)] > count[Prefix(n, k)]
  \/ count[Prefix(m, k)] = count[Prefix(n, k)] /\ Tie[m[k]] < Tie[n[k]]

AgreeTo(m, n, k) == \A j \in 1..k : m[j] = n[j]

LEMMA PartsIs ==
  ASSUME NEW m, NEW n, NEW k, NEW count, NEW Tie
  PROVE  Parts(m, n, k, count, Tie) <=>
           /\ k <= Len(m) /\ k <= Len(n) /\ m[k] # n[k] /\ AgreeTo(m, n, k - 1)
           /\ Better(m, n, k, count, Tie)
BY DEF Parts, AgreeTo, Better, Prefix

LEMMA PathFields ==
  ASSUME NEW paths, TreePaths(paths), NEW m \in paths
  PROVE  /\ m \in Seq(Protos) /\ Len(m) \in 1..4 /\ Len(m) \in Nat
         /\ \A k \in 1..Len(m) : m[k] \in Protos /\ Prefix(m, k) \in paths
<1>1. m \in Seq(Protos) /\ Len(m) \in 1..4 /\ \A k \in 1..Len(m) : Prefix(m, k) \in paths
  BY DEF TreePaths, ClosedIn
<1>2. \A k \in 1..Len(m) : m[k] \in Protos
  BY <1>1
<1> QED
  BY <1>1, <1>2

LEMMA AgreeSame ==
  ASSUME NEW paths, TreePaths(paths), NEW m \in paths, NEW n \in paths, NEW k \in Nat,
         k <= Len(m), k <= Len(n), AgreeTo(m, n, k)
  PROVE  Prefix(m, k) = Prefix(n, k)
<1>1. m \in Seq(Protos) /\ n \in Seq(Protos)
  BY PathFields
<1> QED
  BY <1>1, PrefixSame DEF AgreeTo

LEMMA FirstApart ==
  ASSUME NEW paths, TreePaths(paths), NEW m \in paths, NEW n \in paths, m # n
  PROVE  \/ LeadsTo(m, n) \/ LeadsTo(n, m)
         \/ \E k \in 1..4 : k <= Len(m) /\ k <= Len(n) /\ m[k] # n[k] /\ AgreeTo(m, n, k - 1)
<1> DEFINE D == {k \in Nat : 1 <= k /\ k <= Len(m) /\ k <= Len(n) /\ m[k] # n[k]}
<1>1. m \in Seq(Protos) /\ n \in Seq(Protos) /\ Len(m) \in 1..4 /\ Len(n) \in 1..4
  BY PathFields
<1>2. CASE D = {}
  <2>1. \A k \in 1..Len(m) : k <= Len(n) => m[k] = n[k]
    BY <1>1, <1>2
  <2>2. Len(m) # Len(n)
    <3> SUFFICES ASSUME Len(m) = Len(n) PROVE FALSE
      OBVIOUS
    <3>1. \A k \in 1..Len(m) : m[k] = n[k]
      BY <1>1, <2>1
    <3> HIDE DEF D
    <3>2. m = n
      BY <1>1, <3>1
    <3> QED
      BY <3>2
  <2>3. CASE Len(m) < Len(n)
    BY <1>1, <2>1, <2>3 DEF LeadsTo
  <2>4. CASE Len(n) < Len(m)
    <3>1. \A k \in 1..Len(n) : n[k] = m[k]
      BY <1>1, <2>1, <2>4
    <3> QED
      BY <2>4, <3>1 DEF LeadsTo
  <2> QED
    BY <1>1, <2>2, <2>3, <2>4
<1>3. CASE D # {}
  <2>1. D \in SUBSET Nat
    OBVIOUS
  <2> HIDE DEF D
  <2>2. PICK k \in D : \A j \in D : k <= j
    BY <1>3, <2>1, LeastExists
  <2>3. k \in Nat /\ 1 <= k /\ k <= Len(m) /\ k <= Len(n) /\ m[k] # n[k]
    BY <2>2 DEF D
  <2>4. AgreeTo(m, n, k - 1)
    <3> SUFFICES ASSUME NEW j \in 1..(k - 1), m[j] # n[j] PROVE FALSE
      BY DEF AgreeTo
    <3>1. j \in Nat /\ 1 <= j /\ j < k /\ j <= Len(m) /\ j <= Len(n)
      BY <1>1, <2>3
    <3>2. j \in D
      BY <3>1 DEF D
    <3> QED
      BY <2>2, <2>3, <3>1, <3>2
  <2>5. k \in 1..4
    BY <1>1, <2>3
  <2> QED
    BY <2>3, <2>4, <2>5
<1> QED
  BY <1>2, <1>3

LEMMA PartsRight ==
  ASSUME NEW paths, TreePaths(paths), NEW x \in paths, NEW y \in paths, NEW z \in paths,
         NEW count, NEW Tie, NEW k \in 1..4, Parts(x, y, k, count, Tie), k <= Len(z), AgreeTo(y, z, k)
  PROVE  Parts(x, z, k, count, Tie)
<1>1. k <= Len(x) /\ k <= Len(y) /\ x[k] # y[k] /\ AgreeTo(x, y, k - 1) /\ Better(x, y, k, count, Tie)
  BY PartsIs
<1>2. Prefix(y, k) = Prefix(z, k)
  BY <1>1, AgreeSame
<1>3. y[k] = z[k] /\ \A j \in 1..(k - 1) : x[j] = y[j] /\ y[j] = z[j]
  BY <1>1 DEF AgreeTo
<1>4. Better(x, z, k, count, Tie)
  BY <1>1, <1>2, <1>3 DEF Better
<1>5. AgreeTo(x, z, k - 1)
  BY <1>3 DEF AgreeTo
<1> QED
  BY <1>1, <1>3, <1>4, <1>5, PartsIs

LEMMA PartsLeft ==
  ASSUME NEW paths, TreePaths(paths), NEW x \in paths, NEW y \in paths, NEW z \in paths,
         NEW count, NEW Tie, NEW k \in 1..4, Parts(y, z, k, count, Tie), k <= Len(x), AgreeTo(x, y, k)
  PROVE  Parts(x, z, k, count, Tie)
<1>1. k <= Len(y) /\ k <= Len(z) /\ y[k] # z[k] /\ AgreeTo(y, z, k - 1) /\ Better(y, z, k, count, Tie)
  BY PartsIs
<1>2. Prefix(x, k) = Prefix(y, k)
  BY <1>1, AgreeSame
<1>3. x[k] = y[k] /\ \A j \in 1..(k - 1) : x[j] = y[j] /\ y[j] = z[j]
  BY <1>1 DEF AgreeTo
<1>4. Better(x, z, k, count, Tie)
  BY <1>1, <1>2, <1>3 DEF Better
<1>5. AgreeTo(x, z, k - 1)
  BY <1>3 DEF AgreeTo
<1> QED
  BY <1>1, <1>3, <1>4, <1>5, PartsIs

LEMMA PartsTwice ==
  ASSUME NEW paths, TreePaths(paths), NEW x \in paths, NEW y \in paths, NEW z \in paths,
         NEW count, CountsFor(paths, count), NEW Tie, TreeTies(Tie), NEW k \in 1..4,
         Parts(x, y, k, count, Tie), Parts(y, z, k, count, Tie)
  PROVE  Parts(x, z, k, count, Tie)
<1>1. k <= Len(x) /\ k <= Len(y) /\ x[k] # y[k] /\ AgreeTo(x, y, k - 1) /\ Better(x, y, k, count, Tie)
  BY PartsIs
<1>2. k <= Len(y) /\ k <= Len(z) /\ y[k] # z[k] /\ AgreeTo(y, z, k - 1) /\ Better(y, z, k, count, Tie)
  BY PartsIs
<1> DEFINE a == count[Prefix(x, k)]
           b == count[Prefix(y, k)]
           c == count[Prefix(z, k)]
           p == Tie[x[k]]
           q == Tie[y[k]]
           r == Tie[z[k]]
<1>3. k \in 1..Len(x) /\ k \in 1..Len(y) /\ k \in 1..Len(z)
  BY <1>1, <1>2, PathFields
<1>4. a \in Nat /\ b \in Nat /\ c \in Nat /\ p \in Int /\ q \in Int /\ r \in Int
  BY <1>3, PathFields DEF CountsFor, TreeTies
<1>5. (a > b \/ (a = b /\ p < q)) /\ (b > c \/ (b = c /\ q < r))
  BY <1>1, <1>2 DEF Better
<1>6. AgreeTo(x, z, k - 1)
  BY <1>1, <1>2 DEF AgreeTo
<1>7. x[k] = z[k] => a = c /\ p = r
  <2> SUFFICES ASSUME x[k] = z[k] PROVE a = c /\ p = r
    OBVIOUS
  <2>1. AgreeTo(x, z, k)
    BY <1>6 DEF AgreeTo
  <2>2. Prefix(x, k) = Prefix(z, k)
    BY <1>1, <1>2, <2>1, AgreeSame
  <2> QED
    BY <2>2
<1> HIDE DEF a, b, c, p, q, r
<1>8. (a > c \/ (a = c /\ p < r)) /\ ~(a = c /\ p = r)
  BY <1>4, <1>5
<1>9. x[k] # z[k] /\ Better(x, z, k, count, Tie)
  BY <1>7, <1>8 DEF Better, a, c, p, r
<1> QED
  BY <1>1, <1>2, <1>6, <1>9, PartsIs

Leads(paths, count, Tie, x, y) == LeadsTo(x, y) \/ \E k \in 1..4 : Parts(x, y, k, count, Tie)

LEMMA LeadsOn ==
  ASSUME NEW paths, TreePaths(paths), NEW x \in paths, NEW y \in paths, NEW z \in paths,
         NEW count, CountsFor(paths, count), NEW Tie, TreeTies(Tie),
         Leads(paths, count, Tie, x, y), Leads(paths, count, Tie, y, z)
  PROVE  Leads(paths, count, Tie, x, z)
<1>0. Len(x) \in Nat /\ Len(y) \in Nat /\ Len(z) \in Nat
  BY PathFields
<1>1. ASSUME LeadsTo(x, y), LeadsTo(y, z) PROVE LeadsTo(x, z)
  BY <1>0, <1>1 DEF LeadsTo
<1>2. ASSUME LeadsTo(x, y), NEW k \in 1..4, Parts(y, z, k, count, Tie)
      PROVE  Leads(paths, count, Tie, x, z)
  <2>1. k <= Len(z) /\ \A j \in 1..(k - 1) : y[j] = z[j]
    BY <1>2, PartsIs DEF AgreeTo
  <2>2. CASE k <= Len(x)
    <3>1. AgreeTo(x, y, k)
      BY <1>0, <1>2, <2>2 DEF AgreeTo, LeadsTo
    <3>2. Parts(x, z, k, count, Tie)
      BY <1>2, <2>2, <3>1, PartsLeft
    <3> QED
      BY <3>2 DEF Leads
  <2>3. CASE ~(k <= Len(x))
    <3>1. Len(x) < Len(z)
      BY <1>0, <2>1, <2>3
    <3>2. \A j \in 1..Len(x) : j \in 1..(k - 1) /\ x[j] = y[j]
      BY <1>0, <1>2, <2>3 DEF LeadsTo
    <3>3. LeadsTo(x, z)
      BY <2>1, <3>1, <3>2 DEF LeadsTo
    <3> QED
      BY <3>3 DEF Leads
  <2> QED
    BY <2>2, <2>3
<1>3. ASSUME NEW k \in 1..4, Parts(x, y, k, count, Tie), LeadsTo(y, z)
      PROVE  Leads(paths, count, Tie, x, z)
  <2>1. k <= Len(y)
    BY <1>3, PartsIs
  <2>2. k <= Len(z) /\ AgreeTo(y, z, k)
    BY <1>0, <1>3, <2>1 DEF AgreeTo, LeadsTo
  <2>3. Parts(x, z, k, count, Tie)
    BY <1>3, <2>2, PartsRight
  <2> QED
    BY <2>3 DEF Leads
<1>4. ASSUME NEW j \in 1..4, Parts(x, y, j, count, Tie), NEW k \in 1..4, Parts(y, z, k, count, Tie)
      PROVE  Leads(paths, count, Tie, x, z)
  <2>1. j <= Len(x) /\ AgreeTo(x, y, j - 1) /\ k <= Len(z) /\ AgreeTo(y, z, k - 1)
    BY <1>4, PartsIs
  <2>2. CASE j = k
    <3>1. Parts(x, z, k, count, Tie)
      BY <1>4, <2>2, PartsTwice
    <3> QED
      BY <3>1 DEF Leads
  <2>3. CASE j < k
    <3>1. j <= Len(z) /\ AgreeTo(y, z, j)
      BY <1>0, <2>1, <2>3 DEF AgreeTo
    <3>2. Parts(x, z, j, count, Tie)
      BY <1>4, <3>1, PartsRight
    <3> QED
      BY <3>2 DEF Leads
  <2>4. CASE k < j
    <3>1. k <= Len(x) /\ AgreeTo(x, y, k)
      BY <1>0, <2>1, <2>4 DEF AgreeTo
    <3>2. Parts(x, z, k, count, Tie)
      BY <1>4, <3>1, PartsLeft
    <3> QED
      BY <3>2 DEF Leads
  <2> QED
    BY <2>2, <2>3, <2>4
<1> QED
  BY <1>1, <1>2, <1>3, <1>4 DEF Leads

LEMMA TreeInOrder ==
  ASSUME NEW paths, TreePaths(paths), NEW count, CountsFor(paths, count), NEW Tie, TreeTies(Tie)
  PROVE  /\ StrictOrder(paths, TreeOrder(paths, count, Tie))
         /\ \A x, y \in paths : <<x, y>> \in TreeOrder(paths, count, Tie) <=> Leads(paths, count, Tie, x, y)
<1> DEFINE R == TreeOrder(paths, count, Tie)
<1>1. \A x, y \in paths : <<x, y>> \in R <=> Leads(paths, count, Tie, x, y)
  BY DEF TreeOrder, Leads
<1> HIDE DEF R
<1>2. ASSUME NEW x \in paths PROVE <<x, x>> \notin R
  <2>1. ~LeadsTo(x, x)
    BY PathFields DEF LeadsTo
  <2>2. \A k \in 1..4 : ~Parts(x, x, k, count, Tie)
    BY PartsIs
  <2> QED
    BY <1>1, <2>1, <2>2 DEF Leads
<1>3. ASSUME NEW x \in paths, NEW y \in paths, x # y PROVE <<x, y>> \in R \/ <<y, x>> \in R
  <2>1. CASE LeadsTo(x, y) \/ LeadsTo(y, x)
    BY <1>1, <2>1 DEF Leads
  <2>2. ASSUME NEW k \in 1..4, k <= Len(x), k <= Len(y), x[k] # y[k], AgreeTo(x, y, k - 1)
        PROVE  <<x, y>> \in R \/ <<y, x>> \in R
    <3> DEFINE a == count[Prefix(x, k)]
               b == count[Prefix(y, k)]
               p == Tie[x[k]]
               q == Tie[y[k]]
    <3>1. k \in 1..Len(x) /\ k \in 1..Len(y)
      BY <2>2, PathFields
    <3>2. a \in Nat /\ b \in Nat /\ p \in Int /\ q \in Int /\ p # q
      BY <2>2, <3>1, PathFields DEF CountsFor, TreeTies
    <3>3. Better(x, y, k, count, Tie) <=> (a > b \/ (a = b /\ p < q))
      BY DEF Better
    <3>4. Better(y, x, k, count, Tie) <=> (b > a \/ (b = a /\ q < p))
      BY DEF Better
    <3> HIDE DEF a, b, p, q
    <3>5. Better(x, y, k, count, Tie) \/ Better(y, x, k, count, Tie)
      BY <3>2, <3>3, <3>4
    <3>6. AgreeTo(y, x, k - 1)
      BY <2>2 DEF AgreeTo
    <3>7. Parts(x, y, k, count, Tie) \/ Parts(y, x, k, count, Tie)
      BY <2>2, <3>5, <3>6, PartsIs
    <3> QED
      BY <1>1, <3>7 DEF Leads
  <2> QED
    BY <1>3, <2>1, <2>2, FirstApart
<1>4. ASSUME NEW x \in paths, NEW y \in paths, NEW z \in paths, <<x, y>> \in R, <<y, z>> \in R
      PROVE  <<x, z>> \in R
  BY <1>1, <1>4, LeadsOn
<1> QED
  BY <1>1, <1>2, <1>3, <1>4 DEF StrictOrder, R

-----------------------------------------------------------------------------
(* Every node is below the one it belongs to: its parent comes before it,  *)
(* and only nodes that are deeper than the parent are between the two.     *)
DeeperAfter(t, m, n) == \A k \in (m + 1)..n : Len(t[k].path) > Len(t[m].path)

TreeLike(t) ==
  \A n \in DOMAIN t : Len(t[n].path) > 1 =>
    \E m \in 1..(n - 1) :
      t[m].path = SubSeq(t[n].path, 1, Len(t[n].path) - 1) /\ DeeperAfter(t, m, n)

LEMMA DeeperBetween ==
  ASSUME NEW paths, TreePaths(paths), NEW count, CountsFor(paths, count), NEW Tie, TreeTies(Tie),
         NEW p \in paths, NEW d \in 1..(Len(p) - 1), NEW z \in paths,
         Leads(paths, count, Tie, Prefix(p, d), z), z = p \/ Leads(paths, count, Tie, z, p)
  PROVE  Len(z) > d
<1> DEFINE q == Prefix(p, d)
<1>1. /\ q \in paths /\ Len(q) = d /\ d \in Nat /\ \A j \in 1..d : q[j] = p[j]
  <2>1. p \in Seq(Protos) /\ d \in Nat /\ d <= Len(p) /\ d \in 1..Len(p)
    BY PathFields
  <2> QED
    BY <2>1, PathFields, PrefixFields
<1> HIDE DEF q
<1>2. CASE LeadsTo(q, z)
  BY <1>1, <1>2, PathFields DEF LeadsTo
<1>3. ASSUME NEW k \in 1..4, Parts(q, z, k, count, Tie) PROVE FALSE
  <2>1. k <= d
    BY <1>1, <1>3, PartsIs
  <2>2. AgreeTo(p, q, k) /\ k <= Len(p)
    BY <1>1, <2>1, PathFields DEF AgreeTo
  <2>3. Parts(p, z, k, count, Tie)
    BY <1>1, <1>3, <2>2, PartsLeft
  <2>4. Leads(paths, count, Tie, p, z)
    BY <2>3 DEF Leads
  <2>5. Leads(paths, count, Tie, p, p)
    BY <2>4, LeadsOn
  <2>6. ~LeadsTo(p, p)
    BY PathFields DEF LeadsTo
  <2>7. \A j \in 1..4 : ~Parts(p, p, j, count, Tie)
    BY PartsIs
  <2> QED
    BY <2>5, <2>6, <2>7 DEF Leads
<1> QED
  BY <1>2, <1>3 DEF Leads, q

-----------------------------------------------------------------------------
(* Rows: what FlattenNode does with a tree, node by node.                  *)
Flats(u, t, e, k) ==
  u = [n \in 0..k |->
         IF n = 0 THEN [rows |-> <<>>, hidden |-> 0] ELSE FlattenNode(u[n - 1], t[n], e)]

LEMMA FlatsRun ==
  ASSUME NEW t, NEW e, NEW k \in Nat
  PROVE  \E u : Flats(u, t, e, k)
<1> DEFINE S == {n \in Nat : \E u : Flats(u, t, e, n)}
           none == [rows |-> <<>>, hidden |-> 0]
<1>1. 0 \in S
  <2> DEFINE v == [n \in 0..0 |-> none]
  <2> HIDE DEF none
  <2>1. v = [n \in 0..0 |-> IF n = 0 THEN none ELSE FlattenNode(v[n - 1], t[n], e)]
    OBVIOUS
  <2> HIDE DEF v
  <2>2. Flats(v, t, e, 0)
    BY <2>1 DEF Flats, none
  <2> QED
    BY <2>2
<1>2. ASSUME NEW n \in S PROVE n + 1 \in S
  <2>1. n \in Nat /\ n + 1 \in Nat
    OBVIOUS
  <2>2. PICK u : Flats(u, t, e, n)
    OBVIOUS
  <2> DEFINE last == FlattenNode(u[n], t[n + 1], e)
             v == [i \in 0..(n + 1) |-> IF i = n + 1 THEN last ELSE u[i]]
  <2>3. \A i \in 0..(n + 1) : i # n + 1 => i \in 0..n
    BY <2>1
  <2>4. n \in 0..(n + 1) /\ n + 1 \in 0..(n + 1) /\ n # n + 1 /\ (n + 1) - 1 = n /\ n + 1 # 0
    BY <2>1
  <2> HIDE DEF last, none
  <2>5. v[n + 1] = last /\ v[n] = u[n]
    BY <2>4
  <2>6. ASSUME NEW i \in 0..(n + 1)
        PROVE  v[i] = IF i = 0 THEN none ELSE FlattenNode(v[i - 1], t[i], e)
    <3>1. CASE i = n + 1
      BY <2>4, <2>5, <3>1 DEF last
    <3>2. CASE i # n + 1
      <4>1. i \in 0..n /\ v[i] = u[i]
        BY <2>3, <3>2
      <4>2. u[i] = IF i = 0 THEN none ELSE FlattenNode(u[i - 1], t[i], e)
        BY <2>2, <4>1 DEF Flats, none
      <4>3. i # 0 => v[i - 1] = u[i - 1]
        <5>1. i # 0 => i - 1 \in 0..(n + 1) /\ i - 1 # n + 1
          BY <2>1, <4>1
        <5> QED
          BY <5>1
      <4> QED
        BY <4>1, <4>2, <4>3
    <3> QED
      BY <3>1, <3>2
  <2>7. v = [i \in 0..(n + 1) |-> IF i = 0 THEN none ELSE FlattenNode(v[i - 1], t[i], e)]
    <3>1. v = [i \in 0..(n + 1) |-> v[i]]
      OBVIOUS
    <3> HIDE DEF v
    <3> QED
      BY <2>6, <3>1
  <2> HIDE DEF v
  <2>8. Flats(v, t, e, n + 1)
    BY <2>7 DEF Flats, none
  <2> QED
    BY <2>1, <2>8
<1>3. S \in SUBSET Nat
  OBVIOUS
<1> HIDE DEF S
<1>4. S = Nat
  BY <1>1, <1>2, <1>3, SetInduction
<1> QED
  BY <1>4 DEF S

LEMMA FlattenOf ==
  ASSUME NEW t, NEW e, Len(t) \in Nat
  PROVE  \E u : Flats(u, t, e, Len(t)) /\ Flatten(t, e) = u[Len(t)].rows
<1> DEFINE w == CHOOSE u : u = [n \in 0..Len(t) |->
                  IF n = 0 THEN [rows |-> <<>>, hidden |-> 0] ELSE FlattenNode(u[n - 1], t[n], e)]
<1>1. Flatten(t, e) = w[Len(t)].rows
  BY DEF Flatten
<1>2. \E u : u = [n \in 0..Len(t) |->
                    IF n = 0 THEN [rows |-> <<>>, hidden |-> 0] ELSE FlattenNode(u[n - 1], t[n], e)]
  <2>1. \E u : Flats(u, t, e, Len(t))
    BY FlatsRun
  <2> HIDE DEF w
  <2> QED
    BY <2>1 DEF Flats
<1>3. Flats(w, t, e, Len(t))
  BY <1>2 DEF Flats
<1> HIDE DEF w
<1> QED
  BY <1>1, <1>3

(* After n nodes: each of them that has only deeper ones behind it, and is *)
(* not hidden, has a row with only deeper ones behind it.                  *)
Nodes(S) == \A s \in S : Len(s.path) \in Nat /\ Len(s.path) >= 1

FlatTo(t, S, acc, n) ==
  /\ acc.rows \in Seq(S) /\ acc.hidden \in Nat /\ TreeLike(acc.rows)
  /\ \A m \in 1..n :
       DeeperAfter(t, m, n) /\ (acc.hidden = 0 \/ Len(t[m].path) < acc.hidden) =>
         \E r \in 1..Len(acc.rows) : acc.rows[r] = t[m] /\ DeeperAfter(acc.rows, r, Len(acc.rows))

LEMMA DeeperBefore ==
  ASSUME NEW S, NEW t \in Seq(S), NEW m \in Nat, NEW n \in Nat, DeeperAfter(t, m, n + 1)
  PROVE  DeeperAfter(t, m, n) /\ (m <= n => Len(t[n + 1].path) > Len(t[m].path))
BY DEF DeeperAfter

LEMMA RowAdded ==
  ASSUME NEW S, Nodes(S), NEW s \in Seq(S), TreeLike(s), NEW x \in S,
         Len(x.path) > 1 =>
           \E r \in 1..Len(s) : /\ s[r].path = SubSeq(x.path, 1, Len(x.path) - 1)
                                /\ Len(s[r].path) < Len(x.path) /\ DeeperAfter(s, r, Len(s))
  PROVE  TreeLike(Append(s, x))
<1> DEFINE s2 == Append(s, x)
           c == Len(s)
<1>1. /\ c \in Nat /\ DOMAIN s = 1..c /\ DOMAIN s2 = 1..(c + 1) /\ s2[c + 1] = x
      /\ \A k \in 1..c : s2[k] = s[k]
  OBVIOUS
<1>2. \A n \in 1..(c + 1) : n # c + 1 => n \in 1..c
  BY <1>1
<1> HIDE DEF s2, c
<1>3. ASSUME NEW n \in 1..c, Len(s2[n].path) > 1
      PROVE  \E m \in 1..(n - 1) : /\ s2[m].path = SubSeq(s2[n].path, 1, Len(s2[n].path) - 1)
                                   /\ DeeperAfter(s2, m, n)
  <2>1. PICK m \in 1..(n - 1) : s[m].path = SubSeq(s[n].path, 1, Len(s[n].path) - 1) /\ DeeperAfter(s, m, n)
    BY <1>1, <1>3 DEF TreeLike
  <2>2. m \in 1..c /\ \A k \in (m + 1)..n : k \in 1..c
    BY <1>1
  <2>3. DeeperAfter(s2, m, n)
    BY <1>1, <2>1, <2>2 DEF DeeperAfter
  <2> QED
    BY <1>1, <2>1, <2>2, <2>3
<1>4. ASSUME Len(x.path) > 1
      PROVE  \E m \in 1..((c + 1) - 1) : /\ s2[m].path = SubSeq(x.path, 1, Len(x.path) - 1)
                                         /\ DeeperAfter(s2, m, c + 1)
  <2>1. PICK r \in 1..c : /\ s[r].path = SubSeq(x.path, 1, Len(x.path) - 1)
                          /\ Len(s[r].path) < Len(x.path) /\ DeeperAfter(s, r, c)
    BY <1>4 DEF c
  <2>2. r \in 1..((c + 1) - 1) /\ \A k \in (r + 1)..(c + 1) : k = c + 1 \/ (k \in 1..c /\ k \in (r + 1)..c)
    BY <1>1
  <2>3. Len(s[r].path) \in Nat /\ Len(x.path) \in Nat
    BY <1>1 DEF Nodes, c
  <2>4. DeeperAfter(s2, r, c + 1)
    <3> SUFFICES ASSUME NEW k \in (r + 1)..(c + 1) PROVE Len(s2[k].path) > Len(s2[r].path)
      BY DEF DeeperAfter
    <3>1. CASE k = c + 1
      BY <1>1, <2>1, <2>3, <3>1
    <3>2. CASE k \in 1..c /\ k \in (r + 1)..c
      BY <1>1, <2>1, <3>2 DEF DeeperAfter
    <3> QED
      BY <2>2, <3>1, <3>2
  <2> QED
    BY <1>1, <2>1, <2>2, <2>4
<1>5. TreeLike(s2)
  BY <1>1, <1>2, <1>3, <1>4 DEF TreeLike
<1> QED
  BY <1>5 DEF s2

LEMMA RowsKept ==
  ASSUME NEW S, Nodes(S), NEW s \in Seq(S), NEW x \in S, NEW r \in 1..Len(s), DeeperAfter(s, r, Len(s)),
         Len(s[r].path) < Len(x.path)
  PROVE  LET s2 == Append(s, x) IN
         r \in 1..Len(s2) /\ s2[r] = s[r] /\ DeeperAfter(s2, r, Len(s2))
<1> DEFINE s2 == Append(s, x)
           c == Len(s)
<1>1. /\ c \in Nat /\ Len(s2) = c + 1 /\ s2[c + 1] = x /\ r \in 1..c
      /\ \A k \in 1..c : s2[k] = s[k]
  OBVIOUS
<1>2. Len(s[r].path) \in Nat /\ Len(x.path) \in Nat
  BY <1>1 DEF Nodes
<1> HIDE DEF s2, c
<1>3. \A k \in (r + 1)..(c + 1) : k = c + 1 \/ (k \in 1..c /\ k \in (r + 1)..c)
  BY <1>1
<1>4. ASSUME NEW k \in (r + 1)..(c + 1) PROVE Len(s2[k].path) > Len(s2[r].path)
  <2>1. CASE k = c + 1
    BY <1>1, <1>2, <2>1
  <2>2. CASE k \in 1..c /\ k \in (r + 1)..c
    BY <1>1, <2>2 DEF DeeperAfter, c
  <2> QED
    BY <1>3, <2>1, <2>2
<1>5. DeeperAfter(s2, r, Len(s2))
  BY <1>1, <1>4 DEF DeeperAfter
<1>6. r \in 1..Len(s2) /\ s2[r] = s[r]
  BY <1>1
<1> QED
  BY <1>5, <1>6 DEF s2

LEMMA FlattenStep ==
  ASSUME NEW S, Nodes(S), NEW t \in Seq(S), TreeLike(t), NEW e, NEW n \in Nat, n + 1 <= Len(t),
         NEW acc, FlatTo(t, S, acc, n)
  PROVE  FlatTo(t, S, FlattenNode(acc, t[n + 1], e), n + 1)
<1> DEFINE x == t[n + 1]
           next == FlattenNode(acc, x, e)
           s == acc.rows
           h == acc.hidden
<1>1. s \in Seq(S) /\ h \in Nat /\ TreeLike(s)
  BY DEF FlatTo
<1>2. x \in S /\ Len(x.path) \in Nat /\ Len(x.path) >= 1 /\ n + 1 \in DOMAIN t
      /\ \A m \in 1..(n + 1) : t[m] \in S /\ Len(t[m].path) \in Nat
  <2>1. \A m \in 1..(n + 1) : m \in 1..Len(t)
    OBVIOUS
  <2>2. \A m \in 1..(n + 1) : t[m] \in S
    BY <2>1
  <2>3. n + 1 \in 1..(n + 1) /\ n + 1 \in DOMAIN t
    BY <2>1
  <2> QED
    BY <2>2, <2>3 DEF Nodes
<1>3. \A m \in 1..n : DeeperAfter(t, m, n) /\ (h = 0 \/ Len(t[m].path) < h) =>
        \E r \in 1..Len(s) : s[r] = t[m] /\ DeeperAfter(s, r, Len(s))
  BY DEF FlatTo
<1>4. \A m \in 1..(n + 1) : m = n + 1 \/ m \in 1..n
  OBVIOUS
<1>5. \A m \in 1..n : DeeperAfter(t, m, n + 1) => DeeperAfter(t, m, n) /\ Len(x.path) > Len(t[m].path)
  <2> SUFFICES ASSUME NEW m \in 1..n, DeeperAfter(t, m, n + 1)
               PROVE  DeeperAfter(t, m, n) /\ Len(x.path) > Len(t[m].path)
    OBVIOUS
  <2>1. m \in Nat /\ m <= n
    OBVIOUS
  <2> QED
    BY <2>1, DeeperBefore
<1>6. CASE h # 0 /\ Len(x.path) >= h
  <2>1. next = acc
    BY <1>6 DEF FlattenNode
  <2>2. ASSUME NEW m \in 1..(n + 1), DeeperAfter(t, m, n + 1), h = 0 \/ Len(t[m].path) < h
        PROVE  \E r \in 1..Len(s) : s[r] = t[m] /\ DeeperAfter(s, r, Len(s))
    <3>1. m # n + 1
      BY <1>1, <1>2, <1>6, <2>2
    <3> QED
      BY <1>3, <1>4, <1>5, <2>2, <3>1
  <2>3. FlatTo(t, S, acc, n + 1)
    BY <1>1, <2>2 DEF FlatTo
  <2> QED
    BY <2>1, <2>3
<1>7. CASE ~(h # 0 /\ Len(x.path) >= h)
  <2> DEFINE s2 == Append(s, x)
             h2 == IF e[Len(s) + 1] THEN 0 ELSE Len(x.path) + 1
  <2>1. next = [rows |-> s2, hidden |-> h2]
    BY <1>7 DEF FlattenNode
  <2>2. next.rows = s2 /\ next.hidden = h2
    BY <2>1
  <2>3. s2 \in Seq(S) /\ h2 \in Nat
    BY <1>1, <1>2
  <2>4. h = 0 \/ Len(x.path) < h
    BY <1>1, <1>2, <1>7
  <2>5. \A m \in 1..n : DeeperAfter(t, m, n + 1) =>
          \E r \in 1..Len(s) : s[r] = t[m] /\ DeeperAfter(s, r, Len(s)) /\ Len(s[r].path) < Len(x.path)
    <3> SUFFICES ASSUME NEW m \in 1..n, DeeperAfter(t, m, n + 1)
                 PROVE  \E r \in 1..Len(s) :
                          s[r] = t[m] /\ DeeperAfter(s, r, Len(s)) /\ Len(s[r].path) < Len(x.path)
      OBVIOUS
    <3>1. DeeperAfter(t, m, n) /\ Len(t[m].path) < Len(x.path)
      <4>1. Len(t[m].path) \in Nat
        BY <1>2
      <4> QED
        BY <1>2, <1>5, <4>1
    <3>2. h = 0 \/ Len(t[m].path) < h
      <4>1. Len(t[m].path) \in Nat
        BY <1>2
      <4> QED
        BY <1>1, <1>2, <2>4, <3>1, <4>1
    <3>3. \E r \in 1..Len(s) : s[r] = t[m] /\ DeeperAfter(s, r, Len(s))
      BY <1>3, <3>1, <3>2
    <3> QED
      BY <3>1, <3>3
  <2>6. TreeLike(s2)
    <3>1. ASSUME Len(x.path) > 1
          PROVE  \E r \in 1..Len(s) : /\ s[r].path = SubSeq(x.path, 1, Len(x.path) - 1)
                                      /\ Len(s[r].path) < Len(x.path) /\ DeeperAfter(s, r, Len(s))
      <4>1. PICK m \in 1..((n + 1) - 1) : /\ t[m].path = SubSeq(x.path, 1, Len(x.path) - 1)
                                          /\ DeeperAfter(t, m, n + 1)
        BY <1>2, <3>1 DEF TreeLike
      <4>2. m \in 1..n
        OBVIOUS
      <4> QED
        BY <2>5, <4>1, <4>2
    <3> HIDE DEF x, s
    <3> QED
      BY <1>1, <1>2, <3>1, RowAdded
  <2>7. ASSUME NEW m \in 1..(n + 1), DeeperAfter(t, m, n + 1)
        PROVE  \E r \in 1..Len(s2) : s2[r] = t[m] /\ DeeperAfter(s2, r, Len(s2))
    <3>1. CASE m = n + 1
      <4>1. Len(s2) \in Nat /\ Len(s2) \in 1..Len(s2) /\ s2[Len(s2)] = x
        BY <1>1, <1>2
      <4> HIDE DEF s2
      <4>2. DeeperAfter(s2, Len(s2), Len(s2))
        BY <4>1 DEF DeeperAfter
      <4> QED
        BY <3>1, <4>1, <4>2
    <3>2. CASE m \in 1..n
      <4>1. PICK r \in 1..Len(s) : s[r] = t[m] /\ DeeperAfter(s, r, Len(s)) /\ Len(s[r].path) < Len(x.path)
        BY <2>5, <2>7, <3>2
      <4> HIDE DEF x, s
      <4>2. r \in 1..Len(s2) /\ s2[r] = s[r] /\ DeeperAfter(s2, r, Len(s2))
        BY <1>1, <1>2, <4>1, RowsKept
      <4> HIDE DEF s2
      <4> QED
        BY <4>1, <4>2
    <3> QED
      BY <1>4, <3>1, <3>2
  <2> HIDE DEF s2, h2, next
  <2> QED
    BY <2>2, <2>3, <2>6, <2>7 DEF FlatTo, next
<1> QED
  BY <1>6, <1>7

LEMMA FlattenIs ==
  ASSUME NEW S, Nodes(S), NEW t \in Seq(S), TreeLike(t), NEW e
  PROVE  TreeLike(Flatten(t, e))
<1> DEFINE c == Len(t)
<1>1. c \in Nat
  OBVIOUS
<1>2. PICK u : Flats(u, t, e, c) /\ Flatten(t, e) = u[c].rows
  BY <1>1, FlattenOf
<1> DEFINE I == {n \in Nat : n <= c => FlatTo(t, S, u[n], n)}
<1>3. 0 \in I
  <2>1. u[0] = [rows |-> <<>>, hidden |-> 0]
    BY <1>1, <1>2 DEF Flats
  <2>2. u[0].rows = <<>> /\ u[0].hidden = 0
    BY <2>1
  <2>3. <<>> \in Seq(S) /\ TreeLike(<<>>)
    BY DEF TreeLike
  <2>4. FlatTo(t, S, u[0], 0)
    BY <2>2, <2>3 DEF FlatTo
  <2> QED
    BY <2>4
<1>4. ASSUME NEW n \in I PROVE n + 1 \in I
  <2>1. n \in Nat
    OBVIOUS
  <2> SUFFICES ASSUME n + 1 <= c PROVE FlatTo(t, S, u[n + 1], n + 1)
    BY <2>1
  <2>2. FlatTo(t, S, u[n], n)
    BY <1>1, <2>1
  <2>3. u[n + 1] = FlattenNode(u[n], t[n + 1], e)
    <3>1. n + 1 \in 0..c /\ n + 1 # 0 /\ (n + 1) - 1 = n
      BY <1>1, <2>1
    <3> HIDE DEF c
    <3>2. u[n + 1] = IF n + 1 = 0 THEN [rows |-> <<>>, hidden |-> 0]
                     ELSE FlattenNode(u[(n + 1) - 1], t[n + 1], e)
      BY <1>2, <3>1 DEF Flats
    <3> QED
      BY <3>1, <3>2
  <2> QED
    BY <2>1, <2>2, <2>3, FlattenStep
<1>5. I \in SUBSET Nat
  OBVIOUS
<1> HIDE DEF I
<1>6. I = Nat
  BY <1>3, <1>4, <1>5, SetInduction
<1>7. FlatTo(t, S, u[c], c)
  BY <1>1, <1>6 DEF I
<1> QED
  BY <1>2, <1>7 DEF FlatTo

LEMMA BuildTreeIs ==
  ASSUME NEW v \in Seq(Arriving), NEW Tie \in TieOrders
  PROVE  LET t == BuildTree(v, Tie)
             S == ProtoNodes(v)
         IN  Nodes(S) /\ t \in Seq(S) /\ TreeLike(t) /\ {t[n] : n \in DOMAIN t} = S
<1> DEFINE paths == ProtoPaths(v)
           count == [path \in paths |-> ProtoNode(v, path).packets]
           R == TreeOrder(paths, count, Tie)
           o == Arranged(paths, R)
           c == Cardinality(paths)
           t == [n \in DOMAIN o |-> ProtoNode(v, o[n])]
           S == ProtoNodes(v)
<1>1. BuildTree(v, Tie) = t
  BY DEF BuildTree
<1>2. TreePaths(paths)
  BY ProtoPathsAre
<1>3. \A path \in paths : ProtoNode(v, path).path = path /\ ProtoNode(v, path) \in S
  BY DEF ProtoNode, ProtoNodes
<1>4. \A s \in S : \E path \in paths : s = ProtoNode(v, path)
  BY DEF ProtoNodes
<1>5. TreeTies(Tie)
  <2>1. /\ KnownProtos \union {p.proto : p \in Arriving} \subseteq DOMAIN Tie
        /\ Tie \in [DOMAIN Tie -> Int] /\ \A q, r \in DOMAIN Tie : Tie[q] = Tie[r] => q = r
    BY StatsAssumption
  <2> QED
    BY <2>1 DEF TreeTies, Protos
<1>6. CountsFor(paths, count)
  <2> SUFFICES ASSUME NEW path \in paths PROVE ProtoNode(v, path).packets \in Nat
    BY DEF CountsFor
  <2> DEFINE its == Counted(v, Len(path), path[Len(path)])
  <2>1. its \in SUBSET (DOMAIN v)
    BY DEF Counted
  <2>2. ProtoNode(v, path).packets = Total(its)
    BY DEF ProtoNode
  <2> HIDE DEF its
  <2> QED
    BY <2>1, <2>2, TotalNat
<1> HIDE DEF paths, count, S
<1>7. /\ StrictOrder(paths, R)
      /\ \A x, y \in paths : <<x, y>> \in R <=> Leads(paths, count, Tie, x, y)
  BY <1>2, <1>5, <1>6, TreeInOrder
<1>8. IsFiniteSet(paths)
  BY <1>2 DEF TreePaths
<1> HIDE DEF R
<1>9. /\ Lists(o, paths) /\ \A m, n \in 1..c : m < n => <<o[m], o[n]>> \in R
  BY <1>7, <1>8, ArrangedIs
<1> HIDE DEF o
<1>10. /\ c \in Nat /\ DOMAIN o = 1..c /\ (\A n \in 1..c : o[n] \in paths)
       /\ \A x \in paths : \E n \in 1..c : o[n] = x
  BY <1>9 DEF Lists
<1> HIDE DEF c
<1>11. DOMAIN t = 1..c /\ \A n \in 1..c : t[n] = ProtoNode(v, o[n]) /\ t[n] \in S /\ t[n].path = o[n]
  BY <1>3, <1>10
<1>12. t \in Seq(S)
  <2>1. t \in [1..c -> S]
    BY <1>3, <1>10
  <2> HIDE DEF t
  <2> QED
    BY <1>10, <2>1
<1> HIDE DEF t
<1>13. Nodes(S)
  <2> SUFFICES ASSUME NEW s \in S PROVE Len(s.path) \in Nat /\ Len(s.path) >= 1
    BY DEF Nodes
  <2> DEFINE m == s.path
  <2>1. m \in paths
    BY <1>3, <1>4
  <2> HIDE DEF m
  <2>2. Len(m) \in 1..4
    BY <1>2, <2>1, PathFields
  <2>3. Len(m) \in Nat /\ Len(m) >= 1
    BY <2>2
  <2> QED
    BY <2>3 DEF m
<1>14. {t[n] : n \in DOMAIN t} = S
  <2>1. \A n \in DOMAIN t : t[n] \in S
    BY <1>11
  <2>2. \A s \in S : \E n \in DOMAIN t : t[n] = s
    BY <1>4, <1>10, <1>11
  <2> QED
    BY <2>1, <2>2
<1>15. ASSUME NEW n \in 1..c, Len(o[n]) > 1
       PROVE  \E m \in 1..(n - 1) : o[m] = SubSeq(o[n], 1, Len(o[n]) - 1)
                                    /\ \A k \in (m + 1)..n : Len(o[k]) > Len(o[m])
  <2> DEFINE p == o[n]
             d == Len(p) - 1
             q == Prefix(p, d)
  <2>1. p \in paths /\ Len(p) \in 1..4
    BY <1>2, <1>10, PathFields
  <2>2. d \in 1..(Len(p) - 1) /\ d \in 1..Len(p) /\ d \in Nat /\ d < Len(p)
    BY <1>15, <2>1
  <2>3. p \in Seq(Protos) /\ q \in paths
    BY <1>2, <2>1, <2>2, PathFields
  <2>4. Len(q) = d /\ \A j \in 1..d : q[j] = p[j]
    <3>1. d <= Len(p)
      BY <2>2
    <3> HIDE DEF p, d
    <3> QED
      BY <2>2, <2>3, <3>1, PrefixFields
  <2> HIDE DEF p, d, q
  <2>5. LeadsTo(q, p)
    BY <2>2, <2>4 DEF LeadsTo
  <2>6. <<q, p>> \in R
    BY <1>7, <2>1, <2>3, <2>5 DEF Leads
  <2>7. PICK m \in 1..c : o[m] = q
    BY <1>10, <2>3
  <2>8. m < n
    <3>1. m # n
      BY <2>2, <2>4, <2>7 DEF p
    <3>2. ~(n < m)
      <4> SUFFICES ASSUME n < m PROVE FALSE
        OBVIOUS
      <4>1. <<p, q>> \in R
        BY <1>9, <2>7 DEF p
      <4>2. <<p, p>> \in R
        BY <1>7, <2>1, <2>3, <2>6, <4>1 DEF StrictOrder
      <4> QED
        BY <1>7, <2>1, <4>2 DEF StrictOrder
    <3> QED
      BY <1>10, <3>1, <3>2
  <2>9. ASSUME NEW k \in (m + 1)..n PROVE Len(o[k]) > Len(o[m])
    <3>1. k \in 1..c /\ m < k /\ (k < n \/ k = n)
      BY <1>10
    <3>2. <<q, o[k]>> \in R /\ o[k] \in paths
      BY <1>9, <1>10, <2>7, <3>1
    <3>3. o[k] = p \/ <<o[k], p>> \in R
      BY <1>9, <3>1 DEF p
    <3>4. Leads(paths, count, Tie, q, o[k]) /\ (o[k] = p \/ Leads(paths, count, Tie, o[k], p))
      BY <1>7, <2>1, <2>3, <3>2, <3>3
    <3>5. Len(o[k]) > d
      BY <1>2, <1>5, <1>6, <2>1, <2>2, <3>2, <3>4, DeeperBetween DEF q
    <3> QED
      BY <2>4, <2>7, <3>5
  <2>10. m \in 1..(n - 1)
    BY <1>10, <2>8
  <2>11. o[m] = SubSeq(o[n], 1, Len(o[n]) - 1)
    BY <2>7 DEF q, d, p, Prefix
  <2> QED
    BY <2>9, <2>10, <2>11
<1>16. TreeLike(t)
  <2> SUFFICES ASSUME NEW n \in 1..c, Len(t[n].path) > 1
               PROVE  \E m \in 1..(n - 1) :
                        t[m].path = SubSeq(t[n].path, 1, Len(t[n].path) - 1) /\ DeeperAfter(t, m, n)
    BY <1>11 DEF TreeLike
  <2>1. t[n].path = o[n]
    BY <1>11
  <2>2. PICK m \in 1..(n - 1) : o[m] = SubSeq(o[n], 1, Len(o[n]) - 1)
                                /\ \A k \in (m + 1)..n : Len(o[k]) > Len(o[m])
    BY <1>15, <2>1
  <2>3. m \in 1..c /\ \A k \in (m + 1)..n : k \in 1..c
    BY <1>10
  <2>4. t[m].path = o[m] /\ \A k \in (m + 1)..n : t[k].path = o[k]
    BY <1>11, <2>3
  <2>5. DeeperAfter(t, m, n)
    BY <2>2, <2>4 DEF DeeperAfter
  <2> QED
    BY <2>1, <2>2, <2>4, <2>5
<1> QED
  BY <1>1, <1>12, <1>13, <1>14, <1>16 DEF S

LEMMA ViewIs ==
  ASSUME NEW ps \in Seq(Arriving), NEW f, NEW isAware
  PROVE  View(ps, f, isAware) \in Seq(Arriving)
<1> DEFINE its == {i \in DOMAIN ps : isAware /\ f # NoFilter => ps[i].proto \in f}
           R == {x \in its \X its : x[1] < x[2]}
           places == Arranged(its, R)
           c == Cardinality(its)
           v == [n \in DOMAIN places |-> ps[places[n]]]
<1>1. View(ps, f, isAware) = v
  BY DEF View
<1>2. its \in SUBSET (DOMAIN ps) /\ its \in SUBSET Nat /\ IsFiniteSet(its)
  <2>1. IsFiniteSet(DOMAIN ps) /\ DOMAIN ps \in SUBSET Nat
    BY InView
  <2>2. its \in SUBSET (DOMAIN ps)
    OBVIOUS
  <2> HIDE DEF its
  <2> QED
    BY <2>1, <2>2, FS_Subset
<1> HIDE DEF its
<1>3. StrictOrder(its, R)
  BY <1>2 DEF StrictOrder
<1> HIDE DEF R
<1>4. Lists(places, its)
  BY <1>2, <1>3, ArrangedIs
<1> HIDE DEF places
<1>5. c \in Nat /\ DOMAIN places = 1..c /\ \A n \in 1..c : places[n] \in its
  BY <1>4 DEF Lists
<1>6. \A i \in its : ps[i] \in Arriving
  BY <1>2, InView
<1> HIDE DEF c
<1>7. v \in [1..c -> Arriving]
  BY <1>5, <1>6
<1> HIDE DEF v
<1>8. v \in Seq(Arriving)
  BY <1>5, <1>7
<1> QED
  BY <1>1, <1>8

-----------------------------------------------------------------------------
(* The inductive invariant.                                                *)
OrdersOf ==
  [Tables -> [column : {"TotalPackets", "TotalBytes", "PacketsAtoB", "PacketsBtoA", "Duration",
                        "TxPackets", "RxPackets", "TxBytes", "RxBytes"},
              ascending : BOOLEAN]]

Settled ==
  /\ packets \in Seq(Arriving)
  /\ order \in OrdersOf /\ \A t \in Tables : order[t].column \in ColumnsOf(t)

TreeKept ==
  /\ rows = Flatten(tree, expanded)
  /\ expanded \in Seq(BOOLEAN) /\ Len(expanded) = Len(tree)
  /\ TreeLike(tree) /\ \E S : Nodes(S) /\ tree \in Seq(S)

Shown ==
  LET v == View(packets, filter, aware) IN
  /\ tab = "proto" => {tree[n] : n \in DOMAIN tree} = ProtoNodes(v)
  /\ tab \in Tables => Lists(table[tab], Rows(tab, v)) /\ InOrder(tab, table[tab], order[tab])
  /\ tab = "graph" => graph = IoGraph(v, buckets)

StatsInv == Settled /\ TreeKept /\ DOMAIN table = Tables /\ (open => Shown)

LEMMA NoRows ==
  /\ Flatten(<<>>, <<>>) = <<>> /\ TreeLike(<<>>) /\ <<>> \in Seq(BOOLEAN)
  /\ \E S : Nodes(S) /\ <<>> \in Seq(S)
<1> DEFINE t == <<>>
           none == [rows |-> <<>>, hidden |-> 0]
<1>1. Len(t) = 0 /\ Len(t) \in Nat
  OBVIOUS
<1> HIDE DEF t
<1>2. PICK u : Flats(u, t, t, Len(t)) /\ Flatten(t, t) = u[Len(t)].rows
  BY <1>1, FlattenOf
<1>3. u[0] = none
  BY <1>1, <1>2 DEF Flats
<1> USE DEF t
<1>4. Flatten(<<>>, <<>>) = <<>>
  BY <1>1, <1>2, <1>3
<1>5. Nodes({}) /\ <<>> \in Seq({})
  BY DEF Nodes
<1> HIDE DEF t
<1>6. TreeLike(<<>>)
  BY DEF TreeLike
<1> QED
  BY <1>4, <1>5, <1>6

LEMMA ComputedIs ==
  ASSUME StatsInv, Settled', ComputeCurrentStats
  PROVE  TreeKept' /\ DOMAIN table' = Tables /\ Shown'
<1> DEFINE v == View(packets', filter', aware')
<1>0. v \in Seq(Arriving)
  <2>1. packets' \in Seq(Arriving)
    BY DEF Settled
  <2> QED
    BY <2>1, ViewIs
<1>1. Tables = {"conv", "ends"}
  BY DEF Tables
<1> HIDE DEF v
<1>2. CASE tab' = "proto" /\ ComputeTree(v) /\ UNCHANGED <<table, graph>>
  <2>1. PICK Tie \in TieOrders :
          LET nodes == BuildTree(v, Tie) IN
          /\ tree' = nodes
          /\ expanded' = IF Len(expanded) = Len(nodes) THEN expanded ELSE [n \in DOMAIN nodes |-> TRUE]
          /\ rows' = Flatten(nodes, expanded')
    BY <1>2 DEF ComputeTree
  <2> DEFINE S == ProtoNodes(v)
  <2>2. Nodes(S) /\ tree' \in Seq(S) /\ TreeLike(tree') /\ {tree'[n] : n \in DOMAIN tree'} = S
    BY <1>0, <2>1, BuildTreeIs
  <2> HIDE DEF S
  <2>3. Len(tree') \in Nat /\ DOMAIN tree' = 1..Len(tree')
    BY <2>2
  <2>4. expanded' \in Seq(BOOLEAN) /\ Len(expanded') = Len(tree')
    <3>1. CASE Len(expanded) = Len(tree')
      BY <2>1, <3>1 DEF StatsInv, TreeKept
    <3>2. CASE Len(expanded) # Len(tree')
      <4>1. expanded' = [n \in 1..Len(tree') |-> TRUE]
        BY <2>1, <2>3, <3>2
      <4> QED
        BY <2>3, <4>1
    <3> QED
      BY <3>1, <3>2
  <2>5. TreeKept'
    BY <2>1, <2>2, <2>4 DEF TreeKept
  <2>6. Shown'
    BY <1>1, <1>2, <2>2 DEF Shown, v, S
  <2> QED
    BY <1>2, <2>5, <2>6 DEF StatsInv
<1>3. ASSUME tab' \in Tables, NEW up \in BOOLEAN,
             table' = [table EXCEPT ![tab'] = Sorted(tab', Compute(tab', v, up), order'[tab'])],
             UNCHANGED <<tree, expanded, rows, graph>>
      PROVE  TreeKept' /\ DOMAIN table' = Tables /\ Shown'
  <2> DEFINE t == tab'
             by == order'[t]
             s == Compute(t, v, up)
  <2>1. by.column \in ColumnsOf(t) /\ by.ascending \in BOOLEAN
    <3>1. order'[t] \in [column : {"TotalPackets", "TotalBytes", "PacketsAtoB", "PacketsBtoA", "Duration",
                                    "TxPackets", "RxPackets", "TxBytes", "RxBytes"},
                          ascending : BOOLEAN]
      BY <1>3 DEF Settled, OrdersOf
    <3> QED
      BY <1>3, <3>1 DEF Settled
  <2>2. table'[t] = Sorted(t, s, by) /\ DOMAIN table' = Tables
    BY <1>3 DEF StatsInv
  <2>3. t \in Tables
    BY <1>3
  <2> HIDE DEF t, by, s
  <2>4. Lists(s, Rows(t, v))
    BY <1>0, <1>3, <2>3, ComputeIs DEF s
  <2>5. Lists(Sorted(t, s, by), Rows(t, v)) /\ InOrder(t, Sorted(t, s, by), by)
    BY <1>0, <2>1, <2>3, <2>4, SortedIs
  <2>6. Lists(table'[t], Rows(t, v)) /\ InOrder(t, table'[t], by)
    BY <2>2, <2>5
  <2>7. Shown'
    BY <1>1, <2>3, <2>6 DEF Shown, t, by, v
  <2>8. TreeKept'
    BY <1>3 DEF StatsInv, TreeKept
  <2> QED
    BY <2>2, <2>7, <2>8
<1>4. CASE /\ tab' = "graph" /\ graph' = IoGraph(v, buckets')
           /\ UNCHANGED <<tree, expanded, rows, table>>
  <2>1. TreeKept' /\ DOMAIN table' = Tables
    BY <1>4 DEF StatsInv, TreeKept
  <2>2. Shown'
    BY <1>1, <1>4 DEF Shown, v
  <2> QED
    BY <2>1, <2>2
<1>5. \/ tab' = "proto" /\ ComputeTree(v) /\ UNCHANGED <<table, graph>>
      \/ /\ tab' \in Tables /\ UNCHANGED <<tree, expanded, rows, graph>>
         /\ \E up \in BOOLEAN :
              table' = [table EXCEPT ![tab'] = Sorted(tab', Compute(tab', v, up), order'[tab'])]
      \/ tab' = "graph" /\ graph' = IoGraph(v, buckets') /\ UNCHANGED <<tree, expanded, rows, table>>
  BY DEF ComputeCurrentStats, v
<1> QED
  BY <1>2, <1>3, <1>4, <1>5

LEMMA NextColumnIs ==
  ASSUME NEW t \in Tables, NEW column \in ColumnsOf(t)
  PROVE  NextColumn(t, column) \in ColumnsOf(t)
<1> DEFINE C == Columns[t]
           n == CHOOSE i \in DOMAIN C : C[i] = column
<1>1. DOMAIN C = 1..Len(C) /\ Len(C) \in Nat \ {0}
  <2> DEFINE a == <<"TotalPackets", "TotalBytes", "PacketsAtoB", "PacketsBtoA", "Duration">>
             b == <<"TotalPackets", "TotalBytes", "TxPackets", "RxPackets", "TxBytes", "RxBytes">>
  <2>1. C = a \/ C = b
    BY DEF Columns, Tables
  <2>2. DOMAIN a = 1..Len(a) /\ Len(a) \in Nat \ {0}
    OBVIOUS
  <2>3. DOMAIN b = 1..Len(b) /\ Len(b) \in Nat \ {0}
    OBVIOUS
  <2> HIDE DEF a, b, C
  <2> QED
    BY <2>1, <2>2, <2>3
<1>2. n \in DOMAIN C
  BY DEF ColumnsOf
<1>3. NextColumn(t, column) = C[(n % Len(C)) + 1]
  BY DEF NextColumn
<1> HIDE DEF C, n
<1>4. (n % Len(C)) + 1 \in DOMAIN C
  BY <1>1, <1>2
<1> QED
  BY <1>3, <1>4 DEF ColumnsOf, C

LEMMA StatsBegin == StatsInit => StatsInv
<1> SUFFICES ASSUME StatsInit PROVE StatsInv
  OBVIOUS
<1> USE DEF StatsInit
<1>1. packets \in Seq(Arriving)
  OBVIOUS
<1>2. order \in OrdersOf
  BY DEF OrdersOf
<1>3. \A t \in Tables : order[t].column \in ColumnsOf(t)
  BY ColumnsAre DEF Tables
<1>4. TreeKept
  <2>1. Len(expanded) = Len(tree)
    OBVIOUS
  <2> QED
    BY <2>1, NoRows DEF TreeKept
<1>5. DOMAIN table = Tables /\ ~open
  OBVIOUS
<1> QED
  BY <1>1, <1>2, <1>3, <1>4, <1>5 DEF StatsInv, Settled

LEMMA StatsKept == StatsInv /\ [StatsNext]_statsVars => StatsInv'
<1> SUFFICES ASSUME StatsInv, [StatsNext]_statsVars PROVE StatsInv'
  OBVIOUS
<1>0. /\ packets \in Seq(Arriving) /\ order \in OrdersOf
      /\ \A t \in Tables : order[t].column \in ColumnsOf(t)
      /\ TreeKept /\ DOMAIN table = Tables /\ (open => Shown)
  BY DEF StatsInv, Settled
<1>1. ASSUME ComputeCurrentStats, UNCHANGED <<packets, order>> PROVE StatsInv'
  <2>1. Settled'
    BY <1>0, <1>1 DEF Settled
  <2> QED
    BY <1>1, <2>1, ComputedIs DEF StatsInv
<1>2. ASSUME UNCHANGED <<packets, filter, open, tab, aware, tree, expanded, rows, table, order, graph, buckets>>
      PROVE  StatsInv'
  BY <1>0, <1>2 DEF StatsInv, Settled, TreeKept, Shown
<1>3. CASE StatsArrive
  <2>1. packets' \in Seq(Arriving) /\ UNCHANGED <<filter, open, tab, aware, order, buckets>>
    <3>1. PICK batch \in {<<p>> : p \in Arriving} \union (Arriving \X Arriving) : packets' = packets \o batch
      BY <1>3 DEF StatsArrive
    <3>2. batch \in Seq(Arriving)
      <4>1. CASE batch \in {<<p>> : p \in Arriving}
        <5>1. PICK p \in Arriving : batch = <<p>>
          BY <4>1
        <5>2. <<p>> \in Seq(Arriving)
          OBVIOUS
        <5> QED
          BY <5>1, <5>2
      <4>2. CASE batch \in Arriving \X Arriving
        <5>1. PICK p \in Arriving, q \in Arriving : batch = <<p, q>>
          BY <4>2
        <5>2. <<p, q>> \in Seq(Arriving)
          OBVIOUS
        <5> QED
          BY <5>1, <5>2
      <4> QED
        BY <4>1, <4>2
    <3>3. packets' \in Seq(Arriving)
      BY <1>0, <3>1, <3>2
    <3> QED
      BY <1>3, <3>3 DEF StatsArrive, Settings
  <2>2. Settled'
    BY <1>0, <2>1 DEF Settled
  <2>3. CASE open
    <3>1. ComputeCurrentStats
      BY <1>3, <2>3 DEF StatsArrive
    <3> QED
      BY <2>2, <3>1, ComputedIs DEF StatsInv
  <2>4. CASE ~open
    <3>1. UNCHANGED <<tree, expanded, rows, table, graph>>
      BY <1>3, <2>4 DEF StatsArrive
    <3> QED
      BY <1>0, <2>1, <2>2, <2>4, <3>1 DEF StatsInv, TreeKept
  <2> QED
    BY <2>3, <2>4
<1>4. CASE StatsOpen
  BY <1>1, <1>4 DEF StatsOpen
<1>5. CASE StatsClose
  <2>1. TreeKept'
    <3>1. tree' = <<>> /\ expanded' = <<>> /\ rows' = <<>>
      BY <1>5 DEF StatsClose
    <3>2. Len(expanded') = Len(tree')
      BY <3>1
    <3> QED
      BY <3>1, <3>2, NoRows DEF TreeKept
  <2>2. Settled' /\ DOMAIN table' = Tables /\ ~open'
    BY <1>0, <1>5 DEF StatsClose, Settled
  <2> QED
    BY <2>1, <2>2 DEF StatsInv
<1>6. CASE StatsTurn
  BY <1>1, <1>6 DEF StatsTurn
<1>7. CASE StatsAware
  BY <1>1, <1>7 DEF StatsAware
<1>8. CASE StatsProtoMove
  BY <1>2, <1>8 DEF StatsProtoMove
<1>9. CASE StatsToggle
  <2>1. /\ expanded' = [expanded EXCEPT ![selected + 1] = ~@] /\ rows' = Flatten(tree, expanded')
        /\ UNCHANGED <<packets, filter, open, tab, aware, tree, table, order, graph, buckets>>
    BY <1>9 DEF StatsToggle
  <2>2. expanded \in Seq(BOOLEAN) /\ Len(expanded) = Len(tree)
    BY <1>0 DEF TreeKept
  <2>3. expanded' \in Seq(BOOLEAN) /\ Len(expanded') = Len(expanded)
    <3> DEFINE i == selected + 1
               x == ~expanded[i]
    <3>1. expanded' = [expanded EXCEPT ![i] = x] /\ x \in BOOLEAN
      BY <2>1
    <3> DEFINE c == Len(expanded)
    <3>2. c \in Nat /\ expanded \in [1..c -> BOOLEAN]
      BY <2>2
    <3> HIDE DEF i, x, c
    <3>3. expanded' \in [1..c -> BOOLEAN]
      BY <3>1, <3>2
    <3>4. expanded' \in Seq(BOOLEAN) /\ Len(expanded') = c
      BY <3>2, <3>3
    <3> QED
      BY <3>4 DEF c
  <2>4. TreeKept'
    BY <1>0, <2>1, <2>2, <2>3 DEF TreeKept
  <2> QED
    BY <1>0, <2>1, <2>4 DEF StatsInv, Settled, Shown
<1>10. CASE StatsTableMove
  BY <1>2, <1>10 DEF StatsTableMove
<1>11. CASE StatsSort
  <2> DEFINE v == View(packets, filter, aware)
             by == order'[tab]
             s == table[tab]
  <2>1. /\ open /\ tab \in Tables /\ table' = [table EXCEPT ![tab] = Sorted(tab, @, order'[tab])]
        /\ \/ order' = [order EXCEPT ![tab].column = NextColumn(tab, @)]
           \/ order' = [order EXCEPT ![tab].ascending = ~@]
        /\ UNCHANGED <<packets, filter, open, tab, aware, tree, expanded, rows, graph, buckets>>
    BY <1>11 DEF StatsSort
  <2>2. NextColumn(tab, order[tab].column) \in ColumnsOf(tab)
    BY <1>0, <2>1, NextColumnIs
  <2>3. order' \in OrdersOf /\ \A t \in Tables : order'[t].column \in ColumnsOf(t)
    <3>1. \A t \in Tables : ColumnsOf(t) \subseteq
            {"TotalPackets", "TotalBytes", "PacketsAtoB", "PacketsBtoA", "Duration",
             "TxPackets", "RxPackets", "TxBytes", "RxBytes"}
      BY ColumnsAre DEF Tables
    <3>2. CASE order' = [order EXCEPT ![tab].column = NextColumn(tab, @)]
      BY <1>0, <2>1, <2>2, <3>1, <3>2 DEF OrdersOf
    <3>3. CASE order' = [order EXCEPT ![tab].ascending = ~@]
      BY <1>0, <2>1, <3>3 DEF OrdersOf
    <3> QED
      BY <2>1, <3>2, <3>3
  <2>4. by.column \in ColumnsOf(tab) /\ by.ascending \in BOOLEAN
    <3>1. by \in [column : {"TotalPackets", "TotalBytes", "PacketsAtoB", "PacketsBtoA", "Duration",
                            "TxPackets", "RxPackets", "TxBytes", "RxBytes"},
                  ascending : BOOLEAN]
      BY <2>1, <2>3 DEF OrdersOf
    <3> QED
      BY <2>1, <2>3, <3>1
  <2>5. v \in Seq(Arriving) /\ Lists(s, Rows(tab, v))
    BY <1>0, <2>1, ViewIs DEF Shown
  <2>6. DOMAIN table' = Tables /\ table'[tab] = Sorted(tab, s, by)
    BY <1>0, <2>1
  <2> HIDE DEF v, by, s
  <2>7. Lists(Sorted(tab, s, by), Rows(tab, v)) /\ InOrder(tab, Sorted(tab, s, by), by)
    BY <2>1, <2>4, <2>5, SortedIs
  <2>8. Shown'
    <3>1. Lists(table'[tab], Rows(tab, v)) /\ InOrder(tab, table'[tab], by)
      BY <2>6, <2>7
    <3>2. tab # "proto" /\ tab # "graph"
      BY <2>1 DEF Tables
    <3> QED
      BY <2>1, <3>1, <3>2 DEF Shown, v, by
  <2>9. TreeKept' /\ packets' \in Seq(Arriving)
    BY <1>0, <2>1 DEF TreeKept
  <2> QED
    BY <2>3, <2>6, <2>8, <2>9 DEF StatsInv, Settled
<1>12. CASE StatsShowBytes
  BY <1>2, <1>12 DEF StatsShowBytes
<1>13. CASE StatsBuckets
  BY <1>1, <1>13 DEF StatsBuckets
<1>14. CASE StatsFilter
  BY <1>0, <1>14 DEF StatsFilter, StatsInv, Settled, TreeKept
<1>15. CASE UNCHANGED statsVars
  BY <1>2, <1>15 DEF statsVars
<1> QED
  BY <1>3, <1>4, <1>5, <1>6, <1>7, <1>8, <1>9, <1>10, <1>11, <1>12, <1>13, <1>14, <1>15 DEF StatsNext

LEMMA StatsHold == StatsInv => StatsSound
<1> SUFFICES ASSUME StatsInv PROVE StatsSound
  OBVIOUS
<1>0. packets \in Seq(Arriving) /\ TreeKept /\ (open => Shown)
  BY DEF StatsInv, Settled
<1>1. ShownIsCurrent
  <2> SUFFICES ASSUME open PROVE ShownIsCurrent
    BY DEF ShownIsCurrent
  <2> DEFINE v == View(packets, filter, aware)
  <2>1. tab = "proto" => /\ {tree[n] : n \in DOMAIN tree} = ProtoNodes(v)
                         /\ Len(expanded) = Len(tree) /\ rows = Flatten(tree, expanded)
    BY <1>0 DEF Shown, TreeKept
  <2>2. tab \in Tables => /\ {table[tab][n] : n \in DOMAIN table[tab]} = Rows(tab, v)
                          /\ Len(table[tab]) = Cardinality(Rows(tab, v))
    <3>1. tab \in Tables => Lists(table[tab], Rows(tab, v))
      BY <1>0 DEF Shown
    <3> HIDE DEF v
    <3> QED
      BY <3>1, ListedAll
  <2>3. tab = "graph" => graph = IoGraph(v, buckets)
    BY <1>0 DEF Shown
  <2> QED
    BY <2>1, <2>2, <2>3 DEF ShownIsCurrent
<1>2. TableSorted
  BY <1>0 DEF Shown, TableSorted, InOrder
<1>3. RowsUnderTheirNode
  <2>1. TreeLike(rows)
    <3>1. PICK S : Nodes(S) /\ tree \in Seq(S)
      BY <1>0 DEF TreeKept
    <3>2. TreeLike(Flatten(tree, expanded))
      BY <1>0, <3>1, FlattenIs DEF TreeKept
    <3> QED
      BY <1>0, <3>2 DEF TreeKept
  <2> QED
    BY <2>1 DEF TreeLike, DeeperAfter, RowsUnderTheirNode
<1>4. BothDirections /\ TablesAgree /\ GraphConserves /\ NoLayerLost
  BY <1>0, BothDirectionsHold, TablesAgreeHolds, GraphConservesHolds, NoLayerLostHolds
<1> QED
  BY <1>1, <1>2, <1>3, <1>4 DEF StatsSound

(* Whatever arrived, was turned to, switched, sorted, collapsed or asked   *)
(* for in the dialog, what it shows is the statistics of the packets in    *)
(* view, in order and under the nodes they belong to; and the four         *)
(* statistics agree with the packets and with each other (app.rs,          *)
(* stats/protocol.rs, conversations.rs, endpoints.rs, io_graph.rs).        *)
THEOREM StatsAreSound == StatsSpec => []StatsSound
<1>1. StatsInit => StatsInv
  BY StatsBegin
<1>2. StatsInv /\ [StatsNext]_statsVars => StatsInv'
  BY StatsKept
<1>3. StatsInv => StatsSound
  BY StatsHold
<1> QED
  BY <1>1, <1>2, <1>3, PTL DEF StatsSpec
=============================================================================
