---------------------------- MODULE Pure_proofs ----------------------------
(***************************************************************************)
(* Proofs about parts of the program that only compute.  AiCacheSpec, for  *)
(* any capacity, keys, slots and texts: the deque and the map of           *)
(* ai/model.rs agree, and together they are a cache with                   *)
(* least-recently-used replacement.  FastDissect, for any headers and any  *)
(* number of bytes captured.  FilterEval, for any packets, values and      *)
(* width of addresses.  Export, for any texts and any number of months.    *)
(***************************************************************************)
EXTENDS AiCacheSpec, FastDissect, Export, SequenceTheorems, FiniteSetTheorems, WellFoundedInduction, TLAPS

Entry == UNION {[S -> Texts] : S \in SUBSET Slots}
Map == UNION {[K -> Entry] : K \in SUBSET Keys}
IsCache(c) == c \in [entries : Map, order : Seq(Keys)]

(* What a deque of keys holds, that it holds it once, and what it says of  *)
(* the times of their last use.                                            *)
HeldIn(s) == {s[i] : i \in 1..Len(s)}
Once(s) == \A i, j \in 1..Len(s) : s[i] = s[j] => i = j
Recent(s, st) == \A i, j \in 1..Len(s) : i < j => st[s[i]] < st[s[j]]

(* Two keys stand in w as they do in s.                                    *)
Follows(w, s) ==
  \A i, j \in 1..Len(w) : i < j => \E a, b \in 1..Len(s) : a < b /\ w[i] = s[a] /\ w[j] = s[b]

Consistent(c) ==
  /\ IsCache(c)
  /\ HeldIn(c.order) = Cached(c) /\ Once(c.order)
  /\ IsFiniteSet(Cached(c)) /\ Cardinality(Cached(c)) <= Capacity

-----------------------------------------------------------------------------
(* The deque.                                                              *)

LEMMA WithoutKeeps ==
  ASSUME NEW s \in Seq(Keys), Once(s), NEW k
  PROVE  /\ Without(s, k) \in Seq(Keys)
         /\ HeldIn(Without(s, k)) = HeldIn(s) \ {k}
         /\ Once(Without(s, k)) /\ Follows(Without(s, k), s)
<1>1. CASE \A i \in 1..Len(s) : s[i] # k
  <2>1. Without(s, k) = s
    BY <1>1 DEF Without
  <2>2. k \notin HeldIn(s)
    BY <1>1 DEF HeldIn
  <2> QED
    BY <2>1, <2>2 DEF Follows
<1>2. ASSUME NEW p \in 1..Len(s), s[p] = k
      PROVE  /\ Without(s, k) \in Seq(Keys)
             /\ HeldIn(Without(s, k)) = HeldIn(s) \ {k}
             /\ Once(Without(s, k)) /\ Follows(Without(s, k), s)
  <2> DEFINE w == Without(s, k)
             up(i) == IF i < p THEN i ELSE i + 1
  <2>1. w = [i \in 1..(Len(s) - 1) |-> IF i < p THEN s[i] ELSE s[i + 1]]
    <3>1. \A i \in 1..Len(s) : s[i] = k => i = p
      BY <1>2 DEF Once
    <3>2. p = CHOOSE i \in 1..Len(s) : s[i] = k /\ \A j \in 1..(i - 1) : s[j] # k
      BY <1>2, <3>1
    <3> QED
      BY <1>2, <3>2 DEF Without
  <2>2. Len(s) \in Nat /\ Len(s) - 1 \in Nat
    OBVIOUS
  <2>3. \A i \in 1..(Len(s) - 1) : up(i) \in 1..Len(s) /\ up(i) # p /\ w[i] = s[up(i)] /\ w[i] \in Keys
    BY <2>1, <2>2
  <2>4. w \in Seq(Keys) /\ Len(w) = Len(s) - 1
    BY <2>1, <2>2, <2>3
  <2>5. \A i, j \in 1..(Len(s) - 1) : (up(i) = up(j) => i = j) /\ (i < j => up(i) < up(j))
    BY <2>2
  <2>6. ASSUME NEW a \in 1..Len(s), a # p
        PROVE  \E i \in 1..(Len(s) - 1) : up(i) = a
    <3>1. CASE a < p
      BY <2>2, <3>1
    <3>2. CASE a > p
      <4>1. a - 1 \in 1..(Len(s) - 1) /\ up(a - 1) = a
        BY <2>2, <3>2
      <4> QED
        BY <4>1
    <3> QED
      BY <2>2, <2>6, <3>1, <3>2
  <2> HIDE DEF w, up
  <2>7. HeldIn(w) = HeldIn(s) \ {k}
    <3>1. ASSUME NEW x \in HeldIn(w) PROVE x \in HeldIn(s) \ {k}
      <4>1. PICK i \in 1..(Len(s) - 1) : x = w[i]
        BY <2>4 DEF HeldIn
      <4>2. x = s[up(i)] /\ up(i) \in 1..Len(s) /\ up(i) # p
        BY <2>3, <4>1
      <4> QED
        BY <1>2, <4>2 DEF HeldIn, Once
    <3>2. ASSUME NEW x \in HeldIn(s), x # k PROVE x \in HeldIn(w)
      <4>1. PICK a \in 1..Len(s) : x = s[a]
        BY DEF HeldIn
      <4>2. PICK i \in 1..(Len(s) - 1) : up(i) = a
        BY <1>2, <2>6, <3>2, <4>1
      <4> QED
        BY <2>3, <2>4, <4>1, <4>2 DEF HeldIn
    <3> QED
      BY <3>1, <3>2
  <2>8. Once(w)
    BY <2>3, <2>4, <2>5 DEF Once
  <2>9. Follows(w, s)
    <3> SUFFICES ASSUME NEW i \in 1..(Len(s) - 1), NEW j \in 1..(Len(s) - 1), i < j
                 PROVE  \E a, b \in 1..Len(s) : a < b /\ w[i] = s[a] /\ w[j] = s[b]
      BY <2>4, SMTT(20) DEF Follows
    <3>1. /\ up(i) \in 1..Len(s) /\ up(j) \in 1..Len(s) /\ up(i) < up(j)
          /\ w[i] = s[up(i)] /\ w[j] = s[up(j)]
      BY <2>3, <2>5
    <3> QED
      BY <3>1
  <2> QED
    BY <2>4, <2>7, <2>8, <2>9 DEF w
<1> QED
  BY <1>1, <1>2

LEMMA AppendKeeps ==
  ASSUME NEW s \in Seq(Keys), Once(s), NEW k \in Keys, k \notin HeldIn(s)
  PROVE  /\ Append(s, k) \in Seq(Keys)
         /\ HeldIn(Append(s, k)) = HeldIn(s) \cup {k}
         /\ Once(Append(s, k))
<1>1. /\ Append(s, k) \in Seq(Keys) /\ Len(Append(s, k)) = Len(s) + 1 /\ Len(s) \in Nat
      /\ \A i \in 1..Len(s) : Append(s, k)[i] = s[i]
      /\ Append(s, k)[Len(s) + 1] = k
  BY AppendProperties
<1>2. \A i \in 1..Len(s) : s[i] # k
  BY DEF HeldIn
<1>3. 1..(Len(s) + 1) = 1..Len(s) \cup {Len(s) + 1}
  BY <1>1
<1>4. HeldIn(Append(s, k)) = HeldIn(s) \cup {k}
  BY <1>1, <1>3 DEF HeldIn
<1>5. Once(Append(s, k))
  BY <1>1, <1>2, <1>3 DEF Once
<1> QED
  BY <1>1, <1>4, <1>5

LEMMA TailKeeps ==
  ASSUME NEW s \in Seq(Keys), Once(s), s # <<>>
  PROVE  /\ Tail(s) \in Seq(Keys) /\ Head(s) \in HeldIn(s)
         /\ HeldIn(Tail(s)) = HeldIn(s) \ {Head(s)}
         /\ Once(Tail(s)) /\ Follows(Tail(s), s)
<1>1. /\ Tail(s) \in Seq(Keys) /\ Len(Tail(s)) = Len(s) - 1 /\ Len(s) \in Nat /\ Len(s) > 0
      /\ Head(s) = s[1]
      /\ \A i \in 1..(Len(s) - 1) : Tail(s)[i] = s[i + 1]
  BY HeadTailProperties, EmptySeq
<1>2. \A i \in 1..Len(s) : i # 1 => i - 1 \in 1..(Len(s) - 1) /\ Tail(s)[i - 1] = s[i] /\ s[i] # Head(s)
  BY <1>1 DEF Once
<1>3. \A i \in 1..(Len(s) - 1) : i + 1 \in 1..Len(s) /\ s[i + 1] # Head(s)
  BY <1>1, <1>2
<1>4. HeldIn(Tail(s)) = HeldIn(s) \ {Head(s)}
  <2>1. ASSUME NEW x \in HeldIn(Tail(s)) PROVE x \in HeldIn(s) \ {Head(s)}
    BY <1>1, <1>3 DEF HeldIn
  <2>2. ASSUME NEW x \in HeldIn(s), x # Head(s) PROVE x \in HeldIn(Tail(s))
    <3>1. PICK i \in 1..Len(s) : x = s[i]
      BY DEF HeldIn
    <3>2. i # 1
      BY <1>1, <2>2, <3>1
    <3> QED
      BY <1>1, <1>2, <3>1, <3>2 DEF HeldIn
  <2> QED
    BY <2>1, <2>2
<1>5. Once(Tail(s))
  BY <1>1, <1>3 DEF Once
<1>6. Follows(Tail(s), s)
  BY <1>1, <1>3 DEF Follows
<1>7. Head(s) \in HeldIn(s)
  BY <1>1 DEF HeldIn
<1> QED
  BY <1>1, <1>4, <1>5, <1>6, <1>7

Carried(K, st, st2, n) == \A x \in K : st[x] \in Nat /\ st[x] <= n /\ st2[x] = st[x]

(* The key that was used last goes behind those that were used before it.  *)
LEMMA RecencyKept ==
  ASSUME NEW s \in Seq(Keys), NEW w \in Seq(Keys), NEW st, NEW st2, NEW n \in Nat, NEW k \in Keys,
         Recent(s, st), Follows(w, s), k \notin HeldIn(w),
         Carried(HeldIn(w), st, st2, n), st2[k] = n + 1
  PROVE  Recent(Append(w, k), st2)
<1>1. /\ Len(Append(w, k)) = Len(w) + 1 /\ Len(w) \in Nat
      /\ \A i \in 1..Len(w) : Append(w, k)[i] = w[i] /\ w[i] \in HeldIn(w)
      /\ Append(w, k)[Len(w) + 1] = k
  BY AppendProperties DEF HeldIn
<1> SUFFICES ASSUME NEW i \in 1..(Len(w) + 1), NEW j \in 1..(Len(w) + 1), i < j
             PROVE  st2[Append(w, k)[i]] < st2[Append(w, k)[j]]
  BY <1>1 DEF Recent
<1>2. i \in 1..Len(w)
  BY <1>1
<1>3. CASE j = Len(w) + 1
  BY <1>1, <1>2, <1>3 DEF Carried
<1>4. CASE j \in 1..Len(w)
  <2>1. PICK a, b \in 1..Len(s) : a < b /\ w[i] = s[a] /\ w[j] = s[b]
    BY <1>2, <1>4 DEF Follows
  <2>2. st[w[i]] < st[w[j]]
    BY <2>1 DEF Recent
  <2> QED
    BY <1>1, <1>2, <1>4, <2>2 DEF Carried
<1>5. j = Len(w) + 1 \/ j \in 1..Len(w)
  BY <1>1
<1> QED
  BY <1>3, <1>4, <1>5

-----------------------------------------------------------------------------
(* The cache.                                                              *)

(* touch of a key that is there.                                           *)
LEMMA TouchKeeps ==
  ASSUME NEW c, Consistent(c), NEW k \in Cached(c)
  PROVE  /\ Touch(c, k) = [entries |-> c.entries, order |-> Append(Without(c.order, k), k)]
         /\ Consistent(Touch(c, k))
<1> DEFINE w == Without(c.order, k)
<1>1. c = [entries |-> c.entries, order |-> c.order] /\ c.entries \in Map /\ c.order \in Seq(Keys)
  BY DEF Consistent, IsCache
<1>2. k \in Keys
  BY <1>1 DEF Map, Cached
<1>3. w \in Seq(Keys) /\ HeldIn(w) = Cached(c) \ {k} /\ Once(w)
  BY <1>1, WithoutKeeps DEF Consistent
<1>4. Touch(c, k) = [entries |-> c.entries, order |-> Append(w, k)]
  <2>1. Touch(c, k) = [c EXCEPT !.order = Append(w, k)]
    BY DEF Touch
  <2> HIDE DEF w
  <2> QED
    BY <1>1, <2>1
<1>5. Append(w, k) \in Seq(Keys) /\ HeldIn(Append(w, k)) = Cached(c) /\ Once(Append(w, k))
  <2>1. k \notin HeldIn(w) /\ (Cached(c) \ {k}) \cup {k} = Cached(c)
    BY <1>3
  <2> HIDE DEF w
  <2> QED
    BY <1>2, <1>3, <2>1, AppendKeeps
<1>6. Cached(Touch(c, k)) = Cached(c) /\ Touch(c, k).order = Append(w, k) /\ IsCache(Touch(c, k))
  BY <1>1, <1>4, <1>5 DEF Cached, IsCache
<1> QED
  BY <1>4, <1>5, <1>6 DEF Consistent

(* The map with one more explanation, of a key that is there and of one    *)
(* that joins the keys K.                                                  *)
Updated(m, k, s, t) == [m EXCEPT ![k] = [x \in DOMAIN m[k] \cup {s} |-> IF x = s THEN t ELSE m[k][x]]]
Joined(m, K, k, s, t) == [x \in K \cup {k} |-> IF x = k THEN [y \in {s} |-> t] ELSE m[x]]

(* insert_whole and insert_field into an entry that is there.              *)
LEMMA InsertOld ==
  ASSUME NEW c, Consistent(c), NEW k \in Cached(c), NEW s \in Slots, NEW t \in Texts
  PROVE  /\ Insert(c, k, s, t).entries = Updated(c.entries, k, s, t)
         /\ Insert(c, k, s, t).order = Append(Without(c.order, k), k)
         /\ Consistent(Insert(c, k, s, t))
<1> DEFINE e == Touch(c, k)
           new == [x \in DOMAIN c.entries[k] \cup {s} |-> IF x = s THEN t ELSE c.entries[k][x]]
<1>1. e = [entries |-> c.entries, order |-> Append(Without(c.order, k), k)] /\ Consistent(e)
  BY TouchKeeps
<1>2. PICK K \in SUBSET Keys : c.entries \in [K -> Entry] /\ k \in K /\ Cached(c) = K
  BY DEF Consistent, IsCache, Map, Cached
<1>3. new \in Entry
  <2>1. PICK S \in SUBSET Slots : c.entries[k] \in [S -> Texts]
    <3>1. c.entries[k] \in Entry
      BY <1>2
    <3> QED
      BY <3>1, Zenon DEF Entry
  <2>2. new \in [S \cup {s} -> Texts] /\ S \cup {s} \in SUBSET Slots
    BY <2>1
  <2> QED
    BY <2>2 DEF Entry
<1>4. EnsureEntry(c, k) = e
  BY DEF EnsureEntry
<1>5. Insert(c, k, s, t) = [e EXCEPT !.entries[k] = new]
  BY <1>1, <1>4 DEF Insert
<1> HIDE DEF e, new
<1>6. Insert(c, k, s, t) = [entries |-> [c.entries EXCEPT ![k] = new], order |-> e.order]
  BY <1>1, <1>5
<1>7. [c.entries EXCEPT ![k] = new] \in [K -> Entry]
  BY <1>2, <1>3
<1>8. IsCache(Insert(c, k, s, t)) /\ Cached(Insert(c, k, s, t)) = Cached(e)
  BY <1>1, <1>2, <1>6, <1>7 DEF IsCache, Map, Consistent, Cached
<1>9. Consistent(Insert(c, k, s, t))
  BY <1>1, <1>6, <1>8 DEF Consistent
<1> QED
  BY <1>1, <1>6, <1>9 DEF new, Updated

(* What evict_if_full leaves.                                              *)
Kept(c) == IF IsFull(c) THEN Cached(c) \ {Head(c.order)} ELSE Cached(c)
KeptOrder(c) == IF IsFull(c) THEN Tail(c.order) ELSE c.order

LEMMA FullNotEmpty ==
  ASSUME NEW c, Consistent(c), IsFull(c)
  PROVE  c.order # <<>> /\ Head(c.order) \in Cached(c)
<1>1. Cached(c) # {}
  BY CapacityAssumption, FS_EmptySet DEF IsFull
<1>2. c.order \in Seq(Keys) /\ c.order # <<>>
  BY <1>1 DEF Consistent, IsCache, HeldIn
<1> QED
  BY <1>2, TailKeeps DEF Consistent

LEMMA EvictKeeps ==
  ASSUME NEW c, Consistent(c)
  PROVE  /\ EvictIfFull(c) = [entries |-> [x \in Kept(c) |-> c.entries[x]], order |-> KeptOrder(c)]
         /\ KeptOrder(c) \in Seq(Keys) /\ HeldIn(KeptOrder(c)) = Kept(c)
         /\ Once(KeptOrder(c)) /\ Follows(KeptOrder(c), c.order)
         /\ Kept(c) \subseteq Cached(c) /\ Cached(c) \subseteq Keys
         /\ IsFiniteSet(Kept(c)) /\ Cardinality(Kept(c)) + 1 <= Capacity
<1>1. c = [entries |-> c.entries, order |-> c.order] /\ c.order \in Seq(Keys)
      /\ c.entries = [x \in Cached(c) |-> c.entries[x]] /\ Cached(c) \subseteq Keys
  BY DEF Consistent, IsCache, Map, Cached
<1>2. Cardinality(Cached(c)) \in Nat /\ Capacity \in Nat
  BY FS_CardinalityType, CapacityAssumption DEF Consistent
<1>3. CASE IsFull(c)
  <2>1. c.order # <<>> /\ Head(c.order) \in Cached(c)
    BY <1>3, FullNotEmpty
  <2>2. EvictIfFull(c) = Evict(c) /\ Kept(c) = Cached(c) \ {Head(c.order)} /\ KeptOrder(c) = Tail(c.order)
    BY <1>3, <2>1 DEF EvictIfFull, Kept, KeptOrder
  <2>3. IsFiniteSet(Kept(c)) /\ Cardinality(Kept(c)) = Cardinality(Cached(c)) - 1
    BY <2>1, <2>2, FS_RemoveElement DEF Consistent
  <2>4. Tail(c.order) \in Seq(Keys) /\ HeldIn(Tail(c.order)) = HeldIn(c.order) \ {Head(c.order)}
        /\ Once(Tail(c.order)) /\ Follows(Tail(c.order), c.order)
    BY <1>1, <2>1, TailKeeps DEF Consistent
  <2> QED
    BY <1>1, <1>2, <2>2, <2>3, <2>4 DEF Consistent, Evict
<1>4. CASE ~IsFull(c)
  <2>1. EvictIfFull(c) = c /\ Kept(c) = Cached(c) /\ KeptOrder(c) = c.order
    BY <1>4 DEF EvictIfFull, Kept, KeptOrder
  <2>2. Cardinality(Cached(c)) + 1 <= Capacity
    BY <1>2, <1>4 DEF IsFull
  <2>3. Follows(c.order, c.order)
    BY DEF Follows
  <2> QED
    BY <1>1, <2>1, <2>2, <2>3 DEF Consistent
<1> QED
  BY <1>3, <1>4

LEMMA EntrySet ==
  ASSUME NEW e, NEW m, NEW o, NEW k, NEW v, e = [entries |-> m, order |-> o]
  PROVE  [e EXCEPT !.entries[k] = v] = [entries |-> [m EXCEPT ![k] = v], order |-> o]
  OBVIOUS

LEMMA NotThere ==
  ASSUME NEW s \in Seq(Keys), NEW k, k \notin HeldIn(s)
  PROVE  Without(s, k) = s
  BY DEF Without, HeldIn

(* insert_whole and insert_field of a packet that has no entry.            *)
LEMMA InsertNew ==
  ASSUME NEW c, Consistent(c), NEW k \in Keys \ Cached(c), NEW s \in Slots, NEW t \in Texts
  PROVE  /\ Insert(c, k, s, t).entries = Joined(c.entries, Kept(c), k, s, t)
         /\ Insert(c, k, s, t).order = Append(KeptOrder(c), k)
         /\ Consistent(Insert(c, k, s, t))
<1> DEFINE kept == Kept(c)
           order == KeptOrder(c)
           old == [x \in kept |-> c.entries[x]]
           bare == [x \in kept \cup {k} |-> IF x = k THEN NoTexts ELSE old[x]]
           one == [y \in {s} |-> t]
           all == [x \in kept \cup {k} |-> IF x = k THEN one ELSE c.entries[x]]
<1>1. /\ EvictIfFull(c) = [entries |-> old, order |-> order]
      /\ order \in Seq(Keys) /\ HeldIn(order) = kept /\ Once(order)
      /\ kept \subseteq Cached(c) /\ Cached(c) \subseteq Keys
      /\ IsFiniteSet(kept) /\ Cardinality(kept) + 1 <= Capacity
  BY EvictKeeps
<1> HIDE DEF kept, order
<1>2. k \notin kept /\ Without(order, k) = order
  BY <1>1, NotThere
<1>3. EnsureEntry(c, k) = [entries |-> bare, order |-> Append(order, k)]
  <2>1. Cached(EvictIfFull(c)) = kept
    BY <1>1 DEF Cached
  <2>2. EnsureEntry(c, k) =
          Touch([EvictIfFull(c) EXCEPT !.entries =
                   [x \in Cached(EvictIfFull(c)) \cup {k} |->
                      IF x = k THEN NoTexts ELSE EvictIfFull(c).entries[x]]], k)
    BY DEF EnsureEntry
  <2>3. EvictIfFull(c).entries = old
    BY <1>1
  <2>4. [x \in Cached(EvictIfFull(c)) \cup {k} |-> IF x = k THEN NoTexts ELSE EvictIfFull(c).entries[x]] = bare
    BY <2>1, <2>3
  <2>5. EnsureEntry(c, k) = Touch([EvictIfFull(c) EXCEPT !.entries = bare], k)
    BY <2>2, <2>4
  <2> HIDE DEF old, bare
  <2>6. EnsureEntry(c, k) = Touch([entries |-> bare, order |-> order], k)
    BY <1>1, <2>5
  <2> QED
    BY <1>2, <2>6 DEF Touch
<1>4. Insert(c, k, s, t) = [entries |-> all, order |-> Append(order, k)]
  <2>1. bare[k] = NoTexts /\ DOMAIN NoTexts = {}
    BY DEF NoTexts
  <2>2. [x \in DOMAIN bare[k] \cup {s} |-> IF x = s THEN t ELSE bare[k][x]] = one
    BY <2>1
  <2>3. [bare EXCEPT ![k] = one] = all
    BY <1>2
  <2>4. Insert(c, k, s, t) = [EnsureEntry(c, k) EXCEPT !.entries[k] = one]
    <3>1. EnsureEntry(c, k).entries = bare
      BY <1>3
    <3> QED
      BY <2>2, <3>1 DEF Insert
  <2> HIDE DEF bare, all, one
  <2>5. Insert(c, k, s, t) = [entries |-> [bare EXCEPT ![k] = one], order |-> Append(order, k)]
    <3> DEFINE e == EnsureEntry(c, k)
               o == Append(order, k)
    <3>1. e = [entries |-> bare, order |-> o] /\ Insert(c, k, s, t) = [e EXCEPT !.entries[k] = one]
      BY <1>3, <2>4
    <3> HIDE DEF e, o
    <3>2. [e EXCEPT !.entries[k] = one] = [entries |-> [bare EXCEPT ![k] = one], order |-> o]
      BY <3>1, EntrySet
    <3>3. Insert(c, k, s, t) = [entries |-> [bare EXCEPT ![k] = one], order |-> o]
      BY <3>1, <3>2
    <3> QED
      BY <3>3 DEF o
  <2> QED
    BY <2>3, <2>5
<1>5. all \in [kept \cup {k} -> Entry] /\ kept \cup {k} \in SUBSET Keys
  <2>1. [y \in {s} |-> t] \in Entry
    <3>1. [y \in {s} |-> t] \in [{s} -> Texts] /\ {s} \in SUBSET Slots
      OBVIOUS
    <3> QED
      BY <3>1, Zenon DEF Entry
  <2>2. \A x \in kept : c.entries[x] \in Entry
    BY <1>1 DEF Consistent, IsCache, Map, Cached
  <2> QED
    BY <1>1, <2>1, <2>2
<1>6. Append(order, k) \in Seq(Keys) /\ HeldIn(Append(order, k)) = kept \cup {k} /\ Once(Append(order, k))
  BY <1>1, <1>2, AppendKeeps
<1>7. IsFiniteSet(kept \cup {k}) /\ Cardinality(kept \cup {k}) <= Capacity
  BY <1>1, <1>2, FS_AddElement
<1>8. IsCache(Insert(c, k, s, t)) /\ Cached(Insert(c, k, s, t)) = kept \cup {k}
  <2>1. all \in Map /\ DOMAIN all = kept \cup {k}
    BY <1>5, Zenon DEF Map
  <2> HIDE DEF all
  <2> QED
    BY <1>4, <1>6, <2>1 DEF IsCache, Cached
<1>9. Insert(c, k, s, t).order = Append(order, k) /\ Insert(c, k, s, t).entries = all
  BY <1>4
<1>10. Consistent(Insert(c, k, s, t))
  BY <1>6, <1>7, <1>8, <1>9 DEF Consistent
<1> QED
  BY <1>9, <1>10 DEF kept, order, Joined

-----------------------------------------------------------------------------
(* The specification.                                                      *)

(* Every cached key has a time of last use, none of them in the future,    *)
(* and the deque runs in the order of these times.                         *)
Stamps ==
  /\ now \in Nat
  /\ DOMAIN stamp = Cached(cache)
  /\ \A k \in Cached(cache) : stamp[k] \in Nat /\ stamp[k] <= now
  /\ Recent(cache.order, stamp)

(* An entry that is kept has something to show.                            *)
NoneBare == \A k \in Cached(cache) : DOMAIN cache.entries[k] # {}

CacheInv == Consistent(cache) /\ Stamps /\ NoneBare

LEMMA EmptyConsistent == Consistent(Empty) /\ Cached(Empty) = {} /\ Empty.order = <<>> /\ Empty.entries = <<>>
<1>1. Empty.order = <<>> /\ Empty.entries = <<>> /\ Cached(Empty) = {} /\ HeldIn(<<>>) = {}
  BY DEF Empty, Cached, HeldIn
<1>2. <<>> \in Map
  <2>1. <<>> \in [{} -> Entry] /\ {} \in SUBSET Keys
    OBVIOUS
  <2> QED
    BY <2>1, Zenon DEF Map
<1>3. IsCache(Empty)
  BY <1>2 DEF IsCache, Empty
<1>4. IsFiniteSet({}) /\ Cardinality({}) <= Capacity
  BY FS_EmptySet, CapacityAssumption
<1>5. Once(<<>>)
  BY DEF Once
<1> QED
  BY <1>1, <1>3, <1>4, <1>5 DEF Consistent

LEMMA CacheInitially == Init => CacheInv
  BY EmptyConsistent DEF Init, CacheInv, Stamps, NoneBare, Recent

(* A key is used: it goes to the back of the deque w, whose other keys     *)
(* keep their places and their times.                                      *)
LEMMA UseStep ==
  ASSUME CacheInv, NEW k \in Keys, Used(k), NEW w \in Seq(Keys), Follows(w, cache.order),
         Consistent(cache'), cache'.order = Append(w, k), k \notin HeldIn(w),
         HeldIn(w) \subseteq Cached(cache)
  PROVE  Stamps'
<1>1. Cached(cache') = HeldIn(w) \cup {k}
  <2>1. Len(Append(w, k)) = Len(w) + 1 /\ Len(w) \in Nat /\ Append(w, k)[Len(w) + 1] = k
        /\ \A i \in 1..Len(w) : Append(w, k)[i] = w[i]
    BY AppendProperties
  <2>2. 1..(Len(w) + 1) = 1..Len(w) \cup {Len(w) + 1}
    BY <2>1
  <2> QED
    BY <2>1, <2>2 DEF Consistent, HeldIn
<1>2. now \in Nat /\ now' = now + 1 /\ stamp' = [x \in Cached(cache') |-> IF x = k THEN now + 1 ELSE stamp[x]]
  BY DEF Used, CacheInv, Stamps
<1>3. Carried(HeldIn(w), stamp, stamp', now)
  BY <1>1, <1>2 DEF CacheInv, Stamps, Carried
<1>4. stamp'[k] = now + 1
  BY <1>1, <1>2
<1>5. cache.order \in Seq(Keys) /\ Recent(cache.order, stamp)
  BY DEF CacheInv, Consistent, IsCache, Stamps
<1>6. Recent(Append(w, k), stamp')
  BY <1>2, <1>3, <1>4, <1>5, RecencyKept
<1>7. \A x \in Cached(cache') : stamp'[x] \in Nat /\ stamp'[x] <= now'
  BY <1>1, <1>2, <1>3, <1>4 DEF Carried
<1> QED
  BY <1>2, <1>6, <1>7 DEF Stamps

(* The step of the abstract cache that a step of AiCache is.               *)
LEMMA LookUpStep ==
  ASSUME CacheInv, NEW k \in Keys, LookUp(k)
  PROVE  CacheInv' /\ (UNCHANGED <<cache.entries, stamp, now>> \/ Lru!Use(k))
<1>1. CASE k \notin Cached(cache)
  BY <1>1 DEF LookUp, Get, CacheInv, Stamps, NoneBare
<1>2. CASE k \in Cached(cache)
  <2>1. cache' = Touch(cache, k) /\ Used(k)
    BY <1>2 DEF LookUp, Get
  <2>2. Consistent(cache') /\ cache'.entries = cache.entries /\ cache'.order = Append(Without(cache.order, k), k)
    BY <1>2, <2>1, TouchKeeps DEF CacheInv
  <2>3. Cached(cache') = Cached(cache) /\ NoneBare'
    BY <2>2 DEF Cached, CacheInv, NoneBare
  <2>4. cache.order \in Seq(Keys) /\ Once(cache.order) /\ HeldIn(cache.order) = Cached(cache)
    BY DEF CacheInv, Consistent, IsCache
  <2>5. /\ Without(cache.order, k) \in Seq(Keys) /\ Follows(Without(cache.order, k), cache.order)
        /\ HeldIn(Without(cache.order, k)) = Cached(cache) \ {k}
    BY <2>4, WithoutKeeps
  <2>6. Stamps'
    BY <2>1, <2>2, <2>5, UseStep
  <2>7. Lru!Use(k)
    BY <1>2, <2>1, <2>2, <2>3 DEF Lru!Use, Lru!Held, Lru!Stamped, Used, Cached
  <2> QED
    BY <2>2, <2>3, <2>6, <2>7 DEF CacheInv
<1> QED
  BY <1>1, <1>2

LEMMA InsertOldStep ==
  ASSUME CacheInv, NEW k \in Cached(cache), NEW s \in Slots, NEW t \in Texts, InsertText(k, s, t)
  PROVE  CacheInv' /\ Lru!Update(k, s, t)
<1>1. cache' = Insert(cache, k, s, t) /\ Used(k)
  BY DEF InsertText
<1>2. /\ Consistent(cache') /\ cache'.order = Append(Without(cache.order, k), k)
      /\ cache'.entries = Updated(cache.entries, k, s, t)
  BY <1>1, InsertOld DEF CacheInv
<1>3. Cached(cache') = Cached(cache)
  BY <1>2 DEF Cached, Updated
<1>4. cache.order \in Seq(Keys) /\ Once(cache.order) /\ HeldIn(cache.order) = Cached(cache) /\ k \in Keys
  BY DEF CacheInv, Consistent, IsCache, Map, Cached
<1>5. /\ Without(cache.order, k) \in Seq(Keys) /\ Follows(Without(cache.order, k), cache.order)
      /\ HeldIn(Without(cache.order, k)) = Cached(cache) \ {k}
  BY <1>4, WithoutKeeps
<1>6. Stamps'
  BY <1>1, <1>2, <1>4, <1>5, UseStep
<1>7. NoneBare'
  <2>1. \A x \in Cached(cache) : x # k => cache'.entries[x] = cache.entries[x]
    BY <1>2 DEF Updated
  <2>2. s \in DOMAIN cache'.entries[k]
    BY <1>2 DEF Cached, Updated
  <2> QED
    BY <1>3, <2>1, <2>2 DEF NoneBare, CacheInv
<1>8. Lru!Update(k, s, t)
  BY <1>1, <1>2, <1>3 DEF Updated, Lru!Update, Lru!Held, Lru!Stamped, Used, Cached
<1> QED
  BY <1>2, <1>6, <1>7, <1>8 DEF CacheInv

(* The key that makes room is the one used longest ago.                    *)
LEMMA HeadOldest ==
  ASSUME CacheInv, IsFull(cache)
  PROVE  Head(cache.order) \in Cached(cache)
         /\ \A x \in Cached(cache) : stamp[Head(cache.order)] <= stamp[x]
<1>1. cache.order # <<>> /\ Head(cache.order) \in Cached(cache)
  BY FullNotEmpty DEF CacheInv
<1>2. cache.order \in Seq(Keys) /\ HeldIn(cache.order) = Cached(cache) /\ Recent(cache.order, stamp)
  BY DEF CacheInv, Consistent, IsCache, Stamps
<1>3. Head(cache.order) = cache.order[1] /\ Len(cache.order) \in Nat /\ Len(cache.order) > 0
  BY <1>1, <1>2, HeadTailProperties, EmptySeq
<1>4. ASSUME NEW x \in Cached(cache) PROVE stamp[Head(cache.order)] <= stamp[x]
  <2>1. PICK i \in 1..Len(cache.order) : x = cache.order[i]
    BY <1>2 DEF HeldIn
  <2>2. stamp[x] \in Nat
    BY DEF CacheInv, Stamps
  <2> QED
    BY <1>2, <1>3, <1>1, <2>1, <2>2 DEF Recent, CacheInv, Stamps
<1> QED
  BY <1>1, <1>4

LEMMA InsertNewStep ==
  ASSUME CacheInv, NEW k \in Keys \ Cached(cache), NEW s \in Slots, NEW t \in Texts, InsertText(k, s, t)
  PROVE  CacheInv' /\ Lru!Add(k, s, t)
<1>1. cache' = Insert(cache, k, s, t) /\ Used(k)
  BY DEF InsertText
<1>2. /\ Consistent(cache') /\ cache'.order = Append(KeptOrder(cache), k)
      /\ cache'.entries = Joined(cache.entries, Kept(cache), k, s, t)
  BY <1>1, InsertNew DEF CacheInv
<1>3. Cached(cache') = Kept(cache) \cup {k}
  BY <1>2 DEF Cached, Joined
<1>4. /\ KeptOrder(cache) \in Seq(Keys) /\ HeldIn(KeptOrder(cache)) = Kept(cache)
      /\ Follows(KeptOrder(cache), cache.order) /\ Kept(cache) \subseteq Cached(cache)
  BY EvictKeeps DEF CacheInv
<1>5. Stamps'
  BY <1>1, <1>2, <1>4, UseStep
<1>6. NoneBare'
  BY <1>2, <1>3, <1>4 DEF NoneBare, CacheInv, Joined
<1>7. Lru!Stay(Kept(cache))
  <2>1. Cardinality(Cached(cache)) \in Nat /\ Capacity \in Nat
    BY FS_CardinalityType, CapacityAssumption DEF CacheInv, Consistent
  <2>2. CASE IsFull(cache)
    <3>1. Kept(cache) = Cached(cache) \ {Head(cache.order)} /\ ~(Cardinality(Cached(cache)) < Capacity)
      BY <2>1, <2>2 DEF Kept, IsFull
    <3> QED
      BY <2>2, <3>1, HeadOldest DEF Lru!Stay, Lru!Held, Cached, Lru!Cardinality, Cardinality
  <2>3. CASE ~IsFull(cache)
    <3>1. Kept(cache) = Cached(cache) /\ Cardinality(Cached(cache)) < Capacity
      BY <2>1, <2>3 DEF Kept, IsFull
    <3> QED
      BY <3>1 DEF Lru!Stay, Lru!Held, Cached, Lru!Cardinality, Cardinality
  <2> QED
    BY <2>2, <2>3
<1>8. stamp' = Lru!Stamped(Kept(cache) \cup {k}, k) /\ now' = now + 1
  BY <1>1, <1>3 DEF Used, Lru!Stamped
<1>9. Lru!Add(k, s, t)
  BY <1>2, <1>4, <1>7, <1>8 DEF Joined, Lru!Add, Lru!Held, Cached
<1> QED
  BY <1>2, <1>5, <1>6, <1>9 DEF CacheInv

LEMMA CacheStep == CacheInv /\ [Next]_vars => CacheInv' /\ [Lru!Next]_(Lru!lruVars)
<1> SUFFICES ASSUME CacheInv, [Next]_vars PROVE CacheInv' /\ [Lru!Next]_(Lru!lruVars)
  OBVIOUS
<1>1. ASSUME NEW k \in Keys, NEW s \in Slots, NEW t \in Texts, InsertText(k, s, t)
      PROVE  CacheInv' /\ [Lru!Next]_(Lru!lruVars)
  BY <1>1, InsertOldStep, InsertNewStep DEF Lru!Next
<1>2. ASSUME NEW k \in Keys, LookUp(k)
      PROVE  CacheInv' /\ [Lru!Next]_(Lru!lruVars)
  BY <1>2, LookUpStep DEF Lru!Next, Lru!lruVars
<1>3. CASE Clear
  <2>1. CacheInv'
    BY <1>3, EmptyConsistent DEF Clear, CacheInv, Stamps, NoneBare, Recent
  <2>2. Lru!Clear
    BY <1>3, EmptyConsistent DEF Clear, Lru!Clear
  <2> QED
    BY <2>1, <2>2 DEF Lru!Next
<1>4. CASE UNCHANGED vars
  BY <1>4 DEF vars, CacheInv, Stamps, NoneBare, Lru!lruVars
<1> QED
  BY <1>1, <1>2, <1>3, <1>4 DEF Next

LEMMA CacheInvariant == Spec => []CacheInv
  BY CacheInitially, CacheStep, PTL DEF Spec

(* The deque and the map of AiCache name the same packets, each once; the  *)
(* map never holds more than the capacity (ensure_entry, touch,            *)
(* evict_if_full), and the deque runs from the least recently used packet  *)
(* to the most recently used one.                                          *)
THEOREM DequeAgrees == Spec => [](TypeOK /\ OrderListsEntries /\ SizeBounded /\ OrderIsRecency)
<1>1. ASSUME CacheInv PROVE TypeOK
  <2>1. /\ cache \in [entries : Map, order : Seq(Keys)] /\ DOMAIN stamp = Cached(cache) /\ now \in Nat
        /\ NoneBare
    BY <1>1 DEF CacheInv, Consistent, IsCache, Stamps
  <2>2. PICK K \in SUBSET Keys : cache.entries \in [K -> Entry] /\ Cached(cache) = K
    BY <2>1 DEF Map, Cached
  <2>3. ASSUME NEW k \in Cached(cache)
        PROVE  /\ DOMAIN cache.entries[k] \in (SUBSET Slots) \ {{}}
               /\ \A s \in DOMAIN cache.entries[k] : cache.entries[k][s] \in Texts
    <3>1. cache.entries[k] \in Entry
      BY <2>2
    <3>2. PICK S \in SUBSET Slots : cache.entries[k] \in [S -> Texts]
      BY <3>1, Zenon DEF Entry
    <3> QED
      BY <2>1, <3>2 DEF NoneBare
  <2> QED
    BY <2>1, <2>2, <2>3 DEF TypeOK
<1>2. CacheInv => OrderListsEntries /\ SizeBounded /\ OrderIsRecency
  BY DEF CacheInv, Consistent, Stamps, OrderListsEntries, SizeBounded, OrderIsRecency, HeldIn, Once, Recent
<1> QED
  BY <1>1, <1>2, CacheInvariant, PTL

(* The cache of explanations replaces the explanation used longest ago,    *)
(* and no other (evict_if_full pops the front of the deque): it is a cache *)
(* with least-recently-used replacement.                                   *)
THEOREM LeastRecentlyUsed == Spec => LruSpec
<1>1. Init => Lru!Init
  BY EmptyConsistent DEF Init, Lru!Init
<1> QED
  BY <1>1, CacheStep, CacheInvariant, PTL DEF Spec, LruSpec, Lru!Spec

-----------------------------------------------------------------------------
(* The fast dissection of a packet.                                        *)

FrameInv == frame = [x \in Header |-> frame[x]] /\ FrameOK(frame)

(* Lengths are numbers, whatever the packet.                               *)
LEMMA Lengths ==
  ASSUME NEW f, FrameOK(f)
  PROVE  /\ PflogLength(f) \in Nat
         /\ LinkLength(f) \in Nat /\ NetLength(f) \in Nat /\ Whole(f) \in Nat
         /\ f.net = "ip4" => NetLength(f) >= 20
<1>1. PflogLength(f) \in Nat
  BY DEF PflogLength, FrameOK
<1>2. LinkLength(f) \in Nat
  BY <1>1 DEF LinkLength, FrameOK, LinkTypes
<1>3. NetLength(f) \in Nat /\ (f.net = "ip4" => NetLength(f) >= 20)
  BY DEF NetLength, FrameOK
<1> QED
  BY <1>1, <1>2, <1>3 DEF Whole

LEMMA FrameInitially == FastInit => FrameInv
BY FrameAssumption DEF FastInit, FrameInv

LEMMA FrameStep == FrameInv /\ [Cut]_frame => FrameInv'
<1> SUFFICES ASSUME FrameInv, [Cut]_frame PROVE FrameInv'
  OBVIOUS
<1>1. CASE UNCHANGED frame
  BY <1>1 DEF FrameInv, FrameOK, LinkLength, NetLength, PflogLength, Whole
<1>2. CASE Cut
  <2>1. PICK n \in 0..Whole(frame) : frame' = [frame EXCEPT !.captured = n]
    BY <1>2 DEF Cut
  <2>2. frame' = [x \in Header |-> IF x = "captured" THEN n ELSE frame[x]]
    BY <2>1 DEF FrameInv, Header
  <2>3. /\ frame'.link = frame.link /\ frame'.vlans = frame.vlans /\ frame'.net = frame.net
        /\ frame'.ihl = frame.ihl /\ frame'.transport = frame.transport /\ frame'.header = frame.header
        /\ frame'.srcPort = frame.srcPort /\ frame'.dstPort = frame.dstPort
        /\ frame'.flags = frame.flags /\ frame'.captured = n
    BY <2>2 DEF Header
  <2>4. Whole(frame') = Whole(frame)
    BY <2>3 DEF Whole, LinkLength, NetLength, PflogLength
  <2>5. FrameOK(frame')
    BY <2>3, <2>4, <2>1 DEF FrameInv, FrameOK
  <2>6. frame' = [x \in Header |-> frame'[x]]
    BY <2>2
  <2> QED
    BY <2>5, <2>6 DEF FrameInv
<1> QED
  BY <1>1, <1>2

(* What the headers that are found can be.                                 *)
LEMMA SlicedSorts ==
  ASSUME NEW f, FrameOK(f)
  PROVE  /\ Sliced(f).ok \in BOOLEAN /\ Parsed(f).ok \in BOOLEAN
         /\ Sliced(f).net \in {"ip4", "ip6", "none"}
         /\ Sliced(f).transport \in {"tcp", "udp", "icmp4", "icmp6", "none"}
         /\ Sliced(f).net # "none" => Sliced(f).net = f.net /\ f.captured >= Whole(f)
         /\ Sliced(f).transport # "none" => Sliced(f).transport = f.transport /\ Sliced(f).net # "none"
         /\ Sliced(f).ok => f.captured >= LinkLength(f)
<1>1. LinkLength(f) \in Nat /\ NetLength(f) \in Nat /\ f.captured \in Int
  BY Lengths DEF FrameOK
<1>2. f.captured >= Whole(f) => f.captured >= LinkLength(f)
  BY <1>1 DEF Whole
<1> QED
  BY <1>2 DEF Sliced, Parsed, FrameOK

(* The layers.                                                             *)
LayerNames == {"pflog", "enc", "null", "ethernet", "sll", "ip4", "ip6", "tcp", "udp", "icmp4", "icmp6"}
Layer == [name : LayerNames, ranges : SUBSET (Int \X Int)]
NamesIn(S) == {x.name : x \in S}

LEMMA RangeJoined ==
  ASSUME NEW S, NEW s \in Seq(S), NEW t \in Seq(S)
  PROVE  Range(s \o t) = Range(s) \union Range(t)
<1>1. /\ DOMAIN (s \o t) = 1..(Len(s) + Len(t)) /\ DOMAIN s = 1..Len(s) /\ DOMAIN t = 1..Len(t)
      /\ Len(s) \in Nat /\ Len(t) \in Nat
  OBVIOUS
<1>2. ASSUME NEW i \in 1..(Len(s) + Len(t))
      PROVE  (s \o t)[i] = IF i <= Len(s) THEN s[i] ELSE t[i - Len(s)]
  OBVIOUS
<1>3. ASSUME NEW x \in Range(s \o t) PROVE x \in Range(s) \union Range(t)
  <2>1. PICK i \in 1..(Len(s) + Len(t)) : x = (s \o t)[i]
    BY <1>1 DEF Range
  <2>2. CASE i <= Len(s)
    <3>1. i \in DOMAIN s /\ x = s[i]
      BY <1>1, <1>2, <2>1, <2>2
    <3> QED
      BY <3>1 DEF Range
  <2>3. CASE ~(i <= Len(s))
    <3>1. i - Len(s) \in DOMAIN t /\ x = t[i - Len(s)]
      BY <1>1, <1>2, <2>1, <2>3
    <3> QED
      BY <3>1 DEF Range
  <2> QED
    BY <2>2, <2>3
<1>4. ASSUME NEW x \in Range(s) PROVE x \in Range(s \o t)
  <2>1. PICK i \in 1..Len(s) : x = s[i]
    BY <1>1 DEF Range
  <2>2. i \in DOMAIN (s \o t) /\ x = (s \o t)[i]
    BY <1>1, <1>2, <2>1
  <2> QED
    BY <2>2 DEF Range
<1>5. ASSUME NEW x \in Range(t) PROVE x \in Range(s \o t)
  <2>1. PICK i \in 1..Len(t) : x = t[i]
    BY <1>1 DEF Range
  <2>2. i + Len(s) \in DOMAIN (s \o t) /\ x = (s \o t)[i + Len(s)]
    BY <1>1, <1>2, <2>1
  <2> QED
    BY <2>2 DEF Range
<1> QED
  BY <1>3, <1>4, <1>5

LEMMA RangeOne == \A x : Range(<<x>>) = {x}
  BY DEF Range
LEMMA RangeNone == Range(<<>>) = {}
  BY DEF Range

LEMMA LayerIs ==
  ASSUME NEW name \in LayerNames, NEW ranges \in SUBSET (Int \X Int)
  PROVE  /\ DetailLayer(name, ranges) \in Layer
         /\ DetailLayer(name, ranges).name = name /\ DetailLayer(name, ranges).ranges = ranges
BY DEF DetailLayer, Layer

(* The layers of IP and of the transport.                                  *)
LEMMA IpParts ==
  ASSUME NEW f, FrameOK(f)
  PROVE  LET net == DissectNet(f, LinkHeaderLen(f.link, f))
             transport == DissectTransport(f)
         IN  /\ net \in Seq(Layer) /\ NamesIn(Range(net)) = {Sliced(f).net} \ {"none"}
             /\ transport \in Seq(Layer) /\ NamesIn(Range(transport)) = {Sliced(f).transport} \ {"none"}
<1> DEFINE base == LinkHeaderLen(f.link, f)
           ip4 == DetailLayer("ip4", {<<base + r[1], base + r[2]>> : r \in Ipv4Fields})
           net == DissectNet(f, base)
           transport == DissectTransport(f)
<1>1. base \in Int
  BY Lengths DEF LinkHeaderLen, FrameOK, LinkTypes
<1>2. net \in Seq(Layer) /\ NamesIn(Range(net)) = {Sliced(f).net} \ {"none"}
  <2>1. ip4 \in Layer /\ ip4.name = "ip4"
    <3>1. \A r \in Ipv4Fields : r[1] \in Int /\ r[2] \in Int
      BY DEF Ipv4Fields
    <3>2. {<<base + r[1], base + r[2]>> : r \in Ipv4Fields} \subseteq Int \X Int
      <4> HIDE DEF base
      <4> QED
        BY <1>1, <3>1
    <3> QED
      BY <3>2, LayerIs DEF LayerNames
  <2>2. DetailLayer("ip6", {}) \in Layer /\ DetailLayer("ip6", {}).name = "ip6"
    BY LayerIs DEF LayerNames
  <2>3. net = CASE Sliced(f).net = "ip4" -> <<ip4>>
                [] Sliced(f).net = "ip6" -> <<DetailLayer("ip6", {})>> [] OTHER -> <<>>
    BY DEF DissectNet
  <2> HIDE DEF net, ip4
  <2> QED
    BY <2>1, <2>2, <2>3, SlicedSorts, RangeOne, RangeNone DEF NamesIn
<1>3. transport \in Seq(Layer) /\ NamesIn(Range(transport)) = {Sliced(f).transport} \ {"none"}
  <2>1. ASSUME NEW n \in {"tcp", "udp", "icmp4", "icmp6"}
        PROVE  DetailLayer(n, {}) \in Layer /\ DetailLayer(n, {}).name = n
    BY LayerIs DEF LayerNames
  <2>2. transport = IF Sliced(f).transport \in {"tcp", "udp", "icmp4", "icmp6"}
                    THEN <<DetailLayer(Sliced(f).transport, {})>> ELSE <<>>
    BY DEF DissectTransport
  <2> HIDE DEF transport
  <2> QED
    BY <2>1, <2>2, SlicedSorts, RangeOne, RangeNone DEF NamesIn
<1> QED
  BY <1>2, <1>3

(* The layers of a packet are those of its link, of IP and of the          *)
(* transport, all but the first only where the header of the link is whole.*)
LEMMA PartsOfDetail ==
  ASSUME NEW f, FrameOK(f)
  PROVE  /\ DissectLink(f) \in Seq(Layer) /\ DissectIpLayers(f) \in Seq(Layer)
         /\ NamesIn(Range(DissectLink(f))) \subseteq {"pflog", "enc", "null", "ethernet", "sll"}
         /\ NamesIn(Range(DissectLink(f))) \intersect {"pflog", "enc"} # {} <=> HasMeta(f)
         /\ NamesIn(Range(DissectIpLayers(f))) = {Parsed(f).net, Parsed(f).transport} \ {"none"}
<1> DEFINE base == LinkHeaderLen(f.link, f)
           net == DissectNet(f, base)
           transport == DissectTransport(f)
<1>2. /\ DissectLink(f) \in Seq(Layer)
      /\ NamesIn(Range(DissectLink(f))) \subseteq {"pflog", "enc", "null", "ethernet", "sll"}
      /\ NamesIn(Range(DissectLink(f))) \intersect {"pflog", "enc"} # {} <=> HasMeta(f)
  <2> DEFINE pflog == DetailLayer("pflog", {<<0, 1>>, <<1, 2>>, <<2, 3>>, <<3, 4>>, <<4, 20>>, <<20, 24>>, <<44, 45>>})
             enc == DetailLayer("enc", {<<0, 4>>, <<4, 8>>, <<8, 12>>})
             null == DetailLayer("null", {<<0, 4>>})
             ethernet == DetailLayer("ethernet", {<<0, 6>>, <<6, 12>>, <<12, 14>>})
             sll == DetailLayer("sll", {<<0, 2>>, <<14, 16>>})
  <2>1. {pflog, enc, null, ethernet, sll} \subseteq Layer
    <3>1. \A a, b \in Int : <<a, b>> \in Int \X Int
      OBVIOUS
    <3>2. pflog \in Layer
      BY <3>1, LayerIs DEF LayerNames
    <3>3. enc \in Layer
      BY <3>1, LayerIs DEF LayerNames
    <3>4. null \in Layer
      BY <3>1, LayerIs DEF LayerNames
    <3>5. ethernet \in Layer
      BY <3>1, LayerIs DEF LayerNames
    <3>6. sll \in Layer
      BY <3>1, LayerIs DEF LayerNames
    <3> HIDE DEF pflog, enc, null, ethernet, sll
    <3> QED
      BY <3>2, <3>3, <3>4, <3>5, <3>6
  <2>2. /\ pflog.name = "pflog" /\ enc.name = "enc" /\ null.name = "null"
        /\ ethernet.name = "ethernet" /\ sll.name = "sll"
    BY DEF DetailLayer
  <2>3. DissectLink(f) = CASE f.link = "pflog" /\ HasMeta(f) -> <<pflog>>
                           [] f.link = "enc" /\ HasMeta(f) -> <<enc>>
                           [] f.link = "null" /\ f.captured >= 4 -> <<null>>
                           [] f.link = "ethernet" /\ Sliced(f).ok -> <<ethernet>>
                           [] f.link = "sll" /\ Sliced(f).ok -> <<sll>>
                           [] OTHER -> <<>>
    BY DEF DissectLink
  <2>4. HasMeta(f) => f.link \in {"pflog", "enc"}
    BY DEF HasMeta
  <2> HIDE DEF pflog, enc, null, ethernet, sll
  <2>5. CASE f.link = "pflog" /\ HasMeta(f)
    <3>1. DissectLink(f) = <<pflog>>
      BY <2>3, <2>5
    <3> QED
      BY <2>1, <2>2, <2>5, <3>1, RangeOne DEF NamesIn
  <2>6. CASE f.link = "enc" /\ HasMeta(f)
    <3>1. DissectLink(f) = <<enc>>
      BY <2>3, <2>6
    <3> QED
      BY <2>1, <2>2, <2>6, <3>1, RangeOne DEF NamesIn
  <2>7. CASE ~HasMeta(f)
    <3>1. DissectLink(f) \in {<<null>>, <<ethernet>>, <<sll>>, <<>>}
      BY <2>3, <2>7
    <3>2. CASE DissectLink(f) = <<>>
      BY <2>7, <3>2, RangeNone DEF NamesIn
    <3>3. ASSUME NEW x \in {null, ethernet, sll}, DissectLink(f) = <<x>>
          PROVE  DissectLink(f) \in Seq(Layer) /\ NamesIn(Range(DissectLink(f))) = {x.name}
      BY <2>1, <3>3, RangeOne DEF NamesIn
    <3>4. \A x \in {null, ethernet, sll} : x.name \in {"null", "ethernet", "sll"}
      BY <2>2
    <3> QED
      BY <2>7, <3>1, <3>2, <3>3, <3>4
  <2> QED
    BY <2>4, <2>5, <2>6, <2>7
<1>3. net \in Seq(Layer) /\ NamesIn(Range(net)) = {Sliced(f).net} \ {"none"}
  BY IpParts
<1>4. transport \in Seq(Layer) /\ NamesIn(Range(transport)) = {Sliced(f).transport} \ {"none"}
  BY IpParts
<1>5. CASE f.link \in {"pflog", "enc"} /\ ~HasMeta(f)
  <2>1. DissectIpLayers(f) = <<>> /\ Parsed(f) = [ok |-> FALSE, net |-> "none", transport |-> "none"]
    BY <1>5 DEF DissectIpLayers, Parsed
  <2>2. DissectIpLayers(f) \in Seq(Layer) /\ NamesIn(Range(DissectIpLayers(f))) = {}
    BY <2>1, RangeNone DEF NamesIn
  <2>3. {Parsed(f).net, Parsed(f).transport} \ {"none"} = {}
    BY <2>1
  <2> QED
    BY <1>2, <2>2, <2>3
<1>6. CASE ~(f.link \in {"pflog", "enc"} /\ ~HasMeta(f))
  <2>1. DissectIpLayers(f) = net \o transport /\ Parsed(f) = Sliced(f)
    BY <1>6 DEF DissectIpLayers, Parsed
  <2> HIDE DEF net, transport
  <2>2. Range(net \o transport) = Range(net) \union Range(transport)
    BY <1>3, <1>4, RangeJoined
  <2>3. net \o transport \in Seq(Layer)
    BY <1>3, <1>4
  <2>4. NamesIn(Range(net) \union Range(transport)) = NamesIn(Range(net)) \union NamesIn(Range(transport))
    BY DEF NamesIn
  <2>5. DissectIpLayers(f) \in Seq(Layer)
    BY <2>1, <2>3
  <2>6. NamesIn(Range(DissectIpLayers(f))) = {Parsed(f).net, Parsed(f).transport} \ {"none"}
    BY <1>3, <1>4, <2>1, <2>2, <2>4
  <2> QED
    BY <1>2, <2>5, <2>6
<1> QED
  BY <1>5, <1>6

LEMMA NamesOfDetail ==
  ASSUME NEW f, FrameOK(f)
  PROVE  NamesOf(DissectDetail(f)) = NamesIn(Range(DissectLink(f))) \union ({Parsed(f).net, Parsed(f).transport} \ {"none"})
<1>1. NamesOf(DissectDetail(f)) = NamesIn(Range(DissectDetail(f)))
  BY DEF NamesOf, NamesIn, Range
<1>2. Range(DissectDetail(f)) = Range(DissectLink(f)) \union Range(DissectIpLayers(f))
  BY PartsOfDetail, RangeJoined DEF DissectDetail
<1> QED
  BY <1>1, <1>2, PartsOfDetail DEF NamesIn

LEMMA RowAgrees == FrameInv => RowAgreesWithDetail
<1> SUFFICES ASSUME FrameInv PROVE RowAgreesWithDetail
  OBVIOUS
<1> DEFINE row == ParsePacket(frame)
           names == NamesOf(DissectDetail(frame))
           parsed == Parsed(frame)
           link == NamesIn(Range(DissectLink(frame)))
<1>1. FrameOK(frame)
  BY DEF FrameInv
<1>2. names = link \union ({parsed.net, parsed.transport} \ {"none"})
  BY <1>1, NamesOfDetail
<1>3. /\ link \subseteq {"pflog", "enc", "null", "ethernet", "sll"}
      /\ link \intersect {"pflog", "enc"} # {} <=> HasMeta(frame)
  BY <1>1, PartsOfDetail
<1>4. /\ parsed.net \in {"ip4", "ip6", "none"}
      /\ parsed.transport \in {"tcp", "udp", "icmp4", "icmp6", "none"}
  BY <1>1, SlicedSorts DEF Parsed
<1>5. row.srcPort = (IF parsed.transport \in {"tcp", "udp"} THEN frame.srcPort ELSE Absent)
  BY DEF ParsePacket
<1>6. row.src = IF parsed.net # "none" THEN AddressIn[parsed.net]
                ELSE IF frame.link = "ethernet" /\ parsed.ok THEN AddressIn["mac"] ELSE ""
  BY DEF ParsePacket
<1>7. row.meta = HasMeta(frame)
  BY DEF ParsePacket
<1>8. frame.srcPort # Absent
  BY <1>1 DEF FrameOK
<1> HIDE DEF row, names, parsed, link
<1>9. (row.srcPort # Absent) <=> (names \intersect {"tcp", "udp"} # {})
  BY <1>2, <1>3, <1>4, <1>5, <1>8
<1>10. (row.src \in {AddressIn["ip4"], AddressIn["ip6"]}) <=> (names \intersect {"ip4", "ip6"} # {})
  BY <1>2, <1>3, <1>4, <1>6, AddressAssumption
<1>11. row.meta <=> (names \intersect {"pflog", "enc"} # {})
  BY <1>2, <1>3, <1>4, <1>7
<1> QED
  BY <1>9, <1>10, <1>11 DEF row, names, RowAgreesWithDetail

(* The ranges of a layer are of bytes that were captured.                  *)
LEMMA RangesCaptured == FrameInv /\ ~ReadsPastEnd(frame) => RangesInPacket
<1> SUFFICES ASSUME FrameInv, ~ReadsPastEnd(frame) PROVE RangesInPacket
  OBVIOUS
<1> DEFINE Within(layer) == \A r \in layer.ranges :
             r[1] < r[2] /\ (r[2] <= frame.captured \/ DirectionNotInHeader(layer, r))
           base == LinkHeaderLen(frame.link, frame)
<1>1. FrameOK(frame) /\ frame.captured \in Int
  BY DEF FrameInv, FrameOK
<1>2. ASSUME NEW x \in Range(DissectLink(frame)) PROVE Within(x)
  <2>1. HasMeta(frame) /\ frame.link = "pflog"
        => frame.captured >= 24 /\ frame.captured >= PflogLength(frame) /\ PflogLength(frame) \in Nat
    BY <1>1, Lengths DEF HasMeta, ReadsPastEnd
  <2>2. HasMeta(frame) /\ frame.link = "enc" => frame.captured >= 12
    BY DEF HasMeta
  <2>3. Sliced(frame).ok /\ frame.link \in {"ethernet", "sll"} => frame.captured >= 14 /\ (frame.link = "sll" => frame.captured >= 16)
    <3>1. Sliced(frame).ok => frame.captured >= LinkLength(frame)
      BY <1>1, SlicedSorts
    <3>2. frame.vlans \in Nat
      BY <1>1 DEF FrameOK
    <3>3. frame.link = "ethernet" => LinkLength(frame) = 14 + 4 * frame.vlans
      BY DEF LinkLength
    <3>4. frame.link = "sll" => LinkLength(frame) = 16
      BY DEF LinkLength
    <3> QED
      BY <1>1, <3>1, <3>2, <3>3, <3>4
  <2>4. CASE frame.link = "pflog" /\ HasMeta(frame)
    <3>1. x = DetailLayer("pflog", {<<0, 1>>, <<1, 2>>, <<2, 3>>, <<3, 4>>, <<4, 20>>, <<20, 24>>, <<44, 45>>})
      BY <1>2, <2>4, RangeOne DEF DissectLink
    <3> QED
      BY <1>1, <2>1, <2>4, <3>1 DEF DetailLayer, DirectionNotInHeader
  <2>5. CASE frame.link = "enc" /\ HasMeta(frame)
    <3>1. x = DetailLayer("enc", {<<0, 4>>, <<4, 8>>, <<8, 12>>})
      BY <1>2, <2>5, RangeOne DEF DissectLink
    <3> QED
      BY <1>1, <2>2, <2>5, <3>1 DEF DetailLayer
  <2>6. CASE frame.link = "null" /\ frame.captured >= 4
    <3>1. x = DetailLayer("null", {<<0, 4>>})
      BY <1>2, <2>6, RangeOne DEF DissectLink
    <3> QED
      BY <1>1, <2>6, <3>1 DEF DetailLayer
  <2>7. CASE frame.link = "ethernet" /\ Sliced(frame).ok
    <3>1. x = DetailLayer("ethernet", {<<0, 6>>, <<6, 12>>, <<12, 14>>})
      BY <1>2, <2>7, RangeOne DEF DissectLink
    <3> QED
      BY <1>1, <2>3, <2>7, <3>1 DEF DetailLayer
  <2>8. CASE frame.link = "sll" /\ Sliced(frame).ok
    <3>1. x = DetailLayer("sll", {<<0, 2>>, <<14, 16>>})
      BY <1>2, <2>8, RangeOne DEF DissectLink
    <3> QED
      BY <1>1, <2>3, <2>8, <3>1 DEF DetailLayer
  <2>9. CASE DissectLink(frame) = <<>>
    BY <1>2, <2>9, RangeNone
  <2> QED
    BY <2>4, <2>5, <2>6, <2>7, <2>8, <2>9 DEF DissectLink
<1>3. ASSUME NEW x \in Range(DissectNet(frame, base)) PROVE Within(x)
  <2>1. CASE Sliced(frame).net = "ip4"
    <3>1. x = DetailLayer("ip4", {<<base + r[1], base + r[2]>> : r \in Ipv4Fields})
      BY <1>3, <2>1, RangeOne DEF DissectNet
    <3>2. base \in Int /\ base <= LinkLength(frame)
      BY <1>1, Lengths DEF LinkHeaderLen, LinkLength, FrameOK, LinkTypes
    <3>3. frame.captured >= LinkLength(frame) + 20 /\ LinkLength(frame) \in Int
      <4>1. frame.net = "ip4" /\ frame.captured >= Whole(frame)
        BY <1>1, <2>1, SlicedSorts
      <4> QED
        BY <1>1, <4>1, Lengths DEF Whole
    <3>4. ASSUME NEW r \in Ipv4Fields PROVE r[1] \in Int /\ r[2] \in Int /\ r[1] < r[2] /\ r[2] <= 20
      BY DEF Ipv4Fields
    <3> HIDE DEF base
    <3>5. ASSUME NEW r \in Ipv4Fields
          PROVE  base + r[1] < base + r[2] /\ base + r[2] <= frame.captured
      BY <1>1, <3>2, <3>3, <3>4
    <3>6. x.ranges = {<<base + r[1], base + r[2]>> : r \in Ipv4Fields}
      BY <3>1 DEF DetailLayer
    <3> QED
      BY <3>5, <3>6
  <2>2. CASE Sliced(frame).net = "ip6"
    <3>1. x = DetailLayer("ip6", {})
      BY <1>3, <2>2, RangeOne DEF DissectNet
    <3> QED
      BY <3>1 DEF DetailLayer
  <2>3. CASE Sliced(frame).net \notin {"ip4", "ip6"}
    BY <1>3, <2>3, RangeNone DEF DissectNet
  <2> QED
    BY <2>1, <2>2, <2>3
<1>4. ASSUME NEW x \in Range(DissectTransport(frame)) PROVE Within(x)
  <2>1. x = DetailLayer(Sliced(frame).transport, {})
    BY <1>4, RangeOne, RangeNone DEF DissectTransport
  <2> QED
    BY <2>1 DEF DetailLayer
<1>5. ASSUME NEW x \in Range(DissectIpLayers(frame)) PROVE Within(x)
  <2>1. x \in Range(DissectNet(frame, base)) \union Range(DissectTransport(frame))
    <3>1. CASE frame.link \in {"pflog", "enc"} /\ ~HasMeta(frame)
      BY <1>5, <3>1, RangeNone DEF DissectIpLayers
    <3>2. CASE ~(frame.link \in {"pflog", "enc"} /\ ~HasMeta(frame))
      <4>1. DissectIpLayers(frame) = DissectNet(frame, base) \o DissectTransport(frame)
        BY <3>2 DEF DissectIpLayers
      <4>2. DissectNet(frame, base) \in Seq(Layer) /\ DissectTransport(frame) \in Seq(Layer)
        BY <1>1, IpParts
      <4> QED
        BY <1>5, <4>1, <4>2, RangeJoined
    <3> QED
      BY <3>1, <3>2
  <2> QED
    BY <1>3, <1>4, <2>1
<1>6. Range(DissectDetail(frame)) = Range(DissectLink(frame)) \union Range(DissectIpLayers(frame))
  BY <1>1, PartsOfDetail, RangeJoined DEF DissectDetail
<1>7. \A x \in Range(DissectDetail(frame)) : Within(x)
  BY <1>2, <1>5, <1>6
<1> QED
  BY <1>7 DEF RangesInPacket, Range

(* Who is the sender does not matter to what a port stands for.            *)
LEMMA PortsEitherWay ==
  \A p, q : ClassifyTcpPort(p, q) = ClassifyTcpPort(q, p) /\ ClassifyUdpPort(p, q) = ClassifyUdpPort(q, p)
<1> SUFFICES ASSUME NEW p, NEW q
             PROVE  ClassifyTcpPort(p, q) = ClassifyTcpPort(q, p) /\ ClassifyUdpPort(p, q) = ClassifyUdpPort(q, p)
  OBVIOUS
<1>1. \A ports : Among(ports, p, q) = Among(ports, q, p)
  BY DEF Among
<1>2. ASSUME NEW rows, NEW other PROVE Classify(rows, p, q, other) = Classify(rows, q, p, other)
  <2>1. {n \in DOMAIN rows : Among(rows[n][1], p, q)} = {n \in DOMAIN rows : Among(rows[n][1], q, p)}
    BY <1>1
  <2> QED
    BY <2>1 DEF Classify
<1> QED
  BY <1>2 DEF ClassifyTcpPort, ClassifyUdpPort

LEMMA ReplyIsTheSame == FrameInv => ReplyHasSameProtocol
<1> SUFFICES ASSUME FrameInv PROVE ReplyHasSameProtocol
  OBVIOUS
<1> DEFINE back == [frame EXCEPT !.srcPort = frame.dstPort, !.dstPort = frame.srcPort]
<1>1. back = [x \in Header |-> IF x = "dstPort" THEN frame.srcPort
                                ELSE IF x = "srcPort" THEN frame.dstPort ELSE frame[x]]
  BY DEF FrameInv, Header
<1>2. /\ back.link = frame.link /\ back.vlans = frame.vlans /\ back.net = frame.net
      /\ back.ihl = frame.ihl /\ back.transport = frame.transport /\ back.header = frame.header
      /\ back.fragment = frame.fragment /\ back.captured = frame.captured /\ back.flags = frame.flags
      /\ back.srcPort = frame.dstPort /\ back.dstPort = frame.srcPort
  BY <1>1 DEF Header
<1> HIDE DEF back
<1>3. LinkLength(back) = LinkLength(frame) /\ Whole(back) = Whole(frame) /\ HasMeta(back) = HasMeta(frame)
  BY <1>2 DEF LinkLength, NetLength, Whole, PflogLength, HasMeta
<1>4. Sliced(back) = Sliced(frame)
  BY <1>2, <1>3 DEF Sliced
<1>5. Parsed(back) = Parsed(frame)
  BY <1>2, <1>3, <1>4 DEF Parsed
<1>6. \A parsed : LinkProtocol(back, parsed) = LinkProtocol(frame, parsed)
  BY <1>2, <1>3 DEF LinkProtocol
<1>7. \A parsed : InnerProtocol(back, parsed) = InnerProtocol(frame, parsed)
  BY <1>2, <1>6, PortsEitherWay DEF InnerProtocol
<1>8. ParsePacket(back).proto = ParsePacket(frame).proto
  BY <1>3, <1>5, <1>6, <1>7 DEF ParsePacket
<1> QED
  BY <1>8 DEF ReplyHasSameProtocol, back

LEMMA LinkTypeComesBack == FrameInv => LinkTypeKept
<1> SUFFICES ASSUME FrameInv PROVE LinkTypeKept
  OBVIOUS
<1> DEFINE link == frame.link
<1>1. link \in LinkTypes
  BY DEF FrameInv, FrameOK
<1> HIDE DEF link
<1>2. /\ FromPcap(1) = "ethernet" /\ FromPcap(101) = "raw" /\ FromPcap(0) = "null"
      /\ FromPcap(113) = "sll" /\ FromPcap(117) = "pflog" /\ FromPcap(109) = "enc"
  BY DEF FromPcap
<1>3. /\ ToPcap("ethernet") = 1 /\ ToPcap("raw") = 101 /\ ToPcap("null") = 0
      /\ ToPcap("sll") = 113 /\ ToPcap("pflog") = 117 /\ ToPcap("enc") = 109
  BY DEF ToPcap
<1>4. FromPcap(ToPcap(link)) = link
  BY <1>1, <1>2, <1>3 DEF LinkTypes
<1> QED
  BY <1>4 DEF LinkTypeKept, link

(* The least of some numbers.                                              *)
LEMMA LeastExists ==
  ASSUME NEW S \in SUBSET Nat, S # {}
  PROVE  \E x \in S : \A y \in S : x <= y
<1> DEFINE R == OpToRel(<, Nat)
<1>1. IsWellFoundedOn(R, Nat)
  BY NatLessThanWellFounded
<1>2. \A x, y \in Nat : x < y => <<x, y>> \in R
  BY DEF OpToRel
<1> HIDE DEF R
<1>3. PICK x \in S : \A y \in S : ~ (<<y, x>> \in R)
  BY <1>1, WFMin, Zenon
<1>4. ASSUME NEW y \in S PROVE x <= y
  <2>1. x \in Nat /\ y \in Nat /\ ~(<<y, x>> \in R)
    BY <1>3
  <2>2. ~(y < x)
    BY <1>2, <2>1
  <2> QED
    BY <2>1, <2>2
<1> QED
  BY <1>3, <1>4

LEMMA LeastOf ==
  ASSUME NEW S \in SUBSET Nat, S # {}
  PROVE  Min(S) \in S /\ \A y \in S : Min(S) <= y
BY LeastExists DEF Min

LEMMA ClassifyFinds ==
  ASSUME NEW rows, DOMAIN rows \subseteq Nat, NEW p, NEW q, NEW other
  PROVE  \/ Classify(rows, p, q, other) = other
         \/ \E n \in DOMAIN rows : Classify(rows, p, q, other) = rows[n][2]
<1> DEFINE hits == {n \in DOMAIN rows : Among(rows[n][1], p, q)}
<1>1. hits \in SUBSET Nat /\ hits \subseteq DOMAIN rows
  OBVIOUS
<1>2. Classify(rows, p, q, other) = IF hits = {} THEN other ELSE rows[Min(hits)][2]
  BY DEF Classify
<1> HIDE DEF hits
<1>3. hits # {} => Min(hits) \in DOMAIN rows
  BY <1>1, LeastOf
<1>4. CASE hits = {}
  BY <1>2, <1>4
<1>5. CASE hits # {}
  BY <1>2, <1>3, <1>5
<1> QED
  BY <1>4, <1>5

LEMMA TcpNames ==
  \A p, q : ClassifyTcpPort(p, q) \in TcpApps \union {"DNS", "TCP"}
<1> SUFFICES ASSUME NEW p, NEW q PROVE ClassifyTcpPort(p, q) \in TcpApps \union {"DNS", "TCP"}
  OBVIOUS
<1> DEFINE rows == <<<<{80, 8080}, "HTTP">>, <<{443}, "TLS">>, <<{53}, "DNS">>, <<{22}, "SSH">>,
                     <<{25, 465, 587}, "SMTP">>, <<{20, 21}, "FTP">>, <<{23}, "Telnet">>, <<{3389}, "RDP">>,
                     <<{179}, "BGP">>, <<{389, 636}, "LDAP">>>>
<1>1. DOMAIN rows = 1..10
  OBVIOUS
<1>2. ASSUME NEW n \in 1..10 PROVE rows[n][2] \in TcpApps \union {"DNS"}
  BY DEF TcpApps
<1>3. ClassifyTcpPort(p, q) = Classify(rows, p, q, "TCP")
  BY DEF ClassifyTcpPort
<1> HIDE DEF rows
<1>4. ClassifyTcpPort(p, q) = "TCP" \/ \E n \in 1..10 : ClassifyTcpPort(p, q) = rows[n][2]
  <2>1. DOMAIN rows \subseteq Nat
    BY <1>1
  <2> QED
    BY <1>1, <1>3, <2>1, ClassifyFinds
<1> QED
  BY <1>2, <1>4

LEMMA UdpNames ==
  \A p, q : ClassifyUdpPort(p, q) \in UdpApps \union {"DNS", "UDP"}
<1> SUFFICES ASSUME NEW p, NEW q PROVE ClassifyUdpPort(p, q) \in UdpApps \union {"DNS", "UDP"}
  OBVIOUS
<1> DEFINE rows == <<<<{53}, "DNS">>, <<{67, 68}, "DHCP">>, <<{123}, "NTP">>, <<{161, 162}, "SNMP">>,
                     <<{514}, "Syslog">>, <<{69}, "TFTP">>, <<{5353}, "mDNS">>, <<{1812, 1813}, "RADIUS">>>>
<1>1. DOMAIN rows = 1..8
  OBVIOUS
<1>2. ASSUME NEW n \in 1..8 PROVE rows[n][2] \in UdpApps \union {"DNS"}
  BY DEF UdpApps
<1>3. ClassifyUdpPort(p, q) = Classify(rows, p, q, "UDP")
  BY DEF ClassifyUdpPort
<1> HIDE DEF rows
<1>4. ClassifyUdpPort(p, q) = "UDP" \/ \E n \in 1..8 : ClassifyUdpPort(p, q) = rows[n][2]
  <2>1. DOMAIN rows \subseteq Nat
    BY <1>1
  <2> QED
    BY <1>1, <1>3, <2>1, ClassifyFinds
<1> QED
  BY <1>2, <1>4

LEMMA ExtractRange ==
  \A flags : ExtractTcpFlags(flags) \in 0..63
BY DEF ExtractTcpFlags

(* The layers of the hierarchy.                                            *)
LEMMA HierarchyFollows == FrameInv => HierarchyFollowsHeaders
<1> SUFFICES ASSUME FrameInv PROVE HierarchyFollowsHeaders
  OBVIOUS
<1> DEFINE row == ParsePacket(frame)
           parsed == Parsed(frame)
<1>1. FrameOK(frame)
  BY DEF FrameInv
<1>2. /\ parsed.ok \in BOOLEAN
      /\ parsed.net \in {"ip4", "ip6", "none"}
      /\ parsed.transport \in {"tcp", "udp", "icmp4", "icmp6", "none"}
      /\ parsed.net # "none" => parsed.net = frame.net
      /\ parsed.transport # "none" => parsed.transport = frame.transport /\ parsed.net # "none"
  BY <1>1, SlicedSorts DEF Parsed
<1>3. /\ row.meta = HasMeta(frame)
      /\ ~HasMeta(frame) => row.proto = InnerProtocol(frame, parsed)
      /\ parsed.net # "none" => row.src = AddressIn[parsed.net]
      /\ row.flags = IF parsed.transport = "tcp" THEN ExtractTcpFlags(frame.flags) ELSE 0
  BY DEF ParsePacket
<1>4. /\ frame.transport = "icmp4" => frame.net = "ip4"
      /\ frame.transport = "icmp6" => frame.net = "ip6"
  BY <1>1 DEF FrameOK
<1>5. InnerProtocol(frame, parsed) =
        IF parsed.transport = "tcp" THEN ClassifyTcpPort(frame.srcPort, frame.dstPort)
        ELSE IF parsed.transport = "udp" THEN ClassifyUdpPort(frame.srcPort, frame.dstPort)
        ELSE CASE parsed.transport = "icmp4" -> "ICMP"
          [] parsed.transport = "icmp6" -> "ICMPv6"
          [] parsed.net = "ip4" /\ parsed.transport = "none" -> "IPv4"
          [] parsed.net = "ip6" /\ parsed.transport = "none" -> "IPv6"
          [] frame.link = "ethernet" /\ frame.net = "arp" /\ parsed.ok -> "ARP"
          [] OTHER -> LinkProtocol(frame, parsed)
  BY DEF InnerProtocol
<1> HIDE DEF row, parsed
<1> SUFFICES ASSUME parsed.net # "none", ~row.meta, parsed.transport = "tcp" => row.flags # 0
             PROVE  /\ Layers(row)[2] = (IF parsed.net = "ip4" THEN "IPv4" ELSE "IPv6")
                    /\ parsed.transport = "tcp" => Layers(row)[3] = "TCP"
                    /\ parsed.transport = "udp" => Layers(row)[3] = "UDP"
  BY DEF HierarchyFollowsHeaders, row, parsed
<1>6. row.proto = InnerProtocol(frame, parsed)
  BY <1>3
<1>7. Network(row) = IF parsed.net = "ip4" THEN "IPv4" ELSE "IPv6"
  BY <1>2, <1>3, AddressAssumption DEF Network
<1>8. CASE parsed.transport = "tcp"
  <2>1. row.proto \in TcpApps \union {"DNS", "TCP"}
    <3>1. row.proto = ClassifyTcpPort(frame.srcPort, frame.dstPort)
      BY <1>5, <1>6, <1>8
    <3> QED
      BY <3>1, TcpNames, Zenon
  <2>2. Layers(row) = IF row.proto = "TCP" THEN <<"Ethernet", Network(row), row.proto>>
                      ELSE <<"Ethernet", Network(row), "TCP", row.proto>>
    BY <1>8, <2>1 DEF Layers, TcpApps, UdpApps
  <2> QED
    BY <1>7, <1>8, <2>2
<1>9. CASE parsed.transport = "udp"
  <2>1. row.proto \in UdpApps \union {"DNS", "UDP"} /\ row.flags = 0
    <3>1. row.proto = ClassifyUdpPort(frame.srcPort, frame.dstPort)
      BY <1>5, <1>6, <1>9
    <3>2. row.proto \in UdpApps \union {"DNS", "UDP"}
      BY <3>1, UdpNames, Zenon
    <3> QED
      BY <1>3, <1>9, <3>2
  <2>2. Layers(row) = IF row.proto = "UDP" THEN <<"Ethernet", Network(row), row.proto>>
                      ELSE <<"Ethernet", Network(row), "UDP", row.proto>>
    BY <1>9, <2>1 DEF Layers, TcpApps, UdpApps
  <2> QED
    BY <1>7, <1>9, <2>2
<1>10. CASE parsed.transport = "icmp4"
  <2>1. row.proto = "ICMP" /\ parsed.net = "ip4"
    BY <1>2, <1>4, <1>5, <1>6, <1>10
  <2>2. Layers(row) = <<"Ethernet", "IPv4", "ICMP">>
    BY <2>1 DEF Layers, TcpApps, UdpApps
  <2> QED
    BY <1>10, <2>1, <2>2
<1>11. CASE parsed.transport = "icmp6"
  <2>1. row.proto = "ICMPv6" /\ parsed.net = "ip6"
    BY <1>2, <1>4, <1>5, <1>6, <1>11
  <2>2. Layers(row) = <<"Ethernet", "IPv6", "ICMPv6">>
    BY <2>1 DEF Layers, TcpApps, UdpApps
  <2> QED
    BY <1>11, <2>1, <2>2
<1>12. CASE parsed.transport = "none"
  <2>1. row.proto = IF parsed.net = "ip4" THEN "IPv4" ELSE "IPv6"
    BY <1>2, <1>5, <1>6, <1>12
  <2>2. Layers(row) = <<"Ethernet", row.proto>>
    BY <2>1 DEF Layers, TcpApps, UdpApps
  <2> QED
    BY <1>12, <2>1, <2>2
<1> QED
  BY <1>2, <1>8, <1>9, <1>10, <1>11, <1>12

-----------------------------------------------------------------------------
(* Bits of numbers.                                                        *)

(* Induction on numbers, from a well founded relation.                     *)
LEMMA SetInduction ==
  ASSUME NEW S \in SUBSET Nat, 0 \in S, \A k \in S : k + 1 \in S
  PROVE  S = Nat
<1> DEFINE T == Nat \ S
<1> SUFFICES ASSUME T # {} PROVE FALSE
  OBVIOUS
<1>1. T \in SUBSET Nat
  OBVIOUS
<1> HIDE DEF T
<1>2. PICK x \in T : \A y \in T : x <= y
  BY <1>1, LeastExists
<1> USE DEF T
<1>3. x - 1 \in Nat /\ x - 1 < x /\ (x - 1) + 1 = x
  BY <1>2
<1>4. x - 1 \notin T
  BY <1>2, <1>3
<1> QED
  BY <1>2, <1>3, <1>4

(* u doubles k times.                                                      *)
Doubles(u, k) ==
  u \in [0..k -> Nat] /\ u = [i \in 0..k |-> IF i = 0 THEN 1 ELSE 2 * u[i - 1]]

LEMMA DoublingRuns ==
  ASSUME NEW k \in Nat
  PROVE  \E u : Doubles(u, k)
<1> DEFINE S == {n \in Nat : \E u : Doubles(u, n)}
<1>1. 0 \in S
  <2>1. Doubles([i \in 0..0 |-> 1], 0)
    BY DEF Doubles
  <2> QED
    BY <2>1
<1>2. ASSUME NEW n \in S PROVE n + 1 \in S
  <2>1. n \in Nat /\ n + 1 \in Nat
    OBVIOUS
  <2>2. PICK u : Doubles(u, n)
    OBVIOUS
  <2> DEFINE v == [i \in 0..(n + 1) |-> IF i = n + 1 THEN 2 * u[n] ELSE u[i]]
  <2>3. \A i \in 0..(n + 1) : i # n + 1 => i \in 0..n
    BY <2>1
  <2>4. n \in 0..n /\ n + 1 \in 0..(n + 1) /\ n \in 0..(n + 1)
    BY <2>1
  <2>5. u[n] \in Nat /\ \A i \in 0..n : u[i] \in Nat
    BY <2>2, <2>4 DEF Doubles
  <2>6. v \in [0..(n + 1) -> Nat]
    BY <2>3, <2>5
  <2>7. ASSUME NEW i \in 0..(n + 1) PROVE v[i] = IF i = 0 THEN 1 ELSE 2 * v[i - 1]
    <3>1. CASE i = n + 1
      <4>1. i # 0 /\ i - 1 = n /\ n # n + 1
        BY <2>1, <3>1
      <4>2. v[i] = 2 * u[n] /\ v[n] = u[n]
        BY <2>4, <3>1, <4>1
      <4> QED
        BY <4>1, <4>2
    <3>2. CASE i # n + 1
      <4>1. i \in 0..n /\ v[i] = u[i]
        BY <2>3, <3>2
      <4>2. u[i] = IF i = 0 THEN 1 ELSE 2 * u[i - 1]
        BY <2>2, <4>1 DEF Doubles
      <4>3. i # 0 => i - 1 \in 0..(n + 1) /\ i - 1 # n + 1
        BY <2>1, <4>1
      <4>4. i # 0 => v[i - 1] = u[i - 1]
        BY <4>3
      <4> QED
        BY <4>1, <4>2, <4>4
    <3> QED
      BY <3>1, <3>2
  <2>8. v = [i \in 0..(n + 1) |-> IF i = 0 THEN 1 ELSE 2 * v[i - 1]]
    BY <2>7
  <2>9. Doubles(v, n + 1)
    BY <2>6, <2>8 DEF Doubles
  <2> QED
    BY <2>1, <2>9
<1>3. S \in SUBSET Nat
  OBVIOUS
<1> HIDE DEF S
<1>4. S = Nat
  BY <1>1, <1>2, <1>3, SetInduction
<1> QED
  BY <1>4 DEF S

LEMMA PlaceRun ==
  ASSUME NEW k \in Nat
  PROVE  \E u : Doubles(u, k) /\ Place(k) = u[k]
<1> DEFINE w == CHOOSE u : u = [i \in 0..k |-> IF i = 0 THEN 1 ELSE 2 * u[i - 1]]
<1>1. PICK u : Doubles(u, k)
  BY DoublingRuns
<1>2. w = [i \in 0..k |-> IF i = 0 THEN 1 ELSE 2 * w[i - 1]]
  BY <1>1 DEF Doubles
<1>3. Place(k) = w[k]
  BY DEF Place
<1> HIDE DEF w
<1>4. \A n \in Nat : n \in 0..k => w[n] = u[n]
  <2> DEFINE S == {n \in Nat : n \in 0..k => w[n] = u[n]}
  <2>1. u = [i \in 0..k |-> IF i = 0 THEN 1 ELSE 2 * u[i - 1]]
    BY <1>1 DEF Doubles
  <2>2. 0 \in S
    BY <1>2, <2>1
  <2>3. ASSUME NEW n \in S PROVE n + 1 \in S
    <3>1. CASE n + 1 \in 0..k
      <4>1. n \in 0..k /\ (n + 1) - 1 = n /\ n + 1 # 0
        BY <3>1
      <4>2. w[n + 1] = 2 * w[n]
        BY <1>2, <3>1, <4>1
      <4>3. u[n + 1] = 2 * u[n]
        BY <2>1, <3>1, <4>1
      <4> QED
        BY <4>1, <4>2, <4>3
    <3>2. CASE n + 1 \notin 0..k
      BY <3>2
    <3> QED
      BY <3>1, <3>2
  <2>4. S \in SUBSET Nat
    OBVIOUS
  <2> HIDE DEF S
  <2>5. S = Nat
    BY <2>2, <2>3, <2>4, SetInduction
  <2> QED
    BY <2>5 DEF S
<1>5. k \in Nat /\ k \in 0..k
  OBVIOUS
<1> QED
  BY <1>1, <1>3, <1>4, <1>5

LEMMA Agreeing ==
  ASSUME NEW k \in Nat, NEW u, NEW v, Doubles(u, k), Doubles(v, k + 1)
  PROVE  u[k] = v[k]
<1> DEFINE S == {n \in Nat : n \in 0..k => u[n] = v[n]}
<1>1. u = [i \in 0..k |-> IF i = 0 THEN 1 ELSE 2 * u[i - 1]]
  BY DEF Doubles
<1>2. v = [i \in 0..(k + 1) |-> IF i = 0 THEN 1 ELSE 2 * v[i - 1]]
  BY DEF Doubles
<1>3. 0 \in S
  BY <1>1, <1>2
<1>4. ASSUME NEW n \in S PROVE n + 1 \in S
  <2>1. CASE n + 1 \in 0..k
    <3>1. n \in 0..k /\ (n + 1) - 1 = n /\ n + 1 # 0 /\ n + 1 \in 0..(k + 1)
      BY <2>1
    <3>2. u[n + 1] = 2 * u[n]
      BY <1>1, <2>1, <3>1
    <3>3. v[n + 1] = 2 * v[n]
      BY <1>2, <3>1
    <3> QED
      BY <3>1, <3>2, <3>3
  <2>2. CASE n + 1 \notin 0..k
    BY <2>2
  <2> QED
    BY <2>1, <2>2
<1>5. S \in SUBSET Nat
  OBVIOUS
<1> HIDE DEF S
<1>6. S = Nat
  BY <1>3, <1>4, <1>5, SetInduction
<1>7. k \in S /\ k \in 0..k
  BY <1>6
<1> QED
  BY <1>7 DEF S

(* The place of the next bit is worth twice as much.                       *)
LEMMA PlaceDoubles ==
  /\ Place(0) = 1
  /\ \A k \in Nat : Place(k) \in Nat /\ Place(k + 1) = 2 * Place(k)
<1>1. Place(0) = 1
  <2>1. PICK u : Doubles(u, 0) /\ Place(0) = u[0]
    BY PlaceRun
  <2> QED
    BY <2>1 DEF Doubles
<1>2. ASSUME NEW k \in Nat PROVE Place(k) \in Nat /\ Place(k + 1) = 2 * Place(k)
  <2>1. k + 1 \in Nat /\ k \in 0..k /\ k + 1 \in 0..(k + 1) /\ (k + 1) - 1 = k /\ k + 1 # 0
    OBVIOUS
  <2>2. PICK u : Doubles(u, k) /\ Place(k) = u[k]
    BY PlaceRun
  <2>3. PICK v : Doubles(v, k + 1) /\ Place(k + 1) = v[k + 1]
    BY <2>1, PlaceRun
  <2>4. u[k] = v[k]
    BY <2>2, <2>3, Agreeing
  <2>5. v[k + 1] = 2 * v[k]
    BY <2>1, <2>3 DEF Doubles
  <2> QED
    BY <2>1, <2>2, <2>3, <2>4, <2>5 DEF Doubles
<1> QED
  BY <1>1, <1>2

LEMMA PlacesOfOctet ==
  /\ Place(0) = 1 /\ Place(1) = 2 /\ Place(2) = 4 /\ Place(3) = 8
  /\ Place(4) = 16 /\ Place(5) = 32 /\ Place(6) = 64 /\ Place(7) = 128
<1>1. \A k \in Nat : Place(k + 1) = 2 * Place(k)
  BY PlaceDoubles
<1>2. Place(0) = 1
  BY PlaceDoubles
<1>3. Place(0 + 1) = 2 * Place(0)
  BY <1>1
<1>4. Place(1 + 1) = 2 * Place(1)
  BY <1>1
<1>5. Place(2 + 1) = 2 * Place(2)
  BY <1>1
<1>6. Place(3 + 1) = 2 * Place(3)
  BY <1>1
<1>7. Place(4 + 1) = 2 * Place(4)
  BY <1>1
<1>8. Place(5 + 1) = 2 * Place(5)
  BY <1>1
<1>9. Place(6 + 1) = 2 * Place(6)
  BY <1>1
<1> QED
  BY <1>2, <1>3, <1>4, <1>5, <1>6, <1>7, <1>8, <1>9

(* A bit is set where a number of one bit has it.                          *)
LEMMA FlagMask ==
  ASSUME NEW x \in Nat, NEW flag \in DOMAIN FlagBit
  PROVE  /\ Bits(x, 8) \intersect Bits(FlagBit[flag], 8) # {} <=> (x \div FlagBit[flag]) % 2 = 1
         /\ FlagBit[flag] = Place(Shift[flag])
<1> DEFINE n == Shift[flag]
<1>1. n \in 0..5 /\ FlagBit[flag] = Place(n)
  BY PlacesOfOctet DEF FlagBit, Shift
<1>2. Bits(FlagBit[flag], 8) = {n}
  <2>1. ASSUME NEW i \in 0..7 PROVE (Place(n) \div Place(i)) % 2 = 1 <=> i = n
    <3> HIDE DEF n
    <3>1. \/ n = 0 \/ n = 1 \/ n = 2 \/ n = 3 \/ n = 4 \/ n = 5
      BY <1>1
    <3>2. \/ i = 0 \/ i = 1 \/ i = 2 \/ i = 3 \/ i = 4 \/ i = 5 \/ i = 6 \/ i = 7
      OBVIOUS
    <3> QED
      BY <3>1, <3>2, PlacesOfOctet
  <2> HIDE DEF n
  <2> QED
    BY <1>1, <2>1 DEF Bits
<1> HIDE DEF n
<1>3. n \in Bits(x, 8) <=> (x \div Place(n)) % 2 = 1
  BY <1>1 DEF Bits
<1> QED
  BY <1>1, <1>2, <1>3 DEF n

LEMMA FlagsExtracted ==
  ASSUME NEW flags, NEW flag \in DOMAIN FlagBit
  PROVE  (ExtractTcpFlags(flags) \div FlagBit[flag]) % 2 = 1 <=> flag \in flags
<1> DEFINE bit(f, b) == IF f \in flags THEN b ELSE 0
           fin == bit("fin", 1)
           syn == bit("syn", 2)
           rst == bit("rst", 4)
           psh == bit("psh", 8)
           ack == bit("ack", 16)
           urg == bit("urg", 32)
           all == fin + syn + rst + psh + ack + urg
<1>1. ExtractTcpFlags(flags) = all
  BY DEF ExtractTcpFlags
<1>2. /\ fin \in {0, 1} /\ syn \in {0, 2} /\ rst \in {0, 4}
      /\ psh \in {0, 8} /\ ack \in {0, 16} /\ urg \in {0, 32}
  OBVIOUS
<1>3. /\ fin = 1 <=> "fin" \in flags
      /\ syn = 2 <=> "syn" \in flags
      /\ rst = 4 <=> "rst" \in flags
      /\ psh = 8 <=> "psh" \in flags
      /\ ack = 16 <=> "ack" \in flags
      /\ urg = 32 <=> "urg" \in flags
  OBVIOUS
<1> HIDE DEF fin, syn, rst, psh, ack, urg
<1>4. /\ (all \div 1) % 2 = 1 <=> fin = 1
      /\ (all \div 2) % 2 = 1 <=> syn = 2
      /\ (all \div 4) % 2 = 1 <=> rst = 4
      /\ (all \div 8) % 2 = 1 <=> psh = 8
      /\ (all \div 16) % 2 = 1 <=> ack = 16
      /\ (all \div 32) % 2 = 1 <=> urg = 32
  BY <1>2
<1> HIDE DEF all
<1>5. flag \in {"fin", "syn", "rst", "psh", "ack", "urg"}
  BY DEF FlagBit
<1> QED
  BY <1>1, <1>3, <1>4, <1>5 DEF FlagBit

LEMMA FlagsAreHeaders == FrameInv => FlagsOfHeader
<1> SUFFICES ASSUME FrameInv, Parsed(frame).transport = "tcp", NEW flag \in DOMAIN FlagBit
             PROVE  EvalBareField(flag, ParsePacket(frame)) <=> flag \in frame.flags
  BY DEF FlagsOfHeader
<1>1. ParsePacket(frame).flags = ExtractTcpFlags(frame.flags)
  BY DEF ParsePacket
<1>2. ExtractTcpFlags(frame.flags) \in Nat
  BY ExtractRange
<1> QED
  BY <1>1, <1>2, FlagMask, FlagsExtracted DEF EvalBareField

(* The row, the detail pane, the hierarchy, the filters and the files      *)
(* agree about every packet, wherever it was cut, for every link type,     *)
(* port and flag, every length of an IPv4 header and every length that the *)
(* header of pflog can name, but for packets of fewer than 24 bytes whose  *)
(* header of pflog names no more than they have: parse_pflog_header does   *)
(* not get through these (parse_packet_with_wire_len, dissect_detail,      *)
(* eval_bare_field, protocol_layers, to_pcap).                             *)
THEOREM PartsAgree == FastSpec => []DissectSound
<1>1. FrameInv => DissectSound
  BY RowAgrees, RangesCaptured, ReplyIsTheSame, HierarchyFollows, FlagsAreHeaders, LinkTypeComesBack
     DEF DissectSound
<1> QED
  BY <1>1, FrameInitially, FrameStep, PTL DEF FastSpec

(* The bytes highlighted for a field of the IPv4 header are those it was   *)
(* read from, unless the packet has a VLAN tag, for which the offset of    *)
(* dissect_detail leaves no room.                                          *)
THEOREM UntaggedFieldsFound == FastSpec => [](frame.vlans = 0 => RangesPointAtFields)
<1>1. ASSUME FrameInv, frame.vlans = 0 PROVE RangesPointAtFields
  <2> DEFINE base == LinkHeaderLen(frame.link, frame)
  <2>1. FrameOK(frame)
    BY <1>1 DEF FrameInv
  <2>2. base = LinkLength(frame)
    BY <1>1, <2>1 DEF LinkHeaderLen, LinkLength, FrameOK, LinkTypes
  <2> HIDE DEF base
  <2>3. ASSUME NEW x \in Range(DissectDetail(frame)), x.name = "ip4"
        PROVE  x.ranges = {<<LinkLength(frame) + r[1], LinkLength(frame) + r[2]>> : r \in Ipv4Fields}
    <3>1. x \in Range(DissectLink(frame)) \union Range(DissectIpLayers(frame))
      BY <2>1, <2>3, PartsOfDetail, RangeJoined DEF DissectDetail
    <3>2. x \notin Range(DissectLink(frame))
      BY <2>1, <2>3, PartsOfDetail DEF NamesIn
    <3>3. DissectIpLayers(frame) = DissectNet(frame, base) \o DissectTransport(frame)
      BY <3>1, <3>2, RangeNone DEF DissectIpLayers, base
    <3>4. /\ DissectNet(frame, base) \in Seq(Layer) /\ DissectTransport(frame) \in Seq(Layer)
          /\ NamesIn(Range(DissectTransport(frame))) = {Sliced(frame).transport} \ {"none"}
      BY <2>1, IpParts DEF base
    <3>5. x \in Range(DissectNet(frame, base)) \union Range(DissectTransport(frame))
      BY <3>1, <3>2, <3>3, <3>4, RangeJoined
    <3>6. x \notin Range(DissectTransport(frame))
      <4>1. Sliced(frame).transport # "ip4"
        BY <2>1, SlicedSorts
      <4> QED
        BY <2>3, <3>4, <4>1 DEF NamesIn
    <3>7. x \in Range(DissectNet(frame, base))
      BY <3>5, <3>6
    <3>8. CASE Sliced(frame).net = "ip4"
      <4>1. x = DetailLayer("ip4", {<<base + r[1], base + r[2]>> : r \in Ipv4Fields})
        BY <3>7, <3>8, RangeOne DEF DissectNet
      <4> QED
        BY <2>2, <4>1 DEF DetailLayer
    <3>9. CASE Sliced(frame).net = "ip6"
      <4>1. x = DetailLayer("ip6", {})
        BY <3>7, <3>9, RangeOne DEF DissectNet
      <4> QED
        BY <2>3, <4>1 DEF DetailLayer
    <3>10. CASE Sliced(frame).net \notin {"ip4", "ip6"}
      BY <3>7, <3>10, RangeNone DEF DissectNet
    <3> QED
      BY <3>8, <3>9, <3>10
  <2> QED
    BY <2>3 DEF RangesPointAtFields, Range
<1> QED
  BY <1>1, FrameInitially, FrameStep, PTL DEF FastSpec

(* Quotients and remainders.                                               *)
LEMMA QuotientIs ==
  ASSUME NEW d \in Nat, d > 0, NEW q \in Int, NEW r \in 0..(d - 1)
  PROVE  (d * q + r) \div d = q /\ (d * q + r) % d = r
<1> DEFINE a == d * q + r
           s == a \div d
           t == a % d
<1>1. a \in Int /\ s \in Int /\ t \in 0..(d - 1) /\ a = d * s + t
  OBVIOUS
<1>2. d * (q - s) = t - r
  <2>1. d * (q - s) = d * q - d * s
    OBVIOUS
  <2> HIDE DEF s, t
  <2> QED
    BY <1>1, <2>1
<1> HIDE DEF a, s, t
<1>3. q - s = 0
  <2> DEFINE e == q - s
  <2>1. e \in Int /\ -d < d * e /\ d * e < d
    BY <1>1, <1>2
  <2> HIDE DEF e
  <2>2. e >= 1 => d * e >= d
    BY <2>1
  <2>3. e <= -1 => d * e <= -d
    BY <2>1
  <2> QED
    BY <2>1, <2>2, <2>3 DEF e
<1>4. s = q /\ t = r
  BY <1>1, <1>2, <1>3
<1> QED
  BY <1>4 DEF a, s, t

LEMMA DivHalf ==
  ASSUME NEW a \in Nat, NEW m \in Nat, m > 0
  PROVE  a \div (2 * m) = (a \div m) \div 2
<1> DEFINE q == a \div m
           r == a % m
           s == q \div 2
           t == q % 2
<1>1. a = m * q + r /\ q \in Nat /\ r \in 0..(m - 1)
  OBVIOUS
<1>2. q = 2 * s + t /\ s \in Nat /\ t \in 0..1
  <2> HIDE DEF q
  <2> QED
    BY <1>1
<1> HIDE DEF q, r, s, t
<1>3. a = (2 * m) * s + (m * t + r)
  BY <1>1, <1>2
<1>4. m * t + r \in 0..(2 * m - 1)
  <2>1. CASE t = 0
    BY <1>1, <2>1
  <2>2. CASE t = 1
    BY <1>1, <2>2
  <2> QED
    BY <1>2, <2>1, <2>2
<1>5. a \div (2 * m) = s
  BY <1>1, <1>2, <1>3, <1>4, QuotientIs
<1> QED
  BY <1>5 DEF q, s

LEMMA PlacePositive ==
  ASSUME NEW k \in Nat
  PROVE  Place(k) \in Nat /\ Place(k) > 0
<1> DEFINE S == {n \in Nat : Place(n) > 0}
<1>1. 0 \in S
  BY PlaceDoubles
<1>2. ASSUME NEW n \in S PROVE n + 1 \in S
  BY PlaceDoubles
<1>3. S \in SUBSET Nat
  OBVIOUS
<1> HIDE DEF S
<1>4. S = Nat
  BY <1>1, <1>2, <1>3, SetInduction
<1> QED
  BY <1>4, PlaceDoubles DEF S

LEMMA PlaceAdds ==
  ASSUME NEW j \in Nat, NEW k \in Nat
  PROVE  Place(j + k) = Place(j) * Place(k)
<1> DEFINE S == {n \in Nat : Place(j + n) = Place(j) * Place(n)}
<1>1. 0 \in S
  <2>1. j + 0 = j /\ Place(0) = 1 /\ Place(j) \in Nat
    BY PlaceDoubles
  <2>2. Place(j) * Place(0) = Place(j)
    BY <2>1
  <2> QED
    BY <2>1, <2>2
<1>2. ASSUME NEW n \in S PROVE n + 1 \in S
  <2>1. n \in Nat /\ n + 1 \in Nat /\ j + n \in Nat /\ j + (n + 1) = (j + n) + 1
    OBVIOUS
  <2>2. Place(j + (n + 1)) = 2 * Place(j + n) /\ Place(n + 1) = 2 * Place(n)
    BY <2>1, PlaceDoubles
  <2>3. Place(j + n) = Place(j) * Place(n)
    OBVIOUS
  <2>4. Place(j) \in Nat /\ Place(n) \in Nat
    BY <2>1, PlacePositive
  <2>5. 2 * (Place(j) * Place(n)) = Place(j) * (2 * Place(n))
    BY <2>4
  <2>6. Place(j + (n + 1)) = Place(j) * Place(n + 1)
    BY <2>2, <2>3, <2>5
  <2> QED
    BY <2>1, <2>6
<1>3. S \in SUBSET Nat
  OBVIOUS
<1> HIDE DEF S
<1>4. S = Nat
  BY <1>1, <1>2, <1>3, SetInduction
<1> QED
  BY <1>4 DEF S

LEMMA PlaceGrows ==
  ASSUME NEW j \in Nat, NEW k \in Nat, j <= k
  PROVE  /\ Place(k) = Place(j) * Place(k - j) /\ Place(j) <= Place(k)
         /\ j < k => Place(k - j) % 2 = 0
<1>1. k - j \in Nat /\ j + (k - j) = k
  OBVIOUS
<1>2. Place(k) = Place(j) * Place(k - j)
  BY <1>1, PlaceAdds
<1>3. Place(j) \in Nat /\ Place(j) > 0 /\ Place(k - j) \in Nat /\ Place(k - j) >= 1
  BY <1>1, PlacePositive
<1>4. Place(j) <= Place(j) * Place(k - j)
  BY <1>3
<1>5. ASSUME j < k PROVE Place(k - j) % 2 = 0
  <2>1. k - j - 1 \in Nat /\ (k - j - 1) + 1 = k - j
    BY <1>5
  <2>2. Place(k - j) = 2 * Place(k - j - 1) /\ Place(k - j - 1) \in Nat
    BY <2>1, PlaceDoubles
  <2> QED
    BY <2>2
<1> QED
  BY <1>2, <1>4, <1>5

(* The bits of 1...10...0, a number of w bits that ends in k zeros.        *)
LEMMA OnesThenZeros ==
  ASSUME NEW w \in Nat, NEW k \in 0..w
  PROVE  /\ Place(w) - Place(k) \in 0..(Place(w) - 1)
         /\ Bits(Place(w) - Place(k), w) = k..(w - 1)
<1>1. k \in Nat /\ k <= w /\ Place(w) \in Nat /\ Place(k) \in Nat /\ Place(k) > 0
  BY PlacePositive
<1>2. Place(k) <= Place(w)
  BY <1>1, PlaceGrows
<1>3. ASSUME NEW i \in 0..(w - 1)
      PROVE  ((Place(w) - Place(k)) \div Place(i)) % 2 = 1 <=> i >= k
  <2>1. i \in Nat /\ i <= w /\ i < w /\ Place(i) \in Nat /\ Place(i) > 0
    BY PlacePositive
  <2>2. Place(w) = Place(i) * Place(w - i) /\ Place(w - i) % 2 = 0
    BY <2>1, PlaceGrows
  <2>3. Place(w - i) \in Nat
    BY <2>1, PlacePositive
  <2>4. CASE i >= k
    <3>1. Place(i) - Place(k) \in 0..(Place(i) - 1)
      BY <1>1, <2>1, <2>4, PlaceGrows
    <3>2. Place(w) - Place(k) = Place(i) * (Place(w - i) - 1) + (Place(i) - Place(k))
      BY <1>1, <2>1, <2>2, <2>3
    <3>3. Place(w - i) - 1 \in Int
      BY <2>3
    <3>4. (Place(w) - Place(k)) \div Place(i) = Place(w - i) - 1
      BY <2>1, <3>1, <3>2, <3>3, QuotientIs
    <3>5. (Place(w - i) - 1) % 2 = 1
      BY <2>2, <2>3
    <3> QED
      BY <2>4, <3>4, <3>5
  <2>5. CASE i < k
    <3>1. Place(k) = Place(i) * Place(k - i) /\ Place(k - i) % 2 = 0
      BY <1>1, <2>1, <2>5, PlaceGrows
    <3>2. k - i \in Nat /\ Place(k - i) \in Nat
      BY <1>1, <2>1, <2>5, PlacePositive
    <3>3. Place(w) - Place(k) = Place(i) * (Place(w - i) - Place(k - i)) + 0
      BY <1>1, <2>1, <2>2, <2>3, <3>1, <3>2
    <3>4. Place(w - i) - Place(k - i) \in Int /\ 0 \in 0..(Place(i) - 1)
      BY <2>1, <2>3, <3>2
    <3>5. (Place(w) - Place(k)) \div Place(i) = Place(w - i) - Place(k - i)
      BY <2>1, <3>3, <3>4, QuotientIs
    <3>6. (Place(w - i) - Place(k - i)) % 2 = 0
      BY <2>2, <2>3, <3>1, <3>2
    <3> QED
      BY <1>1, <2>1, <2>5, <3>5, <3>6
  <2> QED
    BY <1>1, <2>1, <2>4, <2>5
<1>4. Bits(Place(w) - Place(k), w) = k..(w - 1)
  BY <1>1, <1>3 DEF Bits
<1> QED
  BY <1>1, <1>2, <1>4

(* What a mask leaves of an address: its upper p bits.                     *)
LEMMA MaskBits ==
  ASSUME NEW p \in 0..Width
  PROVE  Bits(Mask(p), Width) = (Width - p)..(Width - 1)
<1> DEFINE k == Width - p
<1>1. Width \in Nat /\ Width > 0 /\ k \in 0..Width /\ p \in Nat
  BY TextAssumption
<1> HIDE DEF k
<1>2. Place(Width) \in Nat /\ Place(k) \in Nat /\ Place(k) > 0
  BY <1>1, PlacePositive
<1>3. Place(Width) - Place(k) \in 0..(Place(Width) - 1) /\ Bits(Place(Width) - Place(k), Width) = k..(Width - 1)
  BY <1>1, OnesThenZeros
<1>4. Mask(p) = Place(Width) - Place(k)
  <2>1. CASE p = 0
    <3>1. k = Width
      BY <1>1, <2>1 DEF k
    <3> QED
      BY <1>2, <2>1, <3>1 DEF Mask
  <2>2. CASE p = Width
    <3>1. k = 0
      BY <1>1, <2>2 DEF k
    <3>2. Place(k) = 1
      BY <3>1, PlaceDoubles
    <3> QED
      BY <1>1, <2>2, <3>2 DEF Mask, AllBits
  <2>3. CASE p # 0 /\ p # Width
    <3>1. Mask(p) = ((Place(Width) - 1) * Place(k)) % Place(Width)
      BY <1>1, <2>3 DEF Mask, AllBits, k
    <3>2. (Place(Width) - 1) * Place(k) = Place(Width) * (Place(k) - 1) + (Place(Width) - Place(k))
      BY <1>2
    <3>3. Place(k) - 1 \in Int /\ Place(Width) > 0
      BY <1>1, <1>2, PlacePositive
    <3> QED
      BY <1>2, <1>3, <3>1, <3>2, <3>3, QuotientIs
  <2> QED
    BY <2>1, <2>2, <2>3
<1> QED
  BY <1>3, <1>4 DEF k

Bit(x, i) == (x \div Place(i)) % 2

(* Two numbers of w bits that agree in all from bit k on.                  *)
LEMMA UpperBits ==
  ASSUME NEW w \in Nat, NEW k \in 0..w, NEW x \in 0..(Place(w) - 1), NEW y \in 0..(Place(w) - 1)
  PROVE  (\A i \in k..(w - 1) : Bit(x, i) = Bit(y, i)) <=> x \div Place(k) = y \div Place(k)
<1>1. k \in Nat /\ k <= w /\ x \in Nat /\ y \in Nat
  BY PlacePositive
<1>2. ASSUME NEW i \in Nat
      PROVE  /\ Place(i) \in Nat /\ Place(i) > 0
             /\ x \div Place(i) \in Nat /\ y \div Place(i) \in Nat
             /\ x \div Place(i + 1) = (x \div Place(i)) \div 2
             /\ y \div Place(i + 1) = (y \div Place(i)) \div 2
  <2>1. Place(i) \in Nat /\ Place(i) > 0 /\ Place(i + 1) = 2 * Place(i)
    BY PlacePositive, PlaceDoubles
  <2>2. x \div Place(i) \in Nat /\ y \div Place(i) \in Nat
    BY <1>1, <2>1
  <2> QED
    BY <1>1, <2>1, <2>2, DivHalf
<1>3. ASSUME \A i \in k..(w - 1) : Bit(x, i) = Bit(y, i)
      PROVE  x \div Place(k) = y \div Place(k)
  <2> DEFINE S == {n \in Nat : n <= w - k => x \div Place(w - n) = y \div Place(w - n)}
  <2>1. 0 \in S
    <3>1. Place(w) \in Nat /\ Place(w) > 0 /\ x < Place(w) /\ y < Place(w)
      <4>1. Place(w) \in Nat /\ Place(w) > 0
        BY PlacePositive
      <4> QED
        BY <4>1
    <3>2. x \div Place(w) = 0 /\ y \div Place(w) = 0
      <4>1. /\ x = Place(w) * 0 + x /\ x \in 0..(Place(w) - 1)
            /\ y = Place(w) * 0 + y /\ y \in 0..(Place(w) - 1)
        BY <1>1, <3>1
      <4>2. (Place(w) * 0 + x) \div Place(w) = 0 /\ (Place(w) * 0 + y) \div Place(w) = 0
        BY <3>1, <4>1, QuotientIs
      <4> QED
        BY <4>1, <4>2
    <3> QED
      BY <3>2
  <2>2. ASSUME NEW n \in S PROVE n + 1 \in S
    <3> SUFFICES ASSUME n + 1 <= w - k
                 PROVE  x \div Place(w - (n + 1)) = y \div Place(w - (n + 1))
      OBVIOUS
    <3> DEFINE i == w - (n + 1)
    <3>1. i \in Nat /\ i \in k..(w - 1) /\ i + 1 = w - n /\ n <= w - k
      BY <1>1
    <3>2. x \div Place(i + 1) = y \div Place(i + 1)
      BY <3>1
    <3> HIDE DEF i
    <3>3. (x \div Place(i)) \div 2 = (y \div Place(i)) \div 2
      BY <1>2, <3>1, <3>2
    <3>4. (x \div Place(i)) % 2 = (y \div Place(i)) % 2
      BY <1>3, <3>1 DEF Bit
    <3>5. \A m, n2 \in Nat : m \div 2 = n2 \div 2 /\ m % 2 = n2 % 2 => m = n2
      OBVIOUS
    <3>6. x \div Place(i) \in Nat /\ y \div Place(i) \in Nat
      BY <1>2, <3>1
    <3>7. x \div Place(i) = y \div Place(i)
      BY <3>3, <3>4, <3>5, <3>6
    <3> QED
      BY <3>7 DEF i
  <2>3. S \in SUBSET Nat
    OBVIOUS
  <2> HIDE DEF S
  <2>4. S = Nat
    BY <2>1, <2>2, <2>3, SetInduction
  <2>5. w - k \in S /\ w - (w - k) = k
    BY <1>1, <2>4
  <2> QED
    BY <2>5 DEF S
<1>4. ASSUME x \div Place(k) = y \div Place(k)
      PROVE  \A i \in k..(w - 1) : Bit(x, i) = Bit(y, i)
  <2> DEFINE S == {n \in Nat : x \div Place(k + n) = y \div Place(k + n)}
  <2>1. 0 \in S
    BY <1>1, <1>4
  <2>2. ASSUME NEW n \in S PROVE n + 1 \in S
    <3>1. k + n \in Nat /\ k + (n + 1) = (k + n) + 1
      BY <1>1
    <3>2. x \div Place(k + n) = y \div Place(k + n)
      OBVIOUS
    <3>3. x \div Place((k + n) + 1) = y \div Place((k + n) + 1)
      BY <1>2, <3>1, <3>2
    <3> QED
      BY <3>1, <3>3
  <2>3. S \in SUBSET Nat
    OBVIOUS
  <2> HIDE DEF S
  <2>4. S = Nat
    BY <2>1, <2>2, <2>3, SetInduction
  <2> SUFFICES ASSUME NEW i \in k..(w - 1) PROVE Bit(x, i) = Bit(y, i)
    OBVIOUS
  <2>5. i - k \in S /\ k + (i - k) = i
    BY <1>1, <2>4
  <2>6. x \div Place(i) = y \div Place(i)
    BY <2>5 DEF S
  <2> QED
    BY <2>6 DEF Bit
<1> QED
  BY <1>3, <1>4

-----------------------------------------------------------------------------
(* Comparisons of the filter language.                                     *)

EvalInv ==
  /\ query = [field |-> query.field, op |-> query.op, value |-> query.value, p |-> query.p]
  /\ query.field \in Fields /\ query.op \in Ops /\ query.value \in Values /\ query.p \in Packets

LEMMA EvalInitially == EvalInit => EvalInv
BY DEF EvalInit, EvalInv, Fields, Ops

LEMMA EvalStep == EvalInv /\ [Ask]_query => EvalInv'
<1> SUFFICES ASSUME EvalInv, [Ask]_query PROVE EvalInv'
  OBVIOUS
<1>1. CASE UNCHANGED query
  BY <1>1 DEF EvalInv
<1>2. ASSUME NEW f \in Fields, query' = [query EXCEPT !.field = f] PROVE EvalInv'
  <2>1. query' = [field |-> f, op |-> query.op, value |-> query.value, p |-> query.p]
    BY <1>2 DEF EvalInv
  <2> QED
    BY <2>1 DEF EvalInv
<1>3. ASSUME NEW op \in Ops, query' = [query EXCEPT !.op = op] PROVE EvalInv'
  <2>1. query' = [field |-> query.field, op |-> op, value |-> query.value, p |-> query.p]
    BY <1>3 DEF EvalInv
  <2> QED
    BY <2>1 DEF EvalInv
<1> QED
  BY <1>1, <1>2, <1>3 DEF Ask

LEMMA AnswerIs ==
  \A op : Answer(op) = EvalCompare(query.field, op, query.value, query.p)
BY DEF Answer, Matches

(* The comparison of each field.                                           *)
LEMMA EvalFields ==
  ASSUME NEW op, NEW value, NEW p
  PROVE  /\ EvalCompare("ip.src", op, value, p) = CmpIp(p.source, op, value)
         /\ EvalCompare("ip.dst", op, value, p) = CmpIp(p.destination, op, value)
         /\ EvalCompare("port.src", op, value, p) = Present(p.srcPort, op, CmpInt(p.srcPort, op, value))
         /\ EvalCompare("port.dst", op, value, p) = Present(p.dstPort, op, CmpInt(p.dstPort, op, value))
         /\ EvalCompare("len", op, value, p) = CmpInt(p.wireLength, op, value)
         /\ EvalCompare("info", op, value, p) = CmpStr(p.info, op, value)
         /\ EvalCompare("eth.src", op, value, p) = Present(p.ethSrc, op, CmpStr(p.ethSrc, op, value))
         /\ EvalCompare("eth.dst", op, value, p) = Present(p.ethDst, op, CmpStr(p.ethDst, op, value))
         /\ EvalCompare("vlan.id", op, value, p) = Present(p.vlan, op, CmpInt(p.vlan, op, value))
<1>1. EvalCompare("ip.src", op, value, p) = CmpIp(p.source, op, value)
  BY DEF EvalCompare, FlagBit, PfTexts
<1>2. EvalCompare("ip.dst", op, value, p) = CmpIp(p.destination, op, value)
  BY DEF EvalCompare, FlagBit, PfTexts
<1>3. EvalCompare("port.src", op, value, p) = Present(p.srcPort, op, CmpInt(p.srcPort, op, value))
  BY DEF EvalCompare, FlagBit, PfTexts
<1>4. EvalCompare("port.dst", op, value, p) = Present(p.dstPort, op, CmpInt(p.dstPort, op, value))
  BY DEF EvalCompare, FlagBit, PfTexts
<1>5. EvalCompare("len", op, value, p) = CmpInt(p.wireLength, op, value)
  BY DEF EvalCompare, FlagBit, PfTexts
<1>6. EvalCompare("info", op, value, p) = CmpStr(p.info, op, value)
  BY DEF EvalCompare, FlagBit, PfTexts
<1>7. EvalCompare("eth.src", op, value, p) = Present(p.ethSrc, op, CmpStr(p.ethSrc, op, value))
  BY DEF EvalCompare, FlagBit, PfTexts
<1>8. EvalCompare("eth.dst", op, value, p) = Present(p.ethDst, op, CmpStr(p.ethDst, op, value))
  BY DEF EvalCompare, FlagBit, PfTexts
<1>9. EvalCompare("vlan.id", op, value, p) = Present(p.vlan, op, CmpInt(p.vlan, op, value))
  BY DEF EvalCompare, FlagBit, PfTexts
<1> QED
  BY <1>1, <1>2, <1>3, <1>4, <1>5, <1>6, <1>7, <1>8, <1>9

LEMMA EvalMoreFields ==
  ASSUME NEW op, NEW value, NEW p
  PROVE  /\ \A field \in DOMAIN FlagBit :
              EvalCompare(field, op, value, p) = CmpInt((p.flags \div Place(Shift[field])) % 2, op, value)
         /\ \A field \in PfTexts :
              EvalCompare(field, op, value, p) = (p.link.is = "pflog" /\ CmpStr(p.link.text[field], op, value))
         /\ EvalCompare("pf.rule", op, value, p) = (p.link.is = "pflog" /\ CmpInt(p.link.rule, op, value))
         /\ EvalCompare("enc.spi", op, value, p) = (p.link.is = "enc" /\ CmpInt(p.link.spi, op, value))
         /\ EvalCompare("enc.flags", op, value, p) =
              (p.link.is = "enc" /\ IF value.is = "str" THEN CmpStr(p.link.flagsText, op, value)
                                    ELSE value.is = "int" /\ CmpInt(p.link.flags, op, value))
<1>1. ASSUME NEW field \in DOMAIN FlagBit
      PROVE  EvalCompare(field, op, value, p) = CmpInt((p.flags \div Place(Shift[field])) % 2, op, value)
  BY DEF EvalCompare, FlagBit, PfTexts
<1>2. ASSUME NEW field \in PfTexts
      PROVE  EvalCompare(field, op, value, p) = (p.link.is = "pflog" /\ CmpStr(p.link.text[field], op, value))
  BY DEF EvalCompare, FlagBit, PfTexts
<1>3. EvalCompare("pf.rule", op, value, p) = (p.link.is = "pflog" /\ CmpInt(p.link.rule, op, value))
  BY DEF EvalCompare, FlagBit, PfTexts
<1>4. EvalCompare("enc.spi", op, value, p) = (p.link.is = "enc" /\ CmpInt(p.link.spi, op, value))
  BY DEF EvalCompare, FlagBit, PfTexts
<1>5. EvalCompare("enc.flags", op, value, p) =
        (p.link.is = "enc" /\ IF value.is = "str" THEN CmpStr(p.link.flagsText, op, value)
                              ELSE value.is = "int" /\ CmpInt(p.link.flags, op, value))
  BY DEF EvalCompare, FlagBit, PfTexts
<1> QED
  BY <1>1, <1>2, <1>3, <1>4, <1>5

(* A prefix compares the upper bits of two addresses.                      *)
LEMMA NetworkOf ==
  ASSUME NEW text, NEW value, text \in DOMAIN AddressOf,
         value.net \in 0..AllBits, value.p \in 0..Width
  PROVE  InNetwork(text, value) <=>
           AddressOf[text] \div Place(Width - value.p) = value.net \div Place(Width - value.p)
<1> DEFINE x == AddressOf[text]
           y == value.net
           k == Width - value.p
           mask == Bits(Mask(value.p), Width)
<1>1. Width \in Nat /\ k \in 0..Width /\ Place(Width) \in Nat
  BY TextAssumption, PlacePositive
<1>2. x \in 0..(Place(Width) - 1) /\ y \in 0..(Place(Width) - 1)
  BY SpellingAssumption DEF AllBits
<1>3. mask = k..(Width - 1)
  BY MaskBits
<1>4. InNetwork(text, value) <=> Bits(x, Width) \intersect mask = Bits(y, Width) \intersect mask
  BY DEF InNetwork
<1> HIDE DEF x, y, k, mask
<1>5. ASSUME NEW i \in k..(Width - 1)
      PROVE  /\ i \in 0..(Width - 1)
             /\ i \in Bits(x, Width) <=> Bit(x, i) = 1
             /\ i \in Bits(y, Width) <=> Bit(y, i) = 1
             /\ Bit(x, i) \in {0, 1} /\ Bit(y, i) \in {0, 1}
  <2>1. i \in 0..(Width - 1) /\ i \in Nat
    BY <1>1
  <2>2. i \in Bits(x, Width) <=> Bit(x, i) = 1
    BY <2>1 DEF Bits, Bit
  <2>3. i \in Bits(y, Width) <=> Bit(y, i) = 1
    BY <2>1 DEF Bits, Bit
  <2>4. Place(i) \in Nat /\ Place(i) > 0
    BY <2>1, PlacePositive
  <2>5. x \div Place(i) \in Int /\ y \div Place(i) \in Int
    BY <1>1, <1>2, <2>4
  <2>6. Bit(x, i) \in {0, 1} /\ Bit(y, i) \in {0, 1}
    BY <2>5 DEF Bit
  <2> QED
    BY <2>1, <2>2, <2>3, <2>6
<1>6. Bits(x, Width) \intersect mask = Bits(y, Width) \intersect mask
        <=> \A i \in k..(Width - 1) : Bit(x, i) = Bit(y, i)
  <2>1. ASSUME Bits(x, Width) \intersect mask = Bits(y, Width) \intersect mask, NEW i \in k..(Width - 1)
        PROVE  Bit(x, i) = Bit(y, i)
    <3>1. i \in Bits(x, Width) <=> i \in Bits(y, Width)
      BY <1>3, <2>1
    <3> QED
      BY <1>5, <3>1
  <2>2. ASSUME \A i \in k..(Width - 1) : Bit(x, i) = Bit(y, i)
        PROVE  Bits(x, Width) \intersect mask = Bits(y, Width) \intersect mask
    <3>1. \A i \in mask : i \in Bits(x, Width) <=> i \in Bits(y, Width)
      BY <1>3, <1>5, <2>2
    <3> QED
      BY <3>1
  <2> QED
    BY <2>1, <2>2
<1>7. (\A i \in k..(Width - 1) : Bit(x, i) = Bit(y, i)) <=> x \div Place(k) = y \div Place(k)
  BY <1>1, <1>2, UpperBits
<1> QED
  BY <1>4, <1>6, <1>7 DEF x, y, k

LEMMA PrefixesDecide == EvalInv => PrefixDecides
<1> SUFFICES ASSUME EvalInv, query.value.is = "cidr", query.field \in {"ip.src", "ip.dst"}
             PROVE  LET text == IF query.field = "ip.src" THEN query.p.source ELSE query.p.destination
                        size == Place(Width - query.value.p)
                    IN  Answer("eq") <=> /\ text \in DOMAIN AddressOf
                                         /\ AddressOf[text] \div size = query.value.net \div size
  BY DEF PrefixDecides
<1> DEFINE text == IF query.field = "ip.src" THEN query.p.source ELSE query.p.destination
<1>1. Answer("eq") = CmpIp(text, "eq", query.value)
  BY AnswerIs, EvalFields
<1>2. CmpIp(text, "eq", query.value) <=> InNetwork(text, query.value)
  BY DEF CmpIp
<1>3. query.value.net \in 0..AllBits /\ query.value.p \in 0..Width
  BY ValueAssumption DEF EvalInv
<1>4. InNetwork(text, query.value) => text \in DOMAIN AddressOf
  BY DEF InNetwork
<1> HIDE DEF text
<1>5. Answer("eq") <=> /\ text \in DOMAIN AddressOf
                       /\ AddressOf[text] \div Place(Width - query.value.p) =
                            query.value.net \div Place(Width - query.value.p)
  BY <1>1, <1>2, <1>3, <1>4, NetworkOf
<1> QED
  BY <1>5 DEF text

LEMMA AbsentMatchesNothing == EvalInv => AbsentNeverMatches
<1>1. \A op : Answer(op) = EvalCompare(query.field, op, query.value, query.p)
  BY AnswerIs
<1>2. \A op, cmp : ~Present(Absent, op, cmp)
  BY DEF Present
<1>3. query.field = "port.src" /\ query.p.srcPort = Absent => ~Answer(query.op)
  BY <1>1, <1>2, EvalFields
<1>4. query.field = "vlan.id" /\ query.p.vlan = Absent => ~Answer(query.op)
  BY <1>1, <1>2, EvalFields
<1>5. query.field = "eth.src" /\ query.p.ethSrc = Absent => ~Answer(query.op)
  BY <1>1, <1>2, EvalFields
<1> QED
  BY <1>3, <1>4, <1>5 DEF AbsentNeverMatches

LEMMA FlagsSayTheSame == EvalInv => FlagsAgree
<1> SUFFICES ASSUME EvalInv, query.field \in DOMAIN FlagBit
             PROVE  LET set == Matches([is |-> "bare", field |-> query.field], query.p)
                    IN  /\ set <=> EvalCompare(query.field, "eq", [is |-> "int", n |-> 1], query.p)
                        /\ set <=> ~EvalCompare(query.field, "eq", [is |-> "int", n |-> 0], query.p)
  BY DEF FlagsAgree
<1> DEFINE bit == (query.p.flags \div Place(Shift[query.field])) % 2
<1>1. query.p.flags \in Nat
  BY PacketAssumption DEF EvalInv
<1>2. Place(Shift[query.field]) = FlagBit[query.field]
  BY <1>1, FlagMask
<1>3. bit \in {0, 1}
  <2>1. FlagBit[query.field] \in {1, 2, 4, 8, 16, 32}
    BY DEF FlagBit
  <2>2. query.p.flags \div FlagBit[query.field] \in Int
    BY <1>1, <2>1
  <2> QED
    BY <1>2, <2>2
<1>4. EvalBareField(query.field, query.p) <=> bit = 1
  BY <1>1, <1>2, FlagMask DEF EvalBareField
<1>5. Matches([is |-> "bare", field |-> query.field], query.p) = EvalBareField(query.field, query.p)
  BY DEF Matches
<1> HIDE DEF bit
<1>6. ASSUME NEW n \in {0, 1}
      PROVE  EvalCompare(query.field, "eq", [is |-> "int", n |-> n], query.p) <=> bit = n
  <2>1. EvalCompare(query.field, "eq", [is |-> "int", n |-> n], query.p)
          = CmpInt(bit, "eq", [is |-> "int", n |-> n])
    BY EvalMoreFields DEF bit
  <2>2. n # Absent
    BY AbsentAssumption
  <2> QED
    BY <2>1, <2>2 DEF CmpInt, Ordered
<1> QED
  BY <1>3, <1>4, <1>5, <1>6

(* Texts in lower case.                                                    *)
LEMMA LowerIs ==
  ASSUME NEW w, IsWord(w)
  PROVE  /\ w \in Seq(DOMAIN Lower) /\ Len(w) \in Nat /\ DOMAIN w = 1..Len(w)
         /\ LowerText(w) = [i \in 1..Len(w) |-> Lower[w[i]]]
         /\ Len(LowerText(w)) = Len(w)
         /\ ~TextBefore(LowerText(w), LowerText(w))
<1>1. w \in Seq(DOMAIN Lower) /\ Len(w) \in Nat /\ DOMAIN w = 1..Len(w)
  BY LenProperties DEF IsWord
<1>2. LowerText(w) = [i \in 1..Len(w) |-> Lower[w[i]]]
  BY <1>1 DEF LowerText
<1>3. LowerText(w) \in Seq({Lower[c] : c \in DOMAIN Lower}) /\ Len(LowerText(w)) = Len(w)
  <2>1. LowerText(w) \in [1..Len(w) -> {Lower[c] : c \in DOMAIN Lower}]
    BY <1>1, <1>2
  <2> QED
    BY <1>1, <2>1, SeqDef, LenProperties
<1>4. ASSUME NEW n \in Nat, n < Len(w) PROVE Rank[LowerText(w)[n + 1]] \in Nat
  <2>1. n + 1 \in 1..Len(w)
    BY <1>1, <1>4
  <2>2. LowerText(w)[n + 1] = Lower[w[n + 1]] /\ w[n + 1] \in DOMAIN Lower
    BY <1>1, <1>2, <2>1
  <2> QED
    BY <2>2, TextAssumption
<1>5. ~TextBefore(LowerText(w), LowerText(w))
  <2> SUFFICES ASSUME TextBefore(LowerText(w), LowerText(w)) PROVE FALSE
    OBVIOUS
  <2> DEFINE v == LowerText(w)
  <2>1. PICK n \in 0..Len(v) : n < Len(v) /\ (n < Len(v) => Rank[v[n + 1]] < Rank[v[n + 1]])
    BY DEF TextBefore
  <2>2. n \in Nat /\ n < Len(w)
    BY <1>1, <1>3, <2>1
  <2>3. Rank[v[n + 1]] \in Nat
    BY <1>4, <2>2
  <2> QED
    BY <2>1, <2>3
<1> QED
  BY <1>1, <1>2, <1>3, <1>5

(* A text is a window of any text it is part of.                           *)
LEMMA PartIsContained ==
  ASSUME NEW v, NEW x \in Seq(DOMAIN Lower), IsWord(v), NEW i \in Nat, i + Len(v) <= Len(x),
         \A j \in 1..Len(v) : LowerText(v)[j] = Lower[x[i + j]]
  PROVE  ContainsLower(x, LowerText(v))
<1>1. /\ Len(v) \in Nat /\ Len(LowerText(v)) = Len(v)
      /\ LowerText(v) = [j \in 1..Len(v) |-> Lower[v[j]]]
  BY LowerIs
<1>2. Len(x) \in Nat /\ DOMAIN x = 1..Len(x)
  BY LenProperties
<1>3. CASE Len(v) = 0
  <2>1. LowerText(v) = <<>>
    BY <1>1, <1>3
  <2> QED
    BY <2>1 DEF ContainsLower
<1>4. CASE Len(v) # 0
  <2> DEFINE part == SubSeq(x, i + 1, i + Len(v))
  <2>1. /\ i + 1 \in 1..(Len(x) + 1) /\ i + Len(v) \in i..Len(x)
        /\ i + 1 \in 1..(Len(x) - Len(v) + 1) /\ (i + 1) + Len(v) - 1 = i + Len(v)
        /\ (i + Len(v)) - (i + 1) + 1 = Len(v)
    BY <1>1, <1>2, <1>4
  <2>2. part = [j \in 1..Len(v) |-> x[i + j]]
    <3>1. part = [j \in 1..((i + Len(v)) - (i + 1) + 1) |-> x[(i + 1) + j - 1]]
      BY <1>1, <1>2, <2>1
    <3>2. \A j \in 1..Len(v) : (i + 1) + j - 1 = i + j
      BY <1>1
    <3> QED
      BY <2>1, <3>1, <3>2
  <2>3. part \in Windows(x, Len(v))
    BY <2>1 DEF Windows
  <2> HIDE DEF part
  <2>4. LowerText(part) = [j \in 1..Len(v) |-> Lower[x[i + j]]]
    BY <2>2 DEF LowerText
  <2>5. LowerText(part) = LowerText(v)
    BY <1>1, <2>4
  <2>6. Len(x) >= Len(LowerText(v)) /\ part \in Windows(x, Len(LowerText(v)))
    BY <1>1, <1>2, <2>1, <2>3
  <2> QED
    BY <2>5, <2>6 DEF ContainsLower
<1> QED
  BY <1>3, <1>4

LEMMA EqualsContained == EvalInv => EqualIsContained
<1> SUFFICES ASSUME EvalInv, query.value.is = "str", query.field \in {"info", "eth.src", "ip.src"} \union PfTexts
             PROVE  LET needle == LowerText(query.value.w)
                    IN  /\ Answer("eq") => Matches([is |-> "contains", field |-> query.field, needle |-> needle], query.p)
                        /\ \A w \in TextsOf(query.field, query.p) :
                             ContainsLower(w \o query.value.w, needle) /\ ContainsLower(query.value.w \o w, needle)
  BY DEF EqualIsContained
<1> DEFINE v == query.value.w
           needle == LowerText(v)
           p == query.p
<1>1. IsWord(v)
  BY ValueAssumption DEF EvalInv
<1>2. /\ v \in Seq(DOMAIN Lower) /\ Len(v) \in Nat /\ DOMAIN v = 1..Len(v)
      /\ needle = [i \in 1..Len(v) |-> Lower[v[i]]]
  BY <1>1, LowerIs
<1>3. p \in Packets
  BY DEF EvalInv
<1>4. ASSUME NEW w \in TextsOf(query.field, p) PROVE IsWord(w)
  <2>1. CASE query.field = "info"
    BY <1>3, <1>4, <2>1, PacketAssumption DEF TextsOf
  <2>2. CASE query.field = "eth.src"
    BY <1>3, <1>4, <2>2, PacketAssumption DEF TextsOf
  <2>3. CASE query.field = "ip.src"
    BY <1>3, <1>4, <2>3, PacketAssumption DEF TextsOf
  <2>4. CASE query.field \in PfTexts
    BY <1>3, <1>4, <2>4, PacketAssumption DEF TextsOf, PfTexts
  <2> QED
    BY <2>1, <2>2, <2>3, <2>4
<1>5. ASSUME Answer("eq")
      PROVE  \E w \in TextsOf(query.field, p) : LowerText(w) = needle
  <2>1. \A w : CmpStr(w, "eq", query.value) => LowerText(w) = needle
    BY DEF CmpStr, Ordered
  <2>2. \A w : CmpIp(w, "eq", query.value) => LowerText(w) = needle
    BY <2>1 DEF CmpIp
  <2>3. CASE query.field = "info"
    <3>1. CmpStr(p.info, "eq", query.value)
      BY <1>5, <2>3, AnswerIs, EvalFields
    <3>2. p.info \in TextsOf(query.field, p)
      BY <1>3, <2>3, PacketAssumption DEF TextsOf, PfTexts, IsWord
    <3> QED
      BY <2>1, <3>1, <3>2
  <2>4. CASE query.field = "eth.src"
    <3>1. p.ethSrc # Absent /\ CmpStr(p.ethSrc, "eq", query.value)
      BY <1>5, <2>4, AnswerIs, EvalFields DEF Present
    <3>2. p.ethSrc \in TextsOf(query.field, p)
      BY <2>4, <3>1 DEF TextsOf, PfTexts
    <3> QED
      BY <2>1, <3>1, <3>2
  <2>5. CASE query.field = "ip.src"
    <3>1. CmpIp(p.source, "eq", query.value)
      BY <1>5, <2>5, AnswerIs, EvalFields
    <3>2. p.source \in TextsOf(query.field, p)
      BY <1>3, <2>5, PacketAssumption DEF TextsOf, PfTexts, IsWord
    <3> QED
      BY <2>2, <3>1, <3>2
  <2>6. CASE query.field \in PfTexts
    <3>1. p.link.is = "pflog" /\ CmpStr(p.link.text[query.field], "eq", query.value)
      BY <1>5, <2>6, AnswerIs, EvalMoreFields
    <3>2. p.link.text[query.field] # Absent
      BY <1>3, <2>6, <3>1, PacketAssumption DEF IsWord
    <3>3. p.link.text[query.field] \in TextsOf(query.field, p)
      BY <2>6, <3>1, <3>2 DEF TextsOf, PfTexts
    <3> QED
      BY <2>1, <3>1, <3>3
  <2> QED
    BY <2>3, <2>4, <2>5, <2>6
<1> HIDE DEF v, p
<1>6. ASSUME NEW w, IsWord(w), LowerText(w) = needle
      PROVE  ContainsLower(w, needle)
  <2>1. w \in Seq(DOMAIN Lower) /\ Len(w) = Len(v) /\ LowerText(w) = [i \in 1..Len(w) |-> Lower[w[i]]]
    BY <1>1, <1>6, LowerIs
  <2>2. \A j \in 1..Len(v) : LowerText(v)[j] = Lower[w[0 + j]]
    BY <1>2, <1>6, <2>1
  <2> DEFINE n == 0
  <2>3. n \in Nat /\ n + Len(v) <= Len(w) /\ IsWord(v)
    BY <1>1, <1>2, <2>1
  <2>4. \A j \in 1..Len(v) : LowerText(v)[j] = Lower[w[n + j]]
    BY <2>2
  <2> HIDE DEF n
  <2>5. ContainsLower(w, LowerText(v))
    BY <2>1, <2>3, <2>4, PartIsContained
  <2> QED
    BY <1>1, <2>5
<1>7. ASSUME NEW w, IsWord(w)
      PROVE  ContainsLower(w \o v, needle) /\ ContainsLower(v \o w, needle)
  <2>1. w \in Seq(DOMAIN Lower) /\ Len(w) \in Nat
    BY <1>7, LowerIs
  <2>2. /\ w \o v \in Seq(DOMAIN Lower) /\ Len(w \o v) = Len(w) + Len(v)
        /\ v \o w \in Seq(DOMAIN Lower) /\ Len(v \o w) = Len(v) + Len(w)
    BY <1>2, <2>1, ConcatProperties
  <2>3. ASSUME NEW j \in 1..Len(v)
        PROVE  (w \o v)[Len(w) + j] = v[j] /\ (v \o w)[0 + j] = v[j]
    BY <1>2, <2>1, <2>3, ConcatProperties
  <2>4. \A j \in 1..Len(v) : needle[j] = Lower[(w \o v)[Len(w) + j]] /\ needle[j] = Lower[(v \o w)[0 + j]]
    BY <1>2, <2>3
  <2>5. ContainsLower(w \o v, needle)
    <3>1. w \o v \in Seq(DOMAIN Lower) /\ Len(w) \in Nat /\ Len(w) + Len(v) <= Len(w \o v)
      BY <1>2, <2>1, <2>2
    <3>2. \A j \in 1..Len(v) : LowerText(v)[j] = Lower[(w \o v)[Len(w) + j]]
      BY <2>4
    <3> QED
      BY <1>1, <3>1, <3>2, PartIsContained
  <2>6. ContainsLower(v \o w, needle)
    <3>1. v \o w \in Seq(DOMAIN Lower) /\ 0 \in Nat /\ 0 + Len(v) <= Len(v \o w)
      BY <1>2, <2>1, <2>2
    <3>2. \A j \in 1..Len(v) : LowerText(v)[j] = Lower[(v \o w)[0 + j]]
      BY <2>4
    <3> QED
      BY <1>1, <3>1, <3>2, PartIsContained
  <2> QED
    BY <2>5, <2>6
<1>8. Matches([is |-> "contains", field |-> query.field, needle |-> needle], p)
        <=> \E w \in TextsOf(query.field, p) : ContainsLower(w, needle)
  <2> HIDE DEF needle
  <2> QED
    BY DEF Matches, EvalContains
<1>9. Answer("eq") => Matches([is |-> "contains", field |-> query.field, needle |-> needle], p)
  BY <1>4, <1>5, <1>6, <1>8
<1>10. \A w \in TextsOf(query.field, p) : ContainsLower(w \o v, needle) /\ ContainsLower(v \o w, needle)
  BY <1>4, <1>7
<1> QED
  BY <1>9, <1>10 DEF v, p

(* The answers of the six operators come from one order of a field to a    *)
(* value: c says that they can be compared.                                *)
LEMMA IntOrder ==
  ASSUME NEW n \in Nat, NEW value \in Values
  PROVE  \E c, less, same \in BOOLEAN :
           ~(less /\ same) /\ \A op \in Ops : CmpInt(n, op, value) <=> c /\ Ordered(op, less, same)
<1> DEFINE m == IF value.is = "int" THEN value.n
                ELSE IF value.is = "str" /\ value.w \in DOMAIN NumberIn THEN NumberIn[value.w] ELSE Absent
<1>1. \A op : CmpInt(n, op, value) <=> m # Absent /\ Ordered(op, n < m, n = m)
  BY DEF CmpInt
<1>2. m = Absent \/ m \in Nat
  BY ValueAssumption, TextAssumption
<1> HIDE DEF m
<1>3. CASE m = Absent
  <2>1. ~(FALSE /\ FALSE) /\ \A op \in Ops : CmpInt(n, op, value) <=> FALSE /\ Ordered(op, FALSE, FALSE)
    BY <1>1, <1>3
  <2> QED
    BY <2>1
<1>4. CASE m # Absent
  <2> DEFINE less == n < m
             same == n = m
  <2>1. less \in BOOLEAN /\ same \in BOOLEAN /\ ~(less /\ same)
    BY <1>2, <1>4
  <2>2. \A op \in Ops : CmpInt(n, op, value) <=> TRUE /\ Ordered(op, less, same)
    BY <1>1, <1>4
  <2> HIDE DEF less, same
  <2> QED
    BY <2>1, <2>2
<1> QED
  BY <1>3, <1>4

LEMMA StrOrder ==
  ASSUME NEW text, IsWord(text), NEW value \in Values, value.is # "cidr"
  PROVE  \E c, less, same \in BOOLEAN :
           ~(less /\ same) /\ \A op \in Ops : CmpStr(text, op, value) <=> c /\ Ordered(op, less, same)
<1> DEFINE w == LowerText(IF value.is = "int" THEN Written[value.n] ELSE value.w)
           less == TextBefore(LowerText(text), w)
           same == LowerText(text) = w
<1>1. less \in BOOLEAN /\ same \in BOOLEAN
  BY DEF TextBefore
<1>2. ~(less /\ same)
  BY LowerIs
<1>3. \A op \in Ops : CmpStr(text, op, value) <=> TRUE /\ Ordered(op, less, same)
  BY DEF CmpStr
<1> HIDE DEF less, same
<1> QED
  BY <1>1, <1>2, <1>3

(* Texts tell addresses apart as numbers do, when both are canonical.      *)
LEMMA IpOrder ==
  ASSUME NEW text, IsWord(text), IsCanonical(text), NEW value \in Values, value.is # "cidr",
         value.is = "str" => IsCanonical(value.w)
  PROVE  \E c, less, same \in BOOLEAN :
           ~(less /\ same) /\ \A op \in Ops : CmpIp(text, op, value) <=> c /\ Ordered(op, less, same)
<1>1. CASE value.is = "str" /\ {text, value.w} \subseteq DOMAIN AddressOf
  <2> DEFINE x == AddressOf[text]
             y == AddressOf[value.w]
             less == x < y
             same == x = y
  <2>1. x \in 0..AllBits /\ y \in 0..AllBits
    BY <1>1, SpellingAssumption
  <2>2. AllBits \in Int
    BY TextAssumption, PlacePositive DEF AllBits
  <2>3. less \in BOOLEAN /\ same \in BOOLEAN /\ ~(less /\ same)
    BY <2>1, <2>2
  <2>4. Spelled[x] = text /\ Spelled[y] = value.w
    BY <1>1 DEF IsCanonical
  <2>5. LowerText(text) = text /\ LowerText(value.w) = value.w
    BY <1>1, <2>4, SpellingAssumption
  <2>6. (LowerText(text) = LowerText(value.w)) <=> same
    BY <2>4, <2>5
  <2>7. ASSUME NEW op \in {"eq", "ne"}
        PROVE  CmpIp(text, op, value) <=> TRUE /\ Ordered(op, less, same)
    <3>1. CmpIp(text, op, value) <=>
            Ordered(op, TextBefore(LowerText(text), LowerText(value.w)), LowerText(text) = LowerText(value.w))
      BY <1>1 DEF CmpIp, CmpStr
    <3> HIDE DEF less, same, x, y
    <3> QED
      BY <2>6, <3>1 DEF Ordered
  <2>8. ASSUME NEW op \in Ops \ {"eq", "ne"}
        PROVE  CmpIp(text, op, value) <=> TRUE /\ Ordered(op, less, same)
    BY <1>1 DEF CmpIp
  <2> HIDE DEF less, same, x, y
  <2>9. \A op \in Ops : CmpIp(text, op, value) <=> TRUE /\ Ordered(op, less, same)
    BY <2>7, <2>8
  <2> QED
    BY <2>3, <2>9
<1>2. CASE ~(value.is = "str" /\ {text, value.w} \subseteq DOMAIN AddressOf)
  <2>1. \A op \in Ops : CmpIp(text, op, value) = CmpStr(text, op, value)
    BY <1>2 DEF CmpIp
  <2> QED
    BY <2>1, StrOrder
<1> QED
  BY <1>1, <1>2

(* The same of whatever can be absent.                                     *)
LEMMA GuardedOrder ==
  ASSUME NEW there \in BOOLEAN, NEW answers,
         there => \E c, less, same \in BOOLEAN :
                    ~(less /\ same) /\ \A op \in Ops : answers[op] <=> c /\ Ordered(op, less, same)
  PROVE  \E c, less, same \in BOOLEAN :
           ~(less /\ same) /\ \A op \in Ops : (there /\ answers[op]) <=> c /\ Ordered(op, less, same)
<1>1. CASE there
  BY <1>1
<1>2. CASE ~there
  <2>1. ~(FALSE /\ FALSE) /\ \A op \in Ops : (there /\ answers[op]) <=> FALSE /\ Ordered(op, FALSE, FALSE)
    BY <1>2
  <2> QED
    BY <2>1
<1> QED
  BY <1>1, <1>2

LEMMA FieldOrder ==
  ASSUME EvalInv, query.field \notin EitherEnd, query.field # "proto", query.value.is # "cidr", Canonical
  PROVE  \E c, less, same \in BOOLEAN :
           ~(less /\ same) /\ \A op \in Ops : Answer(op) <=> c /\ Ordered(op, less, same)
<1> DEFINE p == query.p
           v == query.value
           int(n) == [op \in Ops |-> CmpInt(n, op, v)]
           str(w) == [op \in Ops |-> CmpStr(w, op, v)]
           Goal(there, answers) == \E c, less, same \in BOOLEAN :
             ~(less /\ same) /\ \A op \in Ops : (there /\ answers[op]) <=> c /\ Ordered(op, less, same)
<1>1. p \in Packets /\ v \in Values /\ query.field \in Fields
  BY DEF EvalInv
<1>2. ASSUME NEW there \in BOOLEAN, NEW n, there => n \in Nat PROVE Goal(there, int(n))
  <2>1. there => \E c, less, same \in BOOLEAN :
                   ~(less /\ same) /\ \A op \in Ops : int(n)[op] <=> c /\ Ordered(op, less, same)
    BY <1>1, <1>2, IntOrder
  <2> HIDE DEF int
  <2> QED
    BY <2>1, GuardedOrder
<1>3. ASSUME NEW there \in BOOLEAN, NEW w, there => IsWord(w) PROVE Goal(there, str(w))
  <2>1. there => \E c, less, same \in BOOLEAN :
                   ~(less /\ same) /\ \A op \in Ops : str(w)[op] <=> c /\ Ordered(op, less, same)
    BY <1>1, <1>3, StrOrder
  <2> HIDE DEF str
  <2> QED
    BY <2>1, GuardedOrder
<1>4. ASSUME NEW there \in BOOLEAN, NEW answers, Goal(there, answers),
             \A op \in Ops : Answer(op) <=> (there /\ answers[op])
      PROVE  \E c, less, same \in BOOLEAN :
               ~(less /\ same) /\ \A op \in Ops : Answer(op) <=> c /\ Ordered(op, less, same)
  BY <1>4
<1>5. CASE query.field \in {"ip.src", "ip.dst"}
  <2>1. ASSUME NEW text \in {p.source, p.destination}, \A op \in Ops : Answer(op) = CmpIp(text, op, v)
        PROVE  \E c, less, same \in BOOLEAN :
                 ~(less /\ same) /\ \A op \in Ops : Answer(op) <=> c /\ Ordered(op, less, same)
    <3>1. IsWord(text) /\ IsCanonical(text)
      BY <1>1, PacketAssumption
    <3>2. v.is = "str" => IsCanonical(v.w)
      BY DEF Canonical, IsCanonical
    <3> QED
      BY <1>1, <2>1, <3>1, <3>2, IpOrder
  <2>2. query.field = "ip.src" => \A op \in Ops : Answer(op) = CmpIp(p.source, op, v)
    BY AnswerIs, EvalFields
  <2>3. query.field = "ip.dst" => \A op \in Ops : Answer(op) = CmpIp(p.destination, op, v)
    BY AnswerIs, EvalFields
  <2> QED
    BY <1>5, <2>1, <2>2, <2>3
<1>6. CASE query.field = "port.src"
  <2> DEFINE there == p.srcPort # Absent
  <2>1. Goal(there, int(p.srcPort))
    BY <1>1, <1>2, PacketAssumption
  <2>2. \A op \in Ops : Answer(op) <=> there /\ int(p.srcPort)[op]
    BY <1>6, AnswerIs, EvalFields DEF Present
  <2> HIDE DEF Goal, int
  <2> QED
    BY <1>4, <2>1, <2>2
<1>7. CASE query.field = "port.dst"
  <2> DEFINE there == p.dstPort # Absent
  <2>1. Goal(there, int(p.dstPort))
    BY <1>1, <1>2, PacketAssumption
  <2>2. \A op \in Ops : Answer(op) <=> there /\ int(p.dstPort)[op]
    BY <1>7, AnswerIs, EvalFields DEF Present
  <2> HIDE DEF Goal, int
  <2> QED
    BY <1>4, <2>1, <2>2
<1>8. CASE query.field = "vlan.id"
  <2> DEFINE there == p.vlan # Absent
  <2>1. Goal(there, int(p.vlan))
    BY <1>1, <1>2, PacketAssumption
  <2>2. \A op \in Ops : Answer(op) <=> there /\ int(p.vlan)[op]
    BY <1>8, AnswerIs, EvalFields DEF Present
  <2> HIDE DEF Goal, int
  <2> QED
    BY <1>4, <2>1, <2>2
<1>9. CASE query.field = "len"
  <2>1. Goal(TRUE, int(p.wireLength))
    BY <1>1, <1>2, PacketAssumption
  <2>2. \A op \in Ops : Answer(op) <=> TRUE /\ int(p.wireLength)[op]
    BY <1>9, AnswerIs, EvalFields
  <2> HIDE DEF Goal, int
  <2> QED
    BY <1>4, <2>1, <2>2
<1>10. CASE query.field \in DOMAIN FlagBit
  <2> DEFINE bit == (p.flags \div Place(Shift[query.field])) % 2
  <2>1. bit \in Nat
    <3>1. p.flags \in Nat
      BY <1>1, PacketAssumption, SMTT(20)
    <3>2. Place(Shift[query.field]) \in {1, 2, 4, 8, 16, 32}
      BY <1>10, <3>1, FlagMask DEF FlagBit
    <3>3. p.flags \div Place(Shift[query.field]) \in Int
      BY <3>1, <3>2
    <3> QED
      BY <3>3
  <2>2. \A op \in Ops : Answer(op) <=> TRUE /\ int(bit)[op]
    <3>1. \A op : Answer(op) = CmpInt(bit, op, v)
      BY <1>10, AnswerIs, EvalMoreFields
    <3> HIDE DEF bit
    <3> QED
      BY <3>1
  <2> HIDE DEF bit
  <2>3. Goal(TRUE, int(bit))
    BY <1>2, <2>1
  <2> HIDE DEF Goal, int
  <2> QED
    BY <1>4, <2>2, <2>3
<1>11. CASE query.field = "info"
  <2>1. Goal(TRUE, str(p.info))
    BY <1>1, <1>3, PacketAssumption
  <2>2. \A op \in Ops : Answer(op) <=> TRUE /\ str(p.info)[op]
    BY <1>11, AnswerIs, EvalFields
  <2> HIDE DEF Goal, str
  <2> QED
    BY <1>4, <2>1, <2>2
<1>12. CASE query.field = "eth.src"
  <2> DEFINE there == p.ethSrc # Absent
  <2>1. Goal(there, str(p.ethSrc))
    BY <1>1, <1>3, PacketAssumption
  <2>2. \A op \in Ops : Answer(op) <=> there /\ str(p.ethSrc)[op]
    BY <1>12, AnswerIs, EvalFields DEF Present
  <2> HIDE DEF Goal, str
  <2> QED
    BY <1>4, <2>1, <2>2
<1>13. CASE query.field = "eth.dst"
  <2> DEFINE there == p.ethDst # Absent
  <2>1. Goal(there, str(p.ethDst))
    BY <1>1, <1>3, PacketAssumption
  <2>2. \A op \in Ops : Answer(op) <=> there /\ str(p.ethDst)[op]
    BY <1>13, AnswerIs, EvalFields DEF Present
  <2> HIDE DEF Goal, str
  <2> QED
    BY <1>4, <2>1, <2>2
<1>14. CASE query.field \in PfTexts
  <2> DEFINE there == p.link.is = "pflog"
  <2>1. Goal(there, str(p.link.text[query.field]))
    <3>1. there => IsWord(p.link.text[query.field])
      BY <1>1, <1>14, PacketAssumption
    <3>2. there \in BOOLEAN
      OBVIOUS
    <3> HIDE DEF there, Goal, str
    <3> QED
      BY <1>3, <3>1, <3>2
  <2>2. \A op \in Ops : Answer(op) <=> there /\ str(p.link.text[query.field])[op]
    BY <1>14, AnswerIs, EvalMoreFields
  <2> HIDE DEF Goal, str
  <2> QED
    BY <1>4, <2>1, <2>2
<1>15. CASE query.field = "pf.rule"
  <2> DEFINE there == p.link.is = "pflog"
  <2>1. Goal(there, int(p.link.rule))
    <3>1. there => p.link.rule \in Nat
      BY <1>1, PacketAssumption
    <3>2. there \in BOOLEAN
      OBVIOUS
    <3> HIDE DEF there, Goal, int
    <3> QED
      BY <1>2, <3>1, <3>2
  <2>2. \A op \in Ops : Answer(op) <=> there /\ int(p.link.rule)[op]
    BY <1>15, AnswerIs, EvalMoreFields
  <2> HIDE DEF Goal, int
  <2> QED
    BY <1>4, <2>1, <2>2
<1>16. CASE query.field = "enc.spi"
  <2> DEFINE there == p.link.is = "enc"
  <2>1. Goal(there, int(p.link.spi))
    <3>1. there => p.link.spi \in Nat
      BY <1>1, PacketAssumption
    <3>2. there \in BOOLEAN
      OBVIOUS
    <3> HIDE DEF there, Goal, int
    <3> QED
      BY <1>2, <3>1, <3>2
  <2>2. \A op \in Ops : Answer(op) <=> there /\ int(p.link.spi)[op]
    BY <1>16, AnswerIs, EvalMoreFields
  <2> HIDE DEF Goal, int
  <2> QED
    BY <1>4, <2>1, <2>2
<1>17. CASE query.field = "enc.flags" /\ v.is = "str"
  <2> DEFINE there == p.link.is = "enc"
  <2>1. Goal(there, str(p.link.flagsText))
    <3>1. there => IsWord(p.link.flagsText)
      BY <1>1, PacketAssumption
    <3>2. there \in BOOLEAN
      OBVIOUS
    <3> HIDE DEF there, Goal, str
    <3> QED
      BY <1>3, <3>1, <3>2
  <2>2. \A op \in Ops : Answer(op) <=> there /\ str(p.link.flagsText)[op]
    BY <1>17, AnswerIs, EvalMoreFields
  <2> HIDE DEF Goal, str
  <2> QED
    BY <1>4, <2>1, <2>2
<1>18. CASE query.field = "enc.flags" /\ v.is # "str"
  <2> DEFINE there == p.link.is = "enc"
  <2>1. Goal(there, int(p.link.flags))
    <3>1. there => p.link.flags \in Nat
      BY <1>1, PacketAssumption
    <3>2. there \in BOOLEAN
      OBVIOUS
    <3> HIDE DEF there, Goal, int
    <3> QED
      BY <1>2, <3>1, <3>2
  <2>2. v.is = "int"
    BY <1>1, <1>18, ValueAssumption
  <2>3. \A op \in Ops : Answer(op) <=> there /\ int(p.link.flags)[op]
    BY <1>18, <2>2, AnswerIs, EvalMoreFields
  <2> HIDE DEF Goal, int
  <2> QED
    BY <1>4, <2>1, <2>3
<1> HIDE DEF Goal, int, str, p, v
<1> QED
  BY <1>1, <1>5, <1>6, <1>7, <1>8, <1>9, <1>10, <1>11, <1>12, <1>13, <1>14, <1>15, <1>16, <1>17, <1>18
     DEF Fields, EitherEnd

LEMMA OneOrderOnly == EvalInv => OneOrder
<1> SUFFICES ASSUME EvalInv, query.field \notin EitherEnd, Canonical, Answer("eq") \/ Answer("ne"),
                    query.field # "proto", query.value.is # "cidr"
             PROVE  /\ Cardinality({op \in {"lt", "eq", "gt"} : Answer(op)}) = 1
                    /\ Answer("le") <=> (Answer("lt") \/ Answer("eq"))
                    /\ Answer("ge") <=> (Answer("gt") \/ Answer("eq"))
                    /\ Answer("ne") <=> ~Answer("eq")
  BY DEF OneOrder
<1>1. PICK c \in BOOLEAN, less \in BOOLEAN, same \in BOOLEAN :
        ~(less /\ same) /\ \A op \in Ops : Answer(op) <=> c /\ Ordered(op, less, same)
  BY FieldOrder
<1>2. /\ Answer("eq") <=> c /\ same
      /\ Answer("ne") <=> c /\ ~same
      /\ Answer("lt") <=> c /\ less
      /\ Answer("gt") <=> c /\ ~less /\ ~same
      /\ Answer("le") <=> c /\ (less \/ same)
      /\ Answer("ge") <=> c /\ ~less
  BY <1>1 DEF Ops, Ordered
<1>3. c
  BY <1>2
<1> DEFINE S == {op \in {"lt", "eq", "gt"} : Answer(op)}
<1>4. \E op : S = {op}
  <2>1. CASE same
    <3>1. Answer("eq") /\ ~Answer("lt") /\ ~Answer("gt")
      BY <1>1, <1>2, <1>3, <2>1
    <3>2. S = {"eq"}
      BY <3>1
    <3> QED
      BY <3>2
  <2>2. CASE less
    <3>1. ~Answer("eq") /\ Answer("lt") /\ ~Answer("gt")
      BY <1>1, <1>2, <1>3, <2>2
    <3>2. S = {"lt"}
      BY <3>1
    <3> QED
      BY <3>2
  <2>3. CASE ~same /\ ~less
    <3>1. ~Answer("eq") /\ ~Answer("lt") /\ Answer("gt")
      BY <1>1, <1>2, <1>3, <2>3
    <3>2. S = {"gt"}
      BY <3>1
    <3> QED
      BY <3>2
  <2> QED
    BY <2>1, <2>2, <2>3
<1>5. Cardinality(S) = 1
  BY <1>4, FS_Singleton
<1>6. /\ Answer("le") <=> (Answer("lt") \/ Answer("eq"))
      /\ Answer("ge") <=> (Answer("gt") \/ Answer("eq"))
      /\ Answer("ne") <=> ~Answer("eq")
  BY <1>1, <1>2, <1>3
<1> QED
  BY <1>5, <1>6

(* Whatever field, operator, value and packet are asked about, whatever    *)
(* the width of addresses: a prefix compares its upper bits, a field that  *)
(* can be compared has one of three orders to the value, a field that is   *)
(* absent satisfies no comparison, a flag by itself is that flag compared  *)
(* with 1, and what a field equals it contains (filter/eval.rs).           *)
THEOREM ComparisonsAgree == EvalSpec => []EvalSound
<1>1. EvalInit => EvalInv
  BY EvalInitially
<1>2. EvalInv /\ [Ask]_query => EvalInv'
  BY EvalStep
<1>3. EvalInv => EvalSound
  BY PrefixesDecide, OneOrderOnly, AbsentMatchesNothing, FlagsSayTheSame, EqualsContained DEF EvalSound
<1> QED
  BY <1>1, <1>2, <1>3, PTL DEF EvalSpec

-----------------------------------------------------------------------------
(* Texts that are written and read back.                                   *)

(* u has the states between the characters of a text of k.                 *)
States(u, format, s, text, k) ==
  u = [n \in 0..k |-> IF n = 0 THEN s ELSE ReadChar(format, u[n - 1], text[n])]

LEMMA StatesRun ==
  ASSUME NEW format, NEW s, NEW text, NEW k \in Nat
  PROVE  \E u : States(u, format, s, text, k)
<1> DEFINE S == {n \in Nat : \E u : States(u, format, s, text, n)}
<1>1. 0 \in S
  <2> DEFINE v == [n \in 0..0 |-> s]
  <2>1. States(v, format, s, text, 0)
    BY DEF States
  <2> HIDE DEF v
  <2> QED
    BY <2>1
<1>2. ASSUME NEW n \in S PROVE n + 1 \in S
  <2>1. n \in Nat /\ n + 1 \in Nat
    OBVIOUS
  <2>2. PICK u : States(u, format, s, text, n)
    OBVIOUS
  <2> DEFINE last == ReadChar(format, u[n], text[n + 1])
             v == [i \in 0..(n + 1) |-> IF i = n + 1 THEN last ELSE u[i]]
  <2>3. \A i \in 0..(n + 1) : i # n + 1 => i \in 0..n
    BY <2>1
  <2>4. n \in 0..(n + 1) /\ n + 1 \in 0..(n + 1) /\ n # n + 1 /\ (n + 1) - 1 = n /\ n + 1 # 0
    BY <2>1
  <2> HIDE DEF last
  <2>5. v[n + 1] = last /\ v[n] = u[n]
    BY <2>4
  <2>6. ASSUME NEW i \in 0..(n + 1)
        PROVE  v[i] = IF i = 0 THEN s ELSE ReadChar(format, v[i - 1], text[i])
    <3>1. CASE i = n + 1
      BY <2>4, <2>5, <3>1 DEF last
    <3>2. CASE i # n + 1
      <4>1. i \in 0..n /\ v[i] = u[i]
        BY <2>3, <3>2
      <4>2. u[i] = IF i = 0 THEN s ELSE ReadChar(format, u[i - 1], text[i])
        BY <2>2, <4>1 DEF States
      <4>3. i # 0 => v[i - 1] = u[i - 1]
        <5>1. i # 0 => i - 1 \in 0..(n + 1) /\ i - 1 # n + 1
          BY <2>1, <4>1
        <5> QED
          BY <5>1
      <4> QED
        BY <4>1, <4>2, <4>3
    <3> QED
      BY <3>1, <3>2
  <2>7. v = [i \in 0..(n + 1) |-> IF i = 0 THEN s ELSE ReadChar(format, v[i - 1], text[i])]
    <3>1. v = [i \in 0..(n + 1) |-> v[i]]
      OBVIOUS
    <3> HIDE DEF v
    <3> QED
      BY <2>6, <3>1
  <2> HIDE DEF v
  <2>8. States(v, format, s, text, n + 1)
    BY <2>7 DEF States
  <2> QED
    BY <2>1, <2>8
<1>3. S \in SUBSET Nat
  OBVIOUS
<1> HIDE DEF S
<1>4. S = Nat
  BY <1>1, <1>2, <1>3, SetInduction
<1> QED
  BY <1>4 DEF S

LEMMA ReadStates ==
  ASSUME NEW format, NEW s, NEW text, Len(text) \in Nat
  PROVE  \E u : /\ u[0] = s /\ u[Len(text)] = Read(format, s, text)
                /\ \A n \in 1..Len(text) : u[n] = ReadChar(format, u[n - 1], text[n])
<1> DEFINE k == Len(text)
           w == CHOOSE u : u = [n \in 0..k |-> IF n = 0 THEN s ELSE ReadChar(format, u[n - 1], text[n])]
<1>1. Read(format, s, text) = w[k]
  BY DEF Read
<1>2. \E u : u = [n \in 0..k |-> IF n = 0 THEN s ELSE ReadChar(format, u[n - 1], text[n])]
  <2>1. PICK u : States(u, format, s, text, k)
    BY StatesRun
  <2> QED
    BY <2>1 DEF States
<1>3. w = [n \in 0..k |-> IF n = 0 THEN s ELSE ReadChar(format, w[n - 1], text[n])]
  BY <1>2
<1> HIDE DEF w
<1>4. w[0] = s
  BY <1>3
<1>5. ASSUME NEW n \in 1..k PROVE w[n] = ReadChar(format, w[n - 1], text[n])
  <2>1. n \in 0..k /\ n # 0
    OBVIOUS
  <2> QED
    BY <1>3, <2>1
<1> QED
  BY <1>1, <1>4, <1>5

(* States that follow each other are those of the reader.                  *)
LEMMA StatesAre ==
  ASSUME NEW format, NEW text, Len(text) \in Nat, NEW u,
         \A n \in 1..Len(text) : u[n] = ReadChar(format, u[n - 1], text[n])
  PROVE  Read(format, u[0], text) = u[Len(text)]
<1> DEFINE k == Len(text)
<1>1. PICK w : /\ w[0] = u[0] /\ w[k] = Read(format, u[0], text)
               /\ \A n \in 1..k : w[n] = ReadChar(format, w[n - 1], text[n])
  BY ReadStates
<1> DEFINE S == {n \in Nat : n \in 0..k => w[n] = u[n]}
<1>2. 0 \in S
  BY <1>1
<1>3. ASSUME NEW n \in S PROVE n + 1 \in S
  <2>1. n + 1 \in Nat /\ (n + 1) - 1 = n
    OBVIOUS
  <2>2. CASE n + 1 \in 0..k
    <3>1. n \in 0..k /\ n + 1 \in 1..k
      BY <2>2
    <3>2. w[n] = u[n]
      BY <3>1
    <3>3. w[n + 1] = ReadChar(format, w[n], text[n + 1])
      BY <1>1, <2>1, <3>1
    <3>4. u[n + 1] = ReadChar(format, u[n], text[n + 1])
      BY <2>1, <3>1
    <3> QED
      BY <2>1, <3>2, <3>3, <3>4
  <2>3. CASE n + 1 \notin 0..k
    BY <2>1, <2>3
  <2> QED
    BY <2>2, <2>3
<1>4. S \in SUBSET Nat
  OBVIOUS
<1> HIDE DEF S
<1>5. S = Nat
  BY <1>2, <1>3, <1>4, SetInduction
<1>6. k \in S /\ k \in 0..k
  BY <1>5
<1> QED
  BY <1>1, <1>6 DEF S

LEMMA JoinedFirst ==
  ASSUME NEW C, NEW a \in Seq(C), NEW b \in Seq(C), NEW n \in 1..Len(a)
  PROVE  (a \o b)[n] = a[n]
<1>1. Len(a) \in Nat /\ Len(b) \in Nat
  BY LenProperties
<1> QED
  BY <1>1, ConcatProperties

LEMMA JoinedSecond ==
  ASSUME NEW C, NEW a \in Seq(C), NEW b \in Seq(C), NEW m \in Int, m - Len(a) \in 1..Len(b)
  PROVE  (a \o b)[m] = b[m - Len(a)]
<1>1. Len(a) \in Nat /\ Len(b) \in Nat
  BY LenProperties
<1> QED
  BY <1>1, ConcatProperties

(* A text behind another is read from where that one ends.                 *)
LEMMA ReadJoined ==
  ASSUME NEW format, NEW s, NEW C, NEW a \in Seq(C), NEW b \in Seq(C)
  PROVE  Read(format, s, a \o b) = Read(format, Read(format, s, a), b)
<1> DEFINE m == Len(a)
           k == Len(b)
<1>1. /\ m \in Nat /\ k \in Nat /\ Len(a \o b) = m + k
      /\ \A n \in 1..m : (a \o b)[n] = a[n]
      /\ \A n \in 1..k : (a \o b)[m + n] = b[n]
  BY LenProperties, ConcatProperties
<1>2. PICK u : /\ u[0] = s /\ u[m + k] = Read(format, s, a \o b)
               /\ \A n \in 1..(m + k) : u[n] = ReadChar(format, u[n - 1], (a \o b)[n])
  <2> DEFINE both == a \o b
  <2>1. Len(both) = m + k /\ Len(both) \in Nat
    BY <1>1
  <2> HIDE DEF both
  <2>2. PICK u : /\ u[0] = s /\ u[Len(both)] = Read(format, s, both)
                 /\ \A n \in 1..Len(both) : u[n] = ReadChar(format, u[n - 1], both[n])
    BY <2>1, ReadStates
  <2> USE DEF both
  <2> QED
    BY <2>1, <2>2
<1>3. Read(format, s, a) = u[m]
  <2>1. \A n \in 1..m : n \in 1..(m + k) /\ u[n] = ReadChar(format, u[n - 1], a[n])
    BY <1>1, <1>2
  <2>2. Read(format, u[0], a) = u[Len(a)]
    BY <1>1, <2>1, StatesAre
  <2> QED
    BY <1>2, <2>2
<1>4. Read(format, u[m], b) = u[m + k]
  <2> DEFINE v == [n \in 0..k |-> u[m + n]]
  <2>1. v[0] = u[m] /\ v[k] = u[m + k]
    BY <1>1
  <2>2. ASSUME NEW n \in 1..k PROVE v[n] = ReadChar(format, v[n - 1], b[n])
    <3>1. m + n \in 1..(m + k) /\ (m + n) - 1 = m + (n - 1) /\ n \in 0..k /\ n - 1 \in 0..k
      BY <1>1
    <3>2. u[m + n] = ReadChar(format, u[m + (n - 1)], b[n])
      BY <1>1, <1>2, <3>1
    <3> QED
      BY <3>1, <3>2
  <2> HIDE DEF v
  <2>3. Read(format, v[0], b) = v[k]
    BY <1>1, <2>2, StatesAre
  <2> QED
    BY <2>1, <2>3
<1> QED
  BY <1>2, <1>3, <1>4

LEMMA ReadOne ==
  ASSUME NEW format, NEW s, NEW c
  PROVE  Read(format, s, <<c>>) = ReadChar(format, s, c)
<1>1. PICK u : /\ u[0] = s /\ u[1] = Read(format, s, <<c>>)
               /\ \A n \in 1..1 : u[n] = ReadChar(format, u[n - 1], <<c>>[n])
  <2> DEFINE text == <<c>>
  <2>1. Len(text) = 1 /\ Len(text) \in Nat
    OBVIOUS
  <2> HIDE DEF text
  <2>2. PICK u : /\ u[0] = s /\ u[Len(text)] = Read(format, s, text)
                 /\ \A n \in 1..Len(text) : u[n] = ReadChar(format, u[n - 1], text[n])
    BY <2>1, ReadStates
  <2> USE DEF text
  <2> QED
    BY <2>1, <2>2
<1>2. u[1] = ReadChar(format, u[0], c)
  BY <1>1
<1> QED
  BY <1>1, <1>2

LEMMA ReadTwo ==
  ASSUME NEW format, NEW s, NEW c, NEW d
  PROVE  Read(format, s, <<c, d>>) = ReadChar(format, ReadChar(format, s, c), d)
<1> DEFINE first == <<c>>
           second == <<d>>
<1>1. first \in Seq({c, d}) /\ second \in Seq({c, d})
  OBVIOUS
<1>2. first \o second = <<c, d>>
  <2> DEFINE both == <<c, d>>
             joined == first \o second
  <2>1. both \in Seq({c, d}) /\ Len(both) = 2 /\ both[1] = c /\ both[2] = d
    OBVIOUS
  <2>2. Len(first) = 1 /\ Len(second) = 1 /\ first[1] = c /\ second[1] = d
    OBVIOUS
  <2> HIDE DEF first, second, both
  <2>3. joined \in Seq({c, d}) /\ Len(joined) = 2 /\ joined[1] = first[1] /\ joined[2] = second[1]
    BY <1>1, <2>2, ConcatProperties
  <2> HIDE DEF joined
  <2>4. \A i \in 1..2 : joined[i] = both[i]
    BY <2>1, <2>2, <2>3
  <2>5. joined = both
    BY <2>1, <2>3, <2>4, SeqEqual
  <2> QED
    BY <2>5 DEF joined, both
<1>3. Read(format, s, first) = ReadChar(format, s, c)
  BY ReadOne
<1>4. Read(format, ReadChar(format, s, c), second) = ReadChar(format, ReadChar(format, s, c), d)
  BY ReadOne
<1> HIDE DEF first, second
<1>5. Read(format, s, first \o second) = Read(format, Read(format, s, first), second)
  BY <1>1, ReadJoined
<1> QED
  BY <1>2, <1>3, <1>4, <1>5

(* u has what the first of k + 1 pieces are together.                      *)
Together(u, pieces, k) ==
  u = [i \in 1..(k + 1) |-> IF i = 1 THEN pieces[i] ELSE u[i - 1] \o pieces[i]]

LEMMA TogetherRuns ==
  ASSUME NEW pieces, NEW k \in Nat
  PROVE  \E u : Together(u, pieces, k)
<1> DEFINE S == {n \in Nat : \E u : Together(u, pieces, n)}
<1>1. 0 \in S
  <2> DEFINE v == [i \in 1..(0 + 1) |-> pieces[i]]
  <2>1. Together(v, pieces, 0)
    BY DEF Together
  <2> HIDE DEF v
  <2> QED
    BY <2>1
<1>2. ASSUME NEW n \in S PROVE n + 1 \in S
  <2>1. n \in Nat /\ n + 1 \in Nat
    OBVIOUS
  <2>2. PICK u : Together(u, pieces, n)
    OBVIOUS
  <2> DEFINE m == n + 2
             last == u[n + 1] \o pieces[m]
             v == [i \in 1..m |-> IF i = m THEN last ELSE u[i]]
  <2>3. \A i \in 1..m : i # m => i \in 1..(n + 1)
    BY <2>1
  <2>4. m \in 1..m /\ n + 1 \in 1..m /\ m # n + 1 /\ m - 1 = n + 1 /\ m # 1 /\ m = (n + 1) + 1
    BY <2>1
  <2> HIDE DEF last, m
  <2>5. v[m] = last /\ v[n + 1] = u[n + 1]
    BY <2>4
  <2>6. ASSUME NEW i \in 1..m
        PROVE  v[i] = IF i = 1 THEN pieces[i] ELSE v[i - 1] \o pieces[i]
    <3>1. CASE i = m
      BY <2>4, <2>5, <3>1 DEF last
    <3>2. CASE i # m
      <4>1. i \in 1..(n + 1) /\ v[i] = u[i]
        BY <2>3, <3>2
      <4>2. u[i] = IF i = 1 THEN pieces[i] ELSE u[i - 1] \o pieces[i]
        BY <2>2, <4>1 DEF Together
      <4>3. i # 1 => v[i - 1] = u[i - 1]
        <5>1. i # 1 => i - 1 \in 1..m /\ i - 1 # m
          BY <2>1, <2>4, <4>1
        <5> QED
          BY <5>1
      <4> QED
        BY <4>1, <4>2, <4>3
    <3> QED
      BY <3>1, <3>2
  <2>7. v = [i \in 1..m |-> IF i = 1 THEN pieces[i] ELSE v[i - 1] \o pieces[i]]
    <3>1. v = [i \in 1..m |-> v[i]]
      OBVIOUS
    <3> HIDE DEF v
    <3> QED
      BY <2>6, <3>1
  <2> HIDE DEF v
  <2>8. Together(v, pieces, n + 1)
    BY <2>4, <2>7 DEF Together
  <2> QED
    BY <2>1, <2>8
<1>3. S \in SUBSET Nat
  OBVIOUS
<1> HIDE DEF S
<1>4. S = Nat
  BY <1>1, <1>2, <1>3, SetInduction
<1> QED
  BY <1>4 DEF S

LEMMA FlatStates ==
  ASSUME NEW pieces, Len(pieces) \in Nat \ {0}
  PROVE  \E u : /\ u[1] = pieces[1] /\ u[Len(pieces)] = FlattenSeq(pieces)
                /\ \A i \in 2..Len(pieces) : u[i] = u[i - 1] \o pieces[i]
<1> DEFINE k == Len(pieces)
           w == CHOOSE u : u = [i \in 1..k |-> IF i = 1 THEN pieces[i] ELSE u[i - 1] \o pieces[i]]
<1>1. FlattenSeq(pieces) = w[k]
  BY DEF FlattenSeq
<1>2. k - 1 \in Nat /\ (k - 1) + 1 = k
  OBVIOUS
<1>3. \E u : u = [i \in 1..k |-> IF i = 1 THEN pieces[i] ELSE u[i - 1] \o pieces[i]]
  <2>1. PICK u : Together(u, pieces, k - 1)
    BY <1>2, TogetherRuns
  <2> QED
    BY <1>2, <2>1 DEF Together
<1>4. w = [i \in 1..k |-> IF i = 1 THEN pieces[i] ELSE w[i - 1] \o pieces[i]]
  BY <1>3
<1> HIDE DEF w
<1>5. w[1] = pieces[1]
  BY <1>2, <1>4
<1>6. ASSUME NEW i \in 2..k PROVE w[i] = w[i - 1] \o pieces[i]
  <2>1. i \in 1..k /\ i # 1
    OBVIOUS
  <2> QED
    BY <1>4, <2>1
<1> QED
  BY <1>1, <1>5, <1>6

(* What is written in pieces is read in pieces.                            *)
LEMMA ReadPieces ==
  ASSUME NEW format, NEW C, NEW pieces \in Seq(Seq(C)), NEW st,
         \A i \in 1..Len(pieces) : Read(format, st[i - 1], pieces[i]) = st[i]
  PROVE  /\ FlattenSeq(pieces) \in Seq(C)
         /\ Read(format, st[0], FlattenSeq(pieces)) = st[Len(pieces)]
<1> DEFINE k == Len(pieces)
<1>1. k \in Nat /\ \A i \in 1..k : pieces[i] \in Seq(C)
  BY LenProperties, ElementOfSeq
<1>2. CASE k = 0
  <2>1. pieces = <<>>
    BY <1>2, EmptySeq
  <2>2. FlattenSeq(pieces) = <<>>
    BY <2>1 DEF FlattenSeq
  <2>3. <<>> \in Seq(C) /\ Len(<<>>) = 0
    OBVIOUS
  <2>4. Read(format, st[0], <<>>) = st[0]
    <3>1. \A n \in 1..Len(<<>>) : st[n] = ReadChar(format, st[n - 1], <<>>[n])
      BY <2>3
    <3>2. Read(format, st[0], <<>>) = st[Len(<<>>)]
      BY <2>3, <3>1, StatesAre
    <3> QED
      BY <2>3, <3>2
  <2> QED
    BY <1>2, <2>2, <2>3, <2>4
<1>3. CASE k # 0
  <2>1. PICK u : /\ u[1] = pieces[1] /\ u[k] = FlattenSeq(pieces)
                 /\ \A i \in 2..k : u[i] = u[i - 1] \o pieces[i]
    BY <1>1, <1>3, FlatStates
  <2> DEFINE S == {n \in Nat : n + 1 \in 1..k => u[n + 1] \in Seq(C)
                                                /\ Read(format, st[0], u[n + 1]) = st[n + 1]}
  <2>2. 0 \in S
    <3>1. 1 \in 1..k /\ 0 + 1 = 1 /\ 1 - 1 = 0
      BY <1>1, <1>3
    <3>2. u[1] \in Seq(C) /\ Read(format, st[0], u[1]) = st[1]
      BY <1>1, <2>1, <3>1
    <3> QED
      BY <3>1, <3>2
  <2>3. ASSUME NEW n \in S PROVE n + 1 \in S
    <3>1. n + 1 \in Nat /\ n \in Nat
      OBVIOUS
    <3>2. ASSUME (n + 1) + 1 \in 1..k
          PROVE  u[(n + 1) + 1] \in Seq(C) /\ Read(format, st[0], u[(n + 1) + 1]) = st[(n + 1) + 1]
      <4> DEFINE i == (n + 1) + 1
      <4>1. i \in 2..k /\ n + 1 \in 1..k /\ i - 1 = n + 1 /\ i \in 1..k
        BY <1>1, <3>1, <3>2
      <4>2. u[n + 1] \in Seq(C) /\ Read(format, st[0], u[n + 1]) = st[n + 1]
        BY <4>1
      <4>3. u[i] = u[n + 1] \o pieces[i] /\ pieces[i] \in Seq(C)
        BY <1>1, <2>1, <4>1
      <4>4. Read(format, st[n + 1], pieces[i]) = st[i]
        BY <4>1
      <4> HIDE DEF i
      <4>5. u[i] \in Seq(C)
        BY <4>2, <4>3, ConcatProperties
      <4>6. Read(format, st[0], u[i]) = st[i]
        BY <4>2, <4>3, <4>4, ReadJoined
      <4> QED
        BY <4>5, <4>6 DEF i
    <3> QED
      BY <3>1, <3>2
  <2>4. S \in SUBSET Nat
    OBVIOUS
  <2> HIDE DEF S
  <2>5. S = Nat
    BY <2>2, <2>3, <2>4, SetInduction
  <2>6. k - 1 \in S /\ (k - 1) + 1 = k /\ k \in 1..k
    BY <1>1, <1>3, <2>5
  <2>7. u[(k - 1) + 1] \in Seq(C) /\ Read(format, st[0], u[(k - 1) + 1]) = st[(k - 1) + 1]
    BY <2>6 DEF S
  <2> QED
    BY <2>1, <2>6, <2>7
<1> QED
  BY <1>2, <1>3

LEMMA PrefixGrows ==
  ASSUME NEW C, NEW f \in Seq(C)
  PROVE  /\ SubSeq(f, 1, 0) = <<>> /\ SubSeq(f, 1, Len(f)) = f
         /\ \A n \in 1..Len(f) : SubSeq(f, 1, n) = Append(SubSeq(f, 1, n - 1), f[n])
<1>1. Len(f) \in Nat /\ f = [i \in 1..Len(f) |-> f[i]]
  BY LenProperties
<1>2. SubSeq(f, 1, 0) = <<>>
  OBVIOUS
<1>3. SubSeq(f, 1, Len(f)) = f
  BY <1>1
<1>4. ASSUME NEW n \in 1..Len(f) PROVE SubSeq(f, 1, n) = Append(SubSeq(f, 1, n - 1), f[n])
  <2>1. SubSeq(f, 1, n) = [i \in 1..n |-> f[i]] /\ SubSeq(f, 1, n - 1) = [i \in 1..(n - 1) |-> f[i]]
    BY <1>1
  <2>2. /\ SubSeq(f, 1, n - 1) \in Seq(C) /\ Len(SubSeq(f, 1, n - 1)) = n - 1
    BY <1>1, SubSeqProperties
  <2>3. (n - 1) + 1 = n /\ n \in 1..n /\ \A i \in 1..n : i # n => i \in 1..(n - 1)
    BY <1>1
  <2> QED
    BY <2>1, <2>2, <2>3
<1> QED
  BY <1>2, <1>3, <1>4

(* The characters that CSV gives a meaning to, those that end a field, and *)
(* the states of its reader in a field without quotes and where one ends.  *)
Special == {"quote", "comma", "nl", "cr"}
Marks == {"comma", "nl"}
PlainAt == {"start", "plain"}
EndsAt == {"start", "plain", "behind"}

(* What the reader of a CSV text does with a character.                    *)
LEMMA OpensQuote ==
  ASSUME NEW F, NEW R, NEW t
  PROVE  ReadChar("csv", CsvState(F, R, t, "start"), "quote") = CsvState(F, R, t, "quoted")
BY DEF ReadChar, ReadCsvChar, CsvState

LEMMA EndsQuote ==
  ASSUME NEW F, NEW R, NEW t
  PROVE  ReadChar("csv", CsvState(F, R, t, "quoted"), "quote") = CsvState(F, R, t, "behind")
BY DEF ReadChar, ReadCsvChar, CsvState

LEMMA DoublesQuote ==
  ASSUME NEW F, NEW R, NEW t
  PROVE  ReadChar("csv", CsvState(F, R, t, "behind"), "quote") = CsvState(F, R, Append(t, "quote"), "quoted")
BY DEF ReadChar, ReadCsvChar, CsvState

LEMMA TakesQuoted ==
  ASSUME NEW F, NEW R, NEW t, NEW c, c # "quote"
  PROVE  ReadChar("csv", CsvState(F, R, t, "quoted"), c) = CsvState(F, R, Append(t, c), "quoted")
BY DEF ReadChar, ReadCsvChar, CsvState

LEMMA TakesPlain ==
  ASSUME NEW F, NEW R, NEW t, NEW at \in PlainAt, NEW c, c \notin Special
  PROVE  ReadChar("csv", CsvState(F, R, t, at), c) = CsvState(F, R, Append(t, c), "plain")
BY DEF ReadChar, ReadCsvChar, CsvState, PlainAt, Special

(* The state behind a field t and the mark c that ends it.                 *)
Ended(F, R, t, c) ==
  CsvState(Append(F, t), IF c = "nl" THEN R \union {Len(F) + 1} ELSE R, <<>>, "start")

LEMMA EndsField ==
  ASSUME NEW F, NEW R, NEW t, NEW at \in EndsAt, NEW c \in Marks
  PROVE  ReadChar("csv", CsvState(F, R, t, at), c) = Ended(F, R, t, c)
BY DEF ReadChar, ReadCsvChar, CsvState, EndsAt, Marks, Ended

LEMMA IsASequence ==
  ASSUME NEW S, NEW n \in Nat, NEW s \in [1..n -> S]
  PROVE  s \in Seq(S) /\ Len(s) = n
OBVIOUS

(* A text without marks is read as it is.                                  *)
LEMMA PlainIsRead ==
  ASSUME NEW C, NEW f \in Seq(C), NEW F, NEW R,
         \A i \in 1..Len(f) : f[i] \notin Special
  PROVE  \E at \in PlainAt :
           Read("csv", CsvState(F, R, <<>>, "start"), f) = CsvState(F, R, f, at)
<1> DEFINE k == Len(f)
           At(n) == IF n = 0 THEN "start" ELSE "plain"
           u == [n \in 0..k |-> CsvState(F, R, SubSeq(f, 1, n), At(n))]
<1>1. k \in Nat /\ 0 \in 0..k /\ k \in 0..k
  <2>1. k \in Nat
    BY LenProperties
  <2> HIDE DEF k
  <2> QED
    BY <2>1
<1>2. \A n \in 0..k : At(n) \in PlainAt
  BY DEF PlainAt
<1>3. ASSUME NEW n \in 1..k PROVE u[n] = ReadChar("csv", u[n - 1], f[n])
  <2>1. n \in 0..k /\ n - 1 \in 0..k /\ n # 0
    BY <1>1
  <2>5. At(n) = "plain" /\ At(n - 1) \in PlainAt
    BY <2>1 DEF PlainAt
  <2>2. SubSeq(f, 1, n) = Append(SubSeq(f, 1, n - 1), f[n])
    BY PrefixGrows
  <2>3. u[n] = CsvState(F, R, SubSeq(f, 1, n), "plain") /\ u[n - 1] = CsvState(F, R, SubSeq(f, 1, n - 1), At(n - 1))
    BY <2>1, <2>5
  <2>4. f[n] \notin Special
    OBVIOUS
  <2> DEFINE c == f[n]
             t == SubSeq(f, 1, n - 1)
             at == At(n - 1)
  <2>6. ReadChar("csv", CsvState(F, R, t, at), c) = CsvState(F, R, Append(t, c), "plain")
    <3> HIDE DEF At, c, t
    <3> QED
      BY <2>4, <2>5, TakesPlain DEF c
  <2> HIDE DEF At, u
  <2> QED
    BY <2>2, <2>3, <2>6
<1>4. u[0] = CsvState(F, R, <<>>, "start") /\ u[k] = CsvState(F, R, f, At(k))
  BY <1>1, PrefixGrows
<1> HIDE DEF u
<1>5. Read("csv", u[0], f) = u[k]
  BY <1>1, <1>3, StatesAre
<1> HIDE DEF At
<1> QED
  BY <1>1, <1>2, <1>4, <1>5

(* A text between quotes, with its own doubled, is read as the text.       *)
LEMMA QuotedIsRead ==
  ASSUME NEW C, NEW f \in Seq(C), NEW F, NEW R
  PROVE  /\ Quoted(f) \in Seq(C \union {"quote"})
         /\ Read("csv", CsvState(F, R, <<>>, "start"), Quoted(f)) = CsvState(F, R, f, "behind")
<1> DEFINE k == Len(f)
           D == C \union {"quote"}
           pieces == [i \in DOMAIN f |-> IF f[i] = "quote" THEN <<"quote", "quote">> ELSE <<f[i]>>]
           st == [n \in 0..k |-> CsvState(F, R, SubSeq(f, 1, n), "quoted")]
<1>1. k \in Nat /\ 0 \in 0..k /\ k \in 0..k /\ DOMAIN f = 1..k /\ \A i \in 1..k : f[i] \in C
  BY LenProperties, ElementOfSeq
<1>2. pieces \in Seq(Seq(D)) /\ Len(pieces) = k /\ Doubled(f) = FlattenSeq(pieces)
  <2>1. \A i \in 1..k : (IF f[i] = "quote" THEN <<"quote", "quote">> ELSE <<f[i]>>) \in Seq(D)
    <3>1. "quote" \in D /\ \A i \in 1..k : f[i] \in D
      BY <1>1
    <3> HIDE DEF D
    <3>2. <<"quote", "quote">> \in Seq(D) /\ \A i \in 1..k : <<f[i]>> \in Seq(D)
      BY <3>1
    <3> QED
      BY <3>2
  <2>2. pieces \in [1..k -> Seq(D)]
    BY <1>1, <2>1
  <2>3. pieces \in Seq(Seq(D)) /\ Len(pieces) = k
    BY <1>1, <2>2, IsASequence
  <2> QED
    BY <2>3 DEF Doubled
<1>3. ASSUME NEW n \in 1..k PROVE Read("csv", st[n - 1], pieces[n]) = st[n]
  <2>1. n \in 0..k /\ n - 1 \in 0..k /\ n \in DOMAIN f
    BY <1>1
  <2>2. SubSeq(f, 1, n) = Append(SubSeq(f, 1, n - 1), f[n])
    BY PrefixGrows
  <2>3. st[n] = CsvState(F, R, SubSeq(f, 1, n), "quoted") /\ st[n - 1] = CsvState(F, R, SubSeq(f, 1, n - 1), "quoted")
    BY <2>1
  <2>4. CASE f[n] = "quote"
    <3>1. pieces[n] = <<"quote", "quote">>
      BY <2>1, <2>4
    <3> DEFINE t == SubSeq(f, 1, n - 1)
    <3> HIDE DEF st, pieces, t
    <3>2. ReadChar("csv", CsvState(F, R, t, "quoted"), "quote") = CsvState(F, R, t, "behind")
      BY EndsQuote
    <3>3. ReadChar("csv", CsvState(F, R, t, "behind"), "quote") = CsvState(F, R, Append(t, "quote"), "quoted")
      BY DoublesQuote
    <3>4. Read("csv", CsvState(F, R, t, "quoted"), <<"quote", "quote">>) = CsvState(F, R, Append(t, "quote"), "quoted")
      BY <3>2, <3>3, ReadTwo
    <3> QED
      BY <2>2, <2>3, <2>4, <3>1, <3>4 DEF t
  <2>5. CASE f[n] # "quote"
    <3>1. pieces[n] = <<f[n]>>
      BY <2>1, <2>5
    <3> DEFINE t == SubSeq(f, 1, n - 1)
               c == f[n]
    <3>2. c # "quote"
      BY <2>5
    <3> HIDE DEF st, pieces, t, c
    <3>3. ReadChar("csv", CsvState(F, R, t, "quoted"), c) = CsvState(F, R, Append(t, c), "quoted")
      BY <3>2, TakesQuoted
    <3>4. Read("csv", CsvState(F, R, t, "quoted"), <<c>>) = CsvState(F, R, Append(t, c), "quoted")
      BY <3>3, ReadOne
    <3> QED
      BY <2>2, <2>3, <3>1, <3>4 DEF t, c
  <2> QED
    BY <2>4, <2>5
<1>4. st[0] = CsvState(F, R, <<>>, "quoted") /\ st[k] = CsvState(F, R, f, "quoted")
  BY <1>1, PrefixGrows
<1> HIDE DEF st, pieces, D
<1>5. Doubled(f) \in Seq(D) /\ Read("csv", st[0], Doubled(f)) = st[k]
  <2>1. \A i \in 1..Len(pieces) : Read("csv", st[i - 1], pieces[i]) = st[i]
    BY <1>2, <1>3
  <2>2. FlattenSeq(pieces) \in Seq(D) /\ Read("csv", st[0], FlattenSeq(pieces)) = st[Len(pieces)]
    BY <1>2, <2>1, ReadPieces
  <2> QED
    BY <1>2, <2>2
<1>6. "quote" \in D /\ <<"quote">> \in Seq(D)
  BY DEF D
<1>7. <<"quote">> \o Doubled(f) \in Seq(D) /\ Quoted(f) \in Seq(D)
  BY <1>5, <1>6, ConcatProperties DEF Quoted
<1>8. Read("csv", CsvState(F, R, <<>>, "start"), <<"quote">> \o Doubled(f)) = CsvState(F, R, f, "quoted")
  <2>1. Read("csv", CsvState(F, R, <<>>, "start"), <<"quote">>) = CsvState(F, R, <<>>, "quoted")
    BY ReadOne, OpensQuote
  <2> DEFINE s == CsvState(F, R, <<>>, "start")
             mark == <<"quote">>
             rest == Doubled(f)
  <2>2. mark \in Seq(D) /\ rest \in Seq(D)
    BY <1>5, <1>6
  <2> HIDE DEF s, mark, rest
  <2>3. Read("csv", s, mark \o rest) = Read("csv", Read("csv", s, mark), rest)
    BY <2>2, ReadJoined
  <2> QED
    BY <1>4, <1>5, <2>1, <2>3 DEF s, mark, rest
<1>9. Read("csv", CsvState(F, R, <<>>, "start"), (<<"quote">> \o Doubled(f)) \o <<"quote">>) = CsvState(F, R, f, "behind")
  <2>1. Read("csv", CsvState(F, R, f, "quoted"), <<"quote">>) = CsvState(F, R, f, "behind")
    BY ReadOne, EndsQuote
  <2> DEFINE s == CsvState(F, R, <<>>, "start")
             mark == <<"quote">>
             text == <<"quote">> \o Doubled(f)
  <2>2. text \in Seq(D) /\ mark \in Seq(D)
    BY <1>6, <1>7
  <2> HIDE DEF s, text, mark
  <2>3. Read("csv", s, text \o mark) = Read("csv", Read("csv", s, text), mark)
    BY <2>2, ReadJoined
  <2> QED
    BY <1>8, <2>1, <2>3 DEF s, text, mark
<1> QED
  BY <1>7, <1>9 DEF Quoted, D

(* t is how f is written in a field.                                       *)
IsWritten(t, f) ==
  \A F, R : \E at \in EndsAt :
    Read("csv", CsvState(F, R, <<>>, "start"), t) = CsvState(F, R, f, at)

LEMMA EscapedIsWritten ==
  ASSUME NEW C, NEW f \in Seq(C)
  PROVE  /\ Quoted(f) \in Seq(C \union {"quote"}) /\ IsWritten(Quoted(f), f)
         /\ CsvEscape(f) \in Seq(C \union {"quote"}) /\ IsWritten(CsvEscape(f), f)
<1>1. Quoted(f) \in Seq(C \union {"quote"}) /\ IsWritten(Quoted(f), f)
  <2>1. Quoted(f) \in Seq(C \union {"quote"})
    BY QuotedIsRead
  <2>2. ASSUME NEW F, NEW R
        PROVE  Read("csv", CsvState(F, R, <<>>, "start"), Quoted(f)) = CsvState(F, R, f, "behind")
    BY QuotedIsRead
  <2>3. "behind" \in EndsAt
    BY DEF EndsAt
  <2> QED
    BY <2>1, <2>2, <2>3 DEF IsWritten
<1>2. CASE Special \intersect ToSet(f) # {}
  BY <1>1, <1>2 DEF CsvEscape, Special
<1>3. CASE Special \intersect ToSet(f) = {}
  <2>1. CsvEscape(f) = f
    BY <1>3 DEF CsvEscape, Special
  <2>2. DOMAIN f = 1..Len(f)
    BY LenProperties
  <2>3. \A i \in 1..Len(f) : f[i] \notin Special
    BY <1>3, <2>2 DEF ToSet
  <2>4. IsWritten(f, f)
    <3>1. ASSUME NEW F, NEW R
          PROVE  \E at \in PlainAt : Read("csv", CsvState(F, R, <<>>, "start"), f) = CsvState(F, R, f, at)
      BY <2>3, PlainIsRead
    <3>2. PlainAt \subseteq EndsAt
      BY DEF PlainAt, EndsAt
    <3> QED
      BY <3>1, <3>2 DEF IsWritten
  <2>5. f \in Seq(C \union {"quote"})
    OBVIOUS
  <2> QED
    BY <1>1, <2>1, <2>4, <2>5
<1> QED
  BY <1>1, <1>2, <1>3

LEMMA CellIsText ==
  ASSUME NEW C, NEW t \in Seq(C), NEW c \in Marks
  PROVE  Append(t, c) \in Seq(C \union Marks)
<1> DEFINE D == C \union Marks
<1>1. c \in D /\ C \subseteq D
  OBVIOUS
<1> HIDE DEF D
<1>2. t \in Seq(D)
  BY <1>1, SeqMonotonic
<1>3. Append(t, c) \in Seq(D)
  BY <1>1, <1>2, AppendProperties
<1> QED
  BY <1>3 DEF D

LEMMA CellIsRead ==
  ASSUME NEW C, NEW t \in Seq(C), NEW f, IsWritten(t, f), NEW c \in Marks, NEW F, NEW R
  PROVE  Read("csv", CsvState(F, R, <<>>, "start"), Append(t, c)) = Ended(F, R, f, c)
<1> DEFINE D == C \union Marks
<1>1. c \in D /\ t \in Seq(D) /\ <<c>> \in Seq(D)
  <2>1. c \in D /\ C \subseteq D
    OBVIOUS
  <2> HIDE DEF D
  <2>2. t \in Seq(D)
    BY <2>1, SeqMonotonic
  <2> QED
    BY <2>1, <2>2
<1>2. Append(t, c) = t \o <<c>> /\ Append(t, c) \in Seq(D)
  <2> HIDE DEF D
  <2> QED
    BY <1>1, AppendIsConcat, AppendProperties
<1>3. PICK at \in EndsAt :
        Read("csv", CsvState(F, R, <<>>, "start"), t) = CsvState(F, R, f, at)
  BY DEF IsWritten
<1>4. Read("csv", CsvState(F, R, <<>>, "start"), t \o <<c>>) = ReadChar("csv", CsvState(F, R, f, at), c)
  <2> HIDE DEF D
  <2> DEFINE s == CsvState(F, R, <<>>, "start")
             last == <<c>>
  <2>2. last \in Seq(D)
    BY <1>1
  <2> HIDE DEF s, last
  <2>3. Read("csv", s, t \o last) = Read("csv", Read("csv", s, t), last)
    BY <1>1, <2>2, ReadJoined
  <2>1. Read("csv", CsvState(F, R, <<>>, "start"), t \o <<c>>) = Read("csv", CsvState(F, R, f, at), <<c>>)
    BY <1>3, <2>3 DEF s, last
  <2> QED
    BY <2>1, ReadOne
<1>5. ReadChar("csv", CsvState(F, R, f, at), c) = Ended(F, R, f, c)
  BY EndsField
<1> QED
  BY <1>2, <1>4, <1>5

(* A line of written fields is read as the fields.                         *)
(* The state behind a line of fields, and when texts are those of a line.  *)
LineRead(F, R, fields) == CsvState(F \o fields, R \union {Len(F) + Len(fields)}, <<>>, "start")

AreWritten(texts, C, fields, V) ==
  /\ texts \in Seq(Seq(C)) /\ fields \in Seq(V) /\ Len(texts) = Len(fields) /\ Len(fields) # 0
  /\ \A n \in 1..Len(fields) : IsWritten(texts[n], fields[n])

LineOK(texts, C, fields, F, R) ==
  /\ Line(texts) \in Seq(C \union Marks)
  /\ Read("csv", CsvState(F, R, <<>>, "start"), Line(texts)) = LineRead(F, R, fields)

LEMMA LineIsBoth ==
  ASSUME NEW C, NEW texts, NEW V, NEW fields, AreWritten(texts, C, fields, V), NEW F \in Seq(V), NEW R
  PROVE  LineOK(texts, C, fields, F, R)
<1> DEFINE k == Len(fields)
           D == C \union Marks
           mark(n) == IF n = k THEN "nl" ELSE "comma"
           pieces == [n \in 1..k |-> Append(texts[n], mark(n))]
           rows(n) == IF n = k THEN R \union {Len(F) + k} ELSE R
           st == [n \in 0..k |-> CsvState(F \o SubSeq(fields, 1, n), rows(n), <<>>, "start")]
<1>0. /\ texts \in Seq(Seq(C)) /\ fields \in Seq(V) /\ Len(texts) = Len(fields) /\ Len(fields) # 0
      /\ \A n \in 1..Len(fields) : IsWritten(texts[n], fields[n])
  BY DEF AreWritten
<1>1. /\ k \in Nat /\ 0 \in 0..k /\ k \in 0..k /\ DOMAIN texts = 1..k
      /\ \A n \in 1..k : texts[n] \in Seq(C) /\ fields[n] \in V
  BY <1>0, LenProperties, ElementOfSeq
<1>2. \A n \in 1..k : mark(n) \in Marks
  BY DEF Marks
<1>3. \A n \in 1..k : Append(texts[n], mark(n)) \in Seq(D)
  <2> HIDE DEF mark
  <2> QED
    BY <1>1, <1>2, CellIsText
<1>4. pieces \in Seq(Seq(D)) /\ Len(pieces) = k /\ Line(texts) = FlattenSeq(pieces)
  <2>1. pieces \in [1..k -> Seq(D)]
    BY <1>3
  <2>2. pieces \in Seq(Seq(D)) /\ Len(pieces) = k
    <3> HIDE DEF pieces, D
    <3> QED
      BY <1>1, <2>1, IsASequence
  <2>3. Len(texts) = k /\ Line(texts) = FlattenSeq(pieces)
    BY <1>0, <1>1 DEF Line
  <2> QED
    BY <2>2, <2>3
<1>5. ASSUME NEW n \in 1..k PROVE Read("csv", st[n - 1], pieces[n]) = st[n]
  <2>1. n \in 0..k /\ n - 1 \in 0..k /\ n - 1 # k /\ n - 1 \in Nat /\ n - 1 <= k
    BY <1>1
  <2> DEFINE before == F \o SubSeq(fields, 1, n - 1)
  <2>2. SubSeq(fields, 1, n - 1) \in Seq(V) /\ Len(SubSeq(fields, 1, n - 1)) = n - 1
    BY <1>1, <2>1, SubSeqProperties
  <2>3. before \in Seq(V) /\ Len(before) = Len(F) + (n - 1) /\ Len(F) \in Nat
    BY <2>2, ConcatProperties, LenProperties
  <2>4. F \o SubSeq(fields, 1, n) = Append(before, fields[n])
    <3>1. SubSeq(fields, 1, n) = Append(SubSeq(fields, 1, n - 1), fields[n])
      BY <1>0, PrefixGrows
    <3>2. fields[n] \in V
      BY <1>1
    <3> QED
      BY <2>2, <3>1, <3>2
  <2>5. st[n - 1] = CsvState(before, R, <<>>, "start")
    BY <2>1
  <2>6. st[n] = CsvState(Append(before, fields[n]), rows(n), <<>>, "start")
    BY <2>1, <2>4
  <2>7. pieces[n] = Append(texts[n], mark(n)) /\ texts[n] \in Seq(C) /\ mark(n) \in Marks
    BY <1>1, <1>2
  <2>8. (IF mark(n) = "nl" THEN R \union {Len(before) + 1} ELSE R) = rows(n)
    <3>1. n = k => Len(before) + 1 = Len(F) + k
      BY <2>3
    <3> QED
      BY <3>1
  <2> HIDE DEF before, st, pieces, mark, rows
  <2>9. Read("csv", CsvState(before, R, <<>>, "start"), Append(texts[n], mark(n))) =
          CsvState(Append(before, fields[n]), rows(n), <<>>, "start")
    <3>1. IsWritten(texts[n], fields[n])
      BY <1>0
    <3> DEFINE t == texts[n]
               f == fields[n]
               c == mark(n)
    <3>2. t \in Seq(C) /\ c \in Marks /\ IsWritten(t, f)
      BY <2>7, <3>1
    <3> HIDE DEF t, f, c
    <3>3. Read("csv", CsvState(before, R, <<>>, "start"), Append(t, c)) = Ended(before, R, f, c)
      BY <3>2, CellIsRead
    <3> QED
      BY <2>8, <3>3 DEF t, f, c, Ended
  <2> QED
    BY <2>5, <2>6, <2>7, <2>9
<1>6. st[0] = CsvState(F, R, <<>>, "start")
  <2>1. st[0] = CsvState(F \o SubSeq(fields, 1, 0), rows(0), <<>>, "start") /\ rows(0) = R
    BY <1>0, <1>1
  <2>2. F \o SubSeq(fields, 1, 0) = F
    BY <1>0, PrefixGrows, ConcatEmptySeq
  <2> QED
    BY <2>1, <2>2
<1>7. st[k] = LineRead(F, R, fields)
  <2>1. st[k] = CsvState(F \o SubSeq(fields, 1, k), R \union {Len(F) + k}, <<>>, "start")
    BY <1>1
  <2>2. SubSeq(fields, 1, k) = fields
    BY <1>0, PrefixGrows
  <2> QED
    BY <2>1, <2>2 DEF LineRead
<1> HIDE DEF st, pieces, D
<1>8. Line(texts) \in Seq(D) /\ Read("csv", st[0], Line(texts)) = st[k]
  <2>1. \A i \in 1..Len(pieces) : Read("csv", st[i - 1], pieces[i]) = st[i]
    BY <1>4, <1>5
  <2>2. FlattenSeq(pieces) \in Seq(D) /\ Read("csv", st[0], FlattenSeq(pieces)) = st[Len(pieces)]
    BY <1>4, <2>1, ReadPieces
  <2> QED
    BY <1>4, <2>2
<1> QED
  BY <1>6, <1>7, <1>8 DEF D, LineOK

LEMMA LineIsText ==
  ASSUME NEW C, NEW texts, NEW V, NEW fields, AreWritten(texts, C, fields, V)
  PROVE  Line(texts) \in Seq(C \union Marks)
<1> DEFINE F == <<>>
           R == {}
<1>1. F \in Seq(V)
  OBVIOUS
<1> HIDE DEF F, R
<1>2. LineOK(texts, C, fields, F, R)
  BY <1>1, LineIsBoth
<1> QED
  BY <1>2 DEF LineOK

LEMMA LineIsRead ==
  ASSUME NEW C, NEW texts, NEW V, NEW fields, AreWritten(texts, C, fields, V), NEW F \in Seq(V), NEW R
  PROVE  Read("csv", CsvState(F, R, <<>>, "start"), Line(texts)) = LineRead(F, R, fields)
<1>1. LineOK(texts, C, fields, F, R)
  BY LineIsBoth
<1> QED
  BY <1>1 DEF LineOK

Exportable ==
  [info : Infos, meta : {"none", "pflog", "enc"}, ifname : {<<"x">>, <<"x", "comma">>},
   ports : BOOLEAN, based : BOOLEAN]

(* The characters of a packet's cells.                                     *)
CellChars(p) == ToSet(p.info) \union {"x", "comma"} \union ToSet(ExportColumns)

LEMMA Columns17 ==
  /\ DOMAIN ExportColumns = 1..17 /\ Len(ExportColumns) = 17
  /\ \A n \in 1..17 : ExportColumns[n] \in ToSet(ExportColumns)
<1>1. DOMAIN ExportColumns = 1..17 /\ Len(ExportColumns) = 17
  BY DEF ExportColumns
<1> QED
  BY <1>1 DEF ToSet

LEMMA CellsAreTexts ==
  ASSUME NEW p \in Exportable, NEW c \in ToSet(ExportColumns)
  PROVE  Cell(p, c) \in Seq(CellChars(p))
<1>1. Cell(p, c) \in {p.info, p.ifname, <<c>>, <<>>}
  BY DEF Cell
<1>2. p.info \in Seq(ToSet(p.info))
  BY InfoAssumption DEF Exportable
<1>3. p.info \in Seq(CellChars(p))
  <2>1. ToSet(p.info) \subseteq CellChars(p)
    BY DEF CellChars
  <2> QED
    BY <1>2, <2>1, SeqMonotonic
<1>4. p.ifname \in Seq(CellChars(p))
  <2>1. "x" \in CellChars(p) /\ "comma" \in CellChars(p)
    BY DEF CellChars
  <2>2. p.ifname \in {<<"x">>, <<"x", "comma">>}
    BY DEF Exportable
  <2> DEFINE C == CellChars(p)
             name == p.ifname
  <2>3. "x" \in C /\ "comma" \in C
    BY <2>1
  <2> HIDE DEF C, name
  <2>4. <<"x">> \in Seq(C) /\ <<"x", "comma">> \in Seq(C)
    BY <2>3
  <2>5. name \in Seq(C)
    BY <2>2, <2>4 DEF name
  <2> QED
    BY <2>5 DEF C, name
<1>5. <<c>> \in Seq(CellChars(p)) /\ <<>> \in Seq(CellChars(p))
  <2>1. c \in CellChars(p)
    BY DEF CellChars
  <2> QED
    BY <2>1
<1> QED
  BY <1>1, <1>3, <1>4, <1>5

(* A row is read as the cells of its packet.                               *)
LEMMA FieldsOfRow ==
  ASSUME NEW p \in Exportable
  PROVE  /\ CsvFields(p) \in Seq(Seq(CellChars(p))) /\ Len(CsvFields(p)) = 17
         /\ \A n \in 1..17 : /\ CsvFields(p)[n] = Cell(p, ExportColumns[n])
                              /\ CsvFields(p)[n] \in Seq(CellChars(p))
<1> DEFINE V == Seq(CellChars(p))
           cells == CsvFields(p)
<1>1. cells = [n \in 1..17 |-> Cell(p, ExportColumns[n])]
  BY Columns17 DEF CsvFields
<1>2. \A n \in 1..17 : cells[n] = Cell(p, ExportColumns[n]) /\ cells[n] \in V
  BY <1>1, Columns17, CellsAreTexts
<1>3. cells \in [1..17 -> V] /\ 17 \in Nat
  BY <1>1, <1>2
<1> HIDE DEF cells, V
<1>4. cells \in Seq(V) /\ Len(cells) = 17
  BY <1>3, IsASequence
<1> QED
  BY <1>2, <1>4 DEF cells, V

LEMMA RowIsWritten ==
  ASSUME NEW p \in Exportable
  PROVE  \E texts : /\ WriteCsvRow(p) = Line(texts)
                    /\ AreWritten(texts, CellChars(p) \union {"quote"}, CsvFields(p), Seq(CellChars(p)))
<1> DEFINE C == CellChars(p)
           Q == CellChars(p) \union {"quote"}
           V == Seq(C)
           W == Seq(Q)
           cells == CsvFields(p)
           texts == [n \in DOMAIN ExportColumns |-> CsvEscape(CsvFields(p)[n])]
<1>1. cells \in Seq(V) /\ Len(cells) = 17 /\ \A n \in 1..17 : cells[n] \in V
  BY FieldsOfRow
<1>2. \A n \in 1..17 : CsvEscape(cells[n]) \in W /\ IsWritten(CsvEscape(cells[n]), cells[n])
  BY <1>1, EscapedIsWritten
<1>3. texts = [n \in 1..17 |-> CsvEscape(cells[n])]
  BY Columns17
<1>4. texts \in [1..17 -> W] /\ 17 \in Nat /\ \A n \in 1..17 : texts[n] = CsvEscape(cells[n])
  BY <1>2, <1>3
<1>5. WriteCsvRow(p) = Line(texts)
  BY DEF WriteCsvRow
<1> HIDE DEF cells, texts, V, W, C, Q
<1>6. texts \in Seq(W) /\ Len(texts) = 17
  <2>1. texts \in [1..17 -> W] /\ 17 \in Nat
    BY <1>4
  <2> QED
    BY <2>1, IsASequence
<1>7. AreWritten(texts, Q, cells, V)
  BY <1>1, <1>2, <1>4, <1>6 DEF AreWritten, W
<1> QED
  BY <1>5, <1>7 DEF cells, V, C, Q

LEMMA RowIsText ==
  ASSUME NEW p \in Exportable
  PROVE  WriteCsvRow(p) \in Seq((CellChars(p) \union {"quote"}) \union Marks)
<1> DEFINE Q == CellChars(p) \union {"quote"}
<1>1. PICK texts : WriteCsvRow(p) = Line(texts) /\ AreWritten(texts, Q, CsvFields(p), Seq(CellChars(p)))
  BY RowIsWritten
<1> HIDE DEF Q
<1>2. Line(texts) \in Seq(Q \union Marks)
  BY <1>1, LineIsText
<1> QED
  BY <1>1, <1>2 DEF Q

LEMMA RowIsRead ==
  ASSUME NEW p \in Exportable, NEW F \in Seq(Seq(CellChars(p))), NEW R
  PROVE  Read("csv", CsvState(F, R, <<>>, "start"), WriteCsvRow(p)) = LineRead(F, R, CsvFields(p))
<1> DEFINE Q == CellChars(p) \union {"quote"}
           V == Seq(CellChars(p))
<1>1. PICK texts : WriteCsvRow(p) = Line(texts) /\ AreWritten(texts, Q, CsvFields(p), V)
  BY RowIsWritten
<1>2. F \in Seq(V)
  OBVIOUS
<1> HIDE DEF Q, V
<1>3. Read("csv", CsvState(F, R, <<>>, "start"), Line(texts)) = LineRead(F, R, CsvFields(p))
  BY <1>1, <1>2, LineIsRead
<1> QED
  BY <1>1, <1>3

(* The header is read as the names of the columns.                         *)
LEMMA HeaderIsRead ==
  /\ ReadCsv(CsvHeader).fields = [n \in 1..17 |-> <<ExportColumns[n]>>]
  /\ Len(ReadCsv(CsvHeader).fields) = 17
<1> DEFINE C == ToSet(ExportColumns)
           names == [n \in 1..17 |-> <<ExportColumns[n]>>]
           texts == [n \in DOMAIN ExportColumns |-> Quoted(<<ExportColumns[n]>>)]
<1>1. \A n \in 1..17 : <<ExportColumns[n]>> \in Seq(C)
  BY Columns17
<1>2. names \in Seq(Seq(C)) /\ Len(names) = 17
  <2>1. names \in [1..17 -> Seq(C)] /\ 17 \in Nat
    BY <1>1
  <2> QED
    BY <2>1, IsASequence
<1>3. \A n \in 1..17 : Quoted(<<ExportColumns[n]>>) \in Seq(C \union {"quote"})
                       /\ IsWritten(Quoted(<<ExportColumns[n]>>), <<ExportColumns[n]>>)
  BY <1>1, EscapedIsWritten
<1>4. texts = [n \in 1..17 |-> Quoted(<<ExportColumns[n]>>)]
  BY Columns17
<1>5. texts \in Seq(Seq(C \union {"quote"})) /\ Len(texts) = 17
  <2>1. texts \in [1..17 -> Seq(C \union {"quote"})] /\ 17 \in Nat
    BY <1>3, <1>4
  <2> QED
    BY <2>1, IsASequence
<1>6. \A n \in 1..17 : IsWritten(texts[n], names[n])
  BY <1>3, <1>4
<1>7. CsvHeader = Line(texts)
  BY DEF CsvHeader
<1> HIDE DEF names, texts, C
<1>8. <<>> \in Seq(Seq(C)) /\ <<>> \o names = names
  BY <1>2, ConcatEmptySeq
<1>9. ReadCsv(CsvHeader) = CsvState(<<>> \o names, {} \union {Len(<<>>) + Len(names)}, <<>>, "start")
  <2> DEFINE Q == C \union {"quote"}
             V == Seq(C)
             F == <<>>
             R == {}
  <2>1. AreWritten(texts, Q, names, V) /\ F \in Seq(V)
    BY <1>2, <1>5, <1>6, <1>8 DEF AreWritten
  <2> HIDE DEF Q, V, F, R
  <2>3. Read("csv", CsvState(F, R, <<>>, "start"), Line(texts)) = LineRead(F, R, names)
    BY <2>1, LineIsRead
  <2> QED
    BY <1>7, <2>3 DEF ReadCsv, LineRead, F, R
<1>10. ReadCsv(CsvHeader).fields = names
  BY <1>8, <1>9 DEF CsvState
<1> QED
  BY <1>2, <1>10 DEF names

(* One row and two rows.                                                   *)
LEMMA RowsAreRead ==
  ASSUME NEW p \in Exportable
  PROVE  /\ ReadCsv(FlattenSeq(<<WriteCsvRow(p)>>)) = CsvState(CsvFields(p), {17}, <<>>, "start")
         /\ ReadCsv(FlattenSeq(<<WriteCsvRow(p), WriteCsvRow(p)>>)) =
              CsvState(CsvFields(p) \o CsvFields(p), {17, 34}, <<>>, "start")
<1> DEFINE V == Seq(CellChars(p))
           D == (CellChars(p) \union {"quote"}) \union Marks
           row == WriteCsvRow(p)
           cells == CsvFields(p)
           s0 == CsvState(<<>>, {}, <<>>, "start")
           s1 == CsvState(cells, {17}, <<>>, "start")
           s2 == CsvState(cells \o cells, {17, 34}, <<>>, "start")
<1>1. <<>> \in Seq(V) /\ Len(<<>>) = 0
  OBVIOUS
<1>2. cells \in Seq(V) /\ Len(cells) = 17 /\ row \in Seq(D)
  BY FieldsOfRow, RowIsText
<1>3. Read("csv", s0, row) = s1
  <2>1. Read("csv", s0, row) = LineRead(<<>>, {}, cells)
    BY <1>1, RowIsRead
  <2>2. <<>> \o cells = cells
    BY <1>2, ConcatEmptySeq
  <2>3. {} \union {Len(<<>>) + Len(cells)} = {17}
    BY <1>1, <1>2
  <2> HIDE DEF cells
  <2> QED
    BY <2>1, <2>2, <2>3 DEF LineRead
<1>4. Read("csv", s1, row) = s2
  <2>1. Read("csv", s1, row) = LineRead(cells, {17}, cells)
    BY <1>2, RowIsRead
  <2>2. {17} \union {Len(cells) + Len(cells)} = {17, 34}
    BY <1>2
  <2> HIDE DEF cells
  <2> QED
    BY <2>1, <2>2 DEF LineRead
<1>5. \A x : ReadCsv(x) = Read("csv", s0, x)
  BY DEF ReadCsv
<1> HIDE DEF V, D, row, cells, s0, s1, s2
<1>6. Read("csv", s0, FlattenSeq(<<row>>)) = s1
  <2> DEFINE st == [i \in 0..1 |-> IF i = 0 THEN s0 ELSE s1]
  <2>1. st[0] = s0 /\ st[1] = s1
    OBVIOUS
  <2>2. <<row>> \in Seq(Seq(D)) /\ Len(<<row>>) = 1 /\ <<row>>[1] = row
    BY <1>2
  <2>3. \A i \in 1..Len(<<row>>) : Read("csv", st[i - 1], <<row>>[i]) = st[i]
    <3>1. \A i \in 1..1 : i = 1 /\ i - 1 = 0
      OBVIOUS
    <3> HIDE DEF st
    <3> QED
      BY <1>3, <2>1, <2>2, <3>1
  <2> DEFINE pieces == <<row>>
  <2>4. pieces \in Seq(Seq(D)) /\ Len(pieces) = 1
    BY <2>2
  <2>5. \A i \in 1..Len(pieces) : Read("csv", st[i - 1], pieces[i]) = st[i]
    BY <2>3
  <2> HIDE DEF st, pieces
  <2>6. Read("csv", st[0], FlattenSeq(pieces)) = st[Len(pieces)]
    BY <2>4, <2>5, ReadPieces
  <2> QED
    BY <2>1, <2>4, <2>6 DEF pieces
<1>7. Read("csv", s0, FlattenSeq(<<row, row>>)) = s2
  <2> DEFINE st == [i \in 0..2 |-> IF i = 0 THEN s0 ELSE IF i = 1 THEN s1 ELSE s2]
  <2>1. st[0] = s0 /\ st[1] = s1 /\ st[2] = s2
    OBVIOUS
  <2>2. <<row, row>> \in Seq(Seq(D)) /\ Len(<<row, row>>) = 2 /\ \A i \in 1..2 : <<row, row>>[i] = row
    BY <1>2
  <2>3. \A i \in 1..Len(<<row, row>>) : Read("csv", st[i - 1], <<row, row>>[i]) = st[i]
    <3>1. \A i \in 1..2 : (i = 1 /\ i - 1 = 0) \/ (i = 2 /\ i - 1 = 1)
      OBVIOUS
    <3> HIDE DEF st
    <3> QED
      BY <1>3, <1>4, <2>1, <2>2, <3>1
  <2> DEFINE pieces == <<row, row>>
  <2>4. pieces \in Seq(Seq(D)) /\ Len(pieces) = 2
    BY <2>2
  <2>5. \A i \in 1..Len(pieces) : Read("csv", st[i - 1], pieces[i]) = st[i]
    BY <2>3
  <2> HIDE DEF st, pieces
  <2>6. Read("csv", st[0], FlattenSeq(pieces)) = st[Len(pieces)]
    BY <2>4, <2>5, ReadPieces
  <2> QED
    BY <2>1, <2>4, <2>6 DEF pieces
<1> QED
  BY <1>5, <1>6, <1>7 DEF row, cells, s1, s2

(* A file that is exported: nothing, a packet, or two like it.             *)
FileOK == exported = <<>> \/ \E p \in Exportable : exported \in {<<p>>, <<p, p>>}

LEMMA CsvIsReadBack == FileOK => CsvReadsBack
<1> SUFFICES ASSUME FileOK, exported # <<>>
             PROVE  LET header == ReadCsv(CsvHeader).fields
                        width == Len(header)
                        read == ReadCsv(FlattenSeq([i \in DOMAIN exported |-> WriteCsvRow(exported[i])]))
                    IN /\ read.at = "start" /\ read.rows = {i * width : i \in DOMAIN exported}
                       /\ \A i \in DOMAIN exported, n \in 1..width :
                            read.fields[(i - 1) * width + n] = Cell(exported[i], header[n][1])
  BY DEF CsvReadsBack
<1> DEFINE header == ReadCsv(CsvHeader).fields
           rows == [i \in DOMAIN exported |-> WriteCsvRow(exported[i])]
           width == Len(header)
           read == ReadCsv(FlattenSeq(rows))
<1>1. PICK p \in Exportable : exported \in {<<p>>, <<p, p>>}
  BY DEF FileOK
<1>2. width = 17 /\ \A n \in 1..17 : header[n][1] = ExportColumns[n]
  BY HeaderIsRead
<1>3. /\ CsvFields(p) \in Seq(Seq(CellChars(p))) /\ Len(CsvFields(p)) = 17
      /\ \A n \in 1..17 : CsvFields(p)[n] = Cell(p, ExportColumns[n])
  BY FieldsOfRow
<1>4. CASE exported = <<p>>
  <2>1. DOMAIN exported = {1} /\ exported[1] = p
    BY <1>4
  <2>2. rows = <<WriteCsvRow(p)>>
    BY <1>4
  <2>3. read = CsvState(CsvFields(p), {17}, <<>>, "start")
    BY <2>2, RowsAreRead
  <2> HIDE DEF header, read, width
  <2>4. read.at = "start" /\ read.rows = {17} /\ read.fields = CsvFields(p)
    BY <2>3 DEF CsvState
  <2>5. {i * width : i \in DOMAIN exported} = {17}
    BY <1>2, <2>1
  <2>6. ASSUME NEW i \in DOMAIN exported, NEW n \in 1..width
        PROVE  read.fields[(i - 1) * width + n] = Cell(exported[i], header[n][1])
    <3>1. i = 1 /\ (i - 1) * width + n = n /\ n \in 1..17
      BY <1>2, <2>1
    <3> QED
      BY <1>2, <1>3, <2>1, <2>4, <3>1
  <2> QED
    BY <2>4, <2>5, <2>6 DEF header, read, width
<1>5. CASE exported = <<p, p>>
  <2>1. DOMAIN exported = {1, 2} /\ exported[1] = p /\ exported[2] = p
    BY <1>5
  <2>2. rows = <<WriteCsvRow(p), WriteCsvRow(p)>>
    BY <1>5
  <2>3. read = CsvState(CsvFields(p) \o CsvFields(p), {17, 34}, <<>>, "start")
    BY <2>2, RowsAreRead
  <2> HIDE DEF header, read, width
  <2>4. read.at = "start" /\ read.rows = {17, 34} /\ read.fields = CsvFields(p) \o CsvFields(p)
    BY <2>3 DEF CsvState
  <2>5. {i * width : i \in DOMAIN exported} = {17, 34}
    <3>1. {i * width : i \in {1, 2}} = {17, 34}
      BY <1>2
    <3> QED
      BY <2>1, <3>1
  <2>6. ASSUME NEW i \in DOMAIN exported, NEW n \in 1..width
        PROVE  read.fields[(i - 1) * width + n] = Cell(exported[i], header[n][1])
    <3> DEFINE cells == CsvFields(p)
               V == Seq(CellChars(p))
    <3>5. cells \in Seq(V) /\ Len(cells) = 17
      BY <1>3
    <3> HIDE DEF cells, V
    <3>9. n \in 1..17
      BY <1>2
    <3>7. n \in 1..Len(cells)
      BY <3>5, <3>9
    <3>8. (cells \o cells)[n] = cells[n]
      BY <3>5, <3>7, JoinedFirst
    <3> DEFINE m == 17 + n
    <3>10. m \in Int /\ m - Len(cells) \in 1..Len(cells) /\ m - Len(cells) = n
      BY <3>5, <3>7
    <3> HIDE DEF m
    <3>11. (cells \o cells)[m] = cells[m - Len(cells)]
      BY <3>5, <3>10, JoinedSecond
    <3>6. (cells \o cells)[n] = cells[n] /\ (cells \o cells)[17 + n] = cells[n]
      BY <3>8, <3>10, <3>11 DEF m
    <3>1. (CsvFields(p) \o CsvFields(p))[n] = CsvFields(p)[n]
      BY <3>6 DEF cells
    <3>2. (CsvFields(p) \o CsvFields(p))[17 + n] = CsvFields(p)[n]
      BY <3>6 DEF cells
    <3>3. CASE i = 1
      <4>1. (i - 1) * width + n = n
        BY <1>2, <3>3
      <4> QED
        BY <1>2, <1>3, <2>1, <2>4, <3>1, <3>3, <3>9, <4>1
    <3>4. CASE i = 2
      <4>1. (i - 1) * width + n = 17 + n
        BY <1>2, <3>4
      <4> QED
        BY <1>2, <1>3, <2>1, <2>4, <3>2, <3>4, <3>9, <4>1
    <3> QED
      BY <2>1, <3>3, <3>4
  <2> QED
    BY <2>4, <2>5, <2>6 DEF header, read, width
<1> QED
  BY <1>1, <1>4, <1>5

(* The members of a JSON object are the cells that are not empty.          *)
LEMMA FormatsSayTheSame == FileOK => FormatsAgree
<1> SUFFICES ASSUME FileOK, NEW i \in DOMAIN exported, NEW n \in 1..17, ExportColumns[n] # "enc_flags"
             PROVE  CsvFields(exported[i])[n] =
                      IF ExportColumns[n] \in DOMAIN FromSummary(exported[i])
                        THEN FromSummary(exported[i])[ExportColumns[n]] ELSE <<>>
  BY Columns17 DEF FormatsAgree
<1> DEFINE p == exported[i]
           c == ExportColumns[n]
<1>1. p \in Exportable
  BY DEF FileOK
<1>2. c \in ToSet(ExportColumns) /\ CsvFields(p)[n] = Cell(p, c)
  BY Columns17 DEF CsvFields
<1>3. DOMAIN FromSummary(p) = Members(p)
  BY DEF FromSummary
<1> HIDE DEF p, c
<1>4. c \in Members(p) => FromSummary(p)[c] = IF c = "info" THEN p.info ELSE IF c = "pf_interface" THEN p.ifname ELSE <<c>>
  BY DEF c, FromSummary
<1>5. c \in Members(p) <=> /\ c \in PflogColumns => p.meta = "pflog"
                           /\ c \in EncColumns => p.meta = "enc"
                           /\ c \in {"src_port", "dst_port"} => p.ports
                           /\ c = "absolute_time" => p.based
  BY <1>2 DEF Members
<1>6. Cell(p, c) = IF c \in {"src_port", "dst_port"} THEN IF p.ports THEN <<c>> ELSE <<>>
                   ELSE IF c = "absolute_time" THEN IF p.based THEN <<c>> ELSE <<>>
                   ELSE IF c = "info" THEN p.info
                   ELSE IF c = "pf_interface" THEN IF p.meta = "pflog" THEN p.ifname ELSE <<>>
                   ELSE IF c \in PflogColumns THEN IF p.meta = "pflog" THEN <<c>> ELSE <<>>
                   ELSE IF c \in EncColumns THEN IF p.meta = "enc" THEN <<c>> ELSE <<>>
                   ELSE <<c>>
  BY DEF Cell, PflogColumns, EncColumns
<1>7. CASE c \in Members(p)
  BY <1>2, <1>3, <1>4, <1>5, <1>6, <1>7 DEF p, c, PflogColumns, EncColumns
<1>8. CASE c \notin Members(p)
  BY <1>2, <1>3, <1>5, <1>6, <1>8 DEF p, c, PflogColumns, EncColumns
<1> QED
  BY <1>7, <1>8

LEMMA CliIsReadBack == FileOK => CliCsvReadsBack
<1> SUFFICES ASSUME FileOK, NEW i \in DOMAIN exported
             PROVE  LET header == ReadCsv(CliHeader).fields
                        read == ReadCsv(CliCsv(exported[i]))
                    IN /\ read.at = "start" /\ read.rows = {Len(header)}
                       /\ \A n \in DOMAIN header : read.fields[n] = CliCell(exported[i], header[n][1])
  BY DEF CliCsvReadsBack
<1> DEFINE p == exported[i]
           C == CellChars(p) \union ToSet(CliColumns)
           D == C \union {"quote"}
           names == [n \in 1..9 |-> <<CliColumns[n]>>]
           cells == [n \in 1..9 |-> CliCell(p, CliColumns[n])]
           texts == [n \in 1..9 |-> IF n \in {1, 2, 6} THEN cells[n] ELSE Quoted(cells[n])]
<1>1. p \in Exportable
  BY DEF FileOK
<1>2. DOMAIN CliColumns = 1..9 /\ \A n \in 1..9 : CliColumns[n] \in C
  <2>1. DOMAIN CliColumns = 1..9
    BY DEF CliColumns
  <2> QED
    BY <2>1 DEF ToSet
<1>3. \A n \in 1..9 : /\ CliColumns[n] \notin Special
                      /\ n \in {1, 2, 6} => CliColumns[n] \notin {"Info", "Process"}
  BY DEF CliColumns, Special
<1>4. p.info \in Seq(C) /\ p.ifname \in Seq(C)
  <2>1. p.info \in Seq(ToSet(p.info))
    BY <1>1, InfoAssumption DEF Exportable
  <2>2. ToSet(p.info) \subseteq C /\ "x" \in C /\ "comma" \in C
    BY DEF CellChars
  <2>3. p.ifname \in {<<"x">>, <<"x", "comma">>}
    BY <1>1 DEF Exportable
  <2> DEFINE name == p.ifname
  <2> HIDE DEF p, C, name
  <2>4. p.info \in Seq(C)
    BY <2>1, <2>2, SeqMonotonic
  <2>5. <<"x">> \in Seq(C) /\ <<"x", "comma">> \in Seq(C)
    BY <2>2
  <2>6. name \in Seq(C)
    BY <2>3, <2>5 DEF name
  <2> QED
    BY <2>4, <2>6 DEF name
<1>5. CliHeader = Line(names)
  BY <1>2 DEF CliHeader
<1>6. CliCsv(p) = Line(texts)
  <2>1. CliCsv(p) = Line([n \in 1..9 |-> IF n \in {1, 2, 6} THEN CliCell(p, CliColumns[n])
                                         ELSE <<"quote">> \o CliEscape(CliCell(p, CliColumns[n])) \o <<"quote">>])
    BY <1>2 DEF CliCsv
  <2>2. \A s : <<"quote">> \o CliEscape(s) \o <<"quote">> = Quoted(s)
    BY DEF CliEscape, Quoted
  <2>3. \A n \in 1..9 : cells[n] = CliCell(p, CliColumns[n])
    OBVIOUS
  <2> HIDE DEF cells, p
  <2>4. texts = [n \in 1..9 |-> IF n \in {1, 2, 6} THEN CliCell(p, CliColumns[n])
                                ELSE <<"quote">> \o CliEscape(CliCell(p, CliColumns[n])) \o <<"quote">>]
    BY <2>2, <2>3
  <2> QED
    BY <2>1, <2>4
<1> HIDE DEF p, C
<1>7. names \in Seq(Seq(C)) /\ Len(names) = 9 /\ \A n \in 1..9 : names[n] = <<CliColumns[n]>> /\ names[n] \in Seq(C)
  <2>1. \A n \in 1..9 : names[n] = <<CliColumns[n]>> /\ names[n] \in Seq(C)
    BY <1>2
  <2>2. names \in [1..9 -> Seq(C)] /\ 9 \in Nat
    BY <2>1
  <2> QED
    BY <2>1, <2>2, IsASequence
<1>8. cells \in Seq(Seq(C)) /\ Len(cells) = 9 /\ \A n \in 1..9 : cells[n] \in Seq(C)
  <2>1. \A n \in 1..9 : CliCell(p, CliColumns[n]) \in {p.info, p.ifname, <<CliColumns[n]>>}
    BY DEF CliCell
  <2>4. \A n \in 1..9 : <<CliColumns[n]>> \in Seq(C)
    BY <1>2
  <2>2. \A n \in 1..9 : cells[n] \in Seq(C)
    BY <1>4, <2>1, <2>4
  <2>3. cells \in [1..9 -> Seq(C)] /\ 9 \in Nat
    BY <2>2
  <2> QED
    BY <2>2, <2>3, IsASequence
<1>9. ASSUME NEW n \in 1..9 PROVE IsWritten(<<CliColumns[n]>>, <<CliColumns[n]>>)
  <2>1. <<CliColumns[n]>> \in Seq(C)
    BY <1>2
  <2>2. \A j \in 1..Len(<<CliColumns[n]>>) : <<CliColumns[n]>>[j] \notin Special
    BY <1>3
  <2> DEFINE text == <<CliColumns[n]>>
  <2>3. text \in Seq(C) /\ \A j \in 1..Len(text) : text[j] \notin Special
    BY <2>1, <2>2
  <2> HIDE DEF text
  <2>4. ASSUME NEW F, NEW R
        PROVE  \E at \in PlainAt : Read("csv", CsvState(F, R, <<>>, "start"), text) = CsvState(F, R, text, at)
    BY <2>3, PlainIsRead
  <2>5. PlainAt \subseteq EndsAt
    BY DEF PlainAt, EndsAt
  <2>6. IsWritten(text, text)
    BY <2>4, <2>5 DEF IsWritten
  <2> QED
    BY <2>6 DEF text
<1>10. ASSUME NEW n \in 1..9 PROVE texts[n] \in Seq(D) /\ IsWritten(texts[n], cells[n])
  <2>1. CASE n \in {1, 2, 6}
    <3>1. cells[n] = <<CliColumns[n]>>
      BY <1>3, <2>1 DEF CliCell
    <3>2. texts[n] = cells[n] /\ cells[n] \in Seq(D)
      <4>1. C \subseteq D
        OBVIOUS
      <4> QED
        BY <1>8, <2>1, <4>1, SeqMonotonic
    <3> HIDE DEF cells, texts
    <3> QED
      BY <1>9, <3>1, <3>2
  <2>2. CASE n \notin {1, 2, 6}
    <3>1. texts[n] = Quoted(cells[n])
      BY <2>2
    <3> HIDE DEF cells, texts
    <3> QED
      BY <1>8, <3>1, EscapedIsWritten
  <2> QED
    BY <2>1, <2>2
<1>11. texts \in Seq(Seq(D)) /\ Len(texts) = 9
  <2>1. texts = [n \in 1..9 |-> texts[n]] /\ 9 \in Nat
    OBVIOUS
  <2> HIDE DEF texts
  <2>2. texts \in [1..9 -> Seq(D)]
    BY <1>10, <2>1
  <2> QED
    BY <2>1, <2>2, IsASequence
<1> HIDE DEF names, cells, texts, D
<1>12. <<>> \in Seq(Seq(C)) /\ Len(<<>>) = 0 /\ <<>> \o names = names /\ <<>> \o cells = cells
  BY <1>7, <1>8, ConcatEmptySeq
<1>13. ReadCsv(CliHeader).fields = names
  <2> DEFINE V == Seq(C)
             F == <<>>
             R == {}
  <2>4. \A n \in 1..9 : IsWritten(names[n], names[n])
    BY <1>7, <1>9
  <2>2. AreWritten(names, C, names, V) /\ F \in Seq(V)
    BY <1>7, <1>12, <2>4 DEF AreWritten
  <2> HIDE DEF V, F, R
  <2>3. Read("csv", CsvState(F, R, <<>>, "start"), Line(names)) = LineRead(F, R, names)
    BY <2>2, LineIsRead
  <2>1. ReadCsv(CliHeader) = LineRead(<<>>, {}, names)
    BY <1>5, <2>3 DEF ReadCsv, F, R
  <2> QED
    BY <1>12, <2>1 DEF CsvState, LineRead
<1>14. ReadCsv(CliCsv(p)) = CsvState(cells, {9}, <<>>, "start")
  <2> DEFINE V == Seq(C)
             F == <<>>
             R == {}
  <2>2. AreWritten(texts, D, cells, V) /\ F \in Seq(V)
    BY <1>8, <1>10, <1>11, <1>12 DEF AreWritten
  <2> HIDE DEF V, F, R
  <2>3. Read("csv", CsvState(F, R, <<>>, "start"), Line(texts)) = LineRead(F, R, cells)
    BY <2>2, LineIsRead
  <2>1. ReadCsv(CliCsv(p)) = LineRead(<<>>, {}, cells)
    BY <1>6, <2>3 DEF ReadCsv, F, R
  <2>4. {} \union {Len(<<>>) + Len(cells)} = {9}
    BY <1>8, <1>12
  <2> QED
    BY <1>12, <2>1, <2>4 DEF LineRead
<1>15. DOMAIN names = 1..9 /\ \A n \in 1..9 : cells[n] = CliCell(p, names[n][1])
  BY <1>7 DEF names, cells
<1>16. ReadCsv(CliCsv(p)).fields = cells /\ ReadCsv(CliCsv(p)).rows = {9} /\ ReadCsv(CliCsv(p)).at = "start"
  BY <1>14 DEF CsvState
<1>17. Len(names) = 9
  BY <1>7
<1> QED
  BY <1>13, <1>15, <1>16, <1>17 DEF p

(* What the reader of a JSON string does with what EscapeJson writes.      *)
JsonIn(t) == [at |-> "in", text |-> t]
JsonEscape(t) == [at |-> "escape", text |-> t]

(* c is written as a backslash and the character d.                        *)
IsEscape(c, d) ==
  \/ c \in {"quote", "back"} /\ d = c
  \/ c = "nl" /\ d = "n"
  \/ c = "cr" /\ d = "r"
  \/ c = "ctl" /\ d = "u"

LEMMA EscapeIsRead ==
  ASSUME NEW t, NEW c, NEW d, IsEscape(c, d)
  PROVE  Read("json", JsonIn(t), <<"back", d>>) = JsonIn(Append(t, c))
<1>1. ReadChar("json", JsonIn(t), "back") = JsonEscape(t)
  BY DEF ReadChar, ReadJsonChar, JsonIn, JsonEscape
<1>2. ReadChar("json", JsonEscape(t), d) = JsonIn(Append(t, c))
  BY DEF ReadChar, ReadJsonChar, JsonIn, JsonEscape, IsEscape
<1> QED
  BY <1>1, <1>2, ReadTwo

LEMMA OtherIsRead ==
  ASSUME NEW t, NEW c, c \notin {"quote", "back", "nl", "cr", "ctl"}
  PROVE  Read("json", JsonIn(t), <<c>>) = JsonIn(Append(t, c))
<1>1. ReadChar("json", JsonIn(t), c) = JsonIn(Append(t, c))
  BY DEF ReadChar, ReadJsonChar, JsonIn
<1> QED
  BY <1>1, ReadOne

LEMMA JsonIsRead ==
  ASSUME NEW C, NEW f \in Seq(C)
  PROVE  /\ EscapeJson(f) \in Seq(C \union {"quote", "back", "n", "r", "u"})
         /\ Read("json", JsonIn(<<>>), EscapeJson(f)) = JsonIn(f)
<1> DEFINE k == Len(f)
           D == C \union {"quote", "back", "n", "r", "u"}
           piece(c) == CASE c = "quote" -> <<"back", "quote">> [] c = "back" -> <<"back", "back">>
                         [] c = "nl" -> <<"back", "n">> [] c = "cr" -> <<"back", "r">>
                         [] c = "ctl" -> <<"back", "u">> [] OTHER -> <<c>>
           pieces == [i \in DOMAIN f |-> piece(f[i])]
           st == [n \in 0..k |-> JsonIn(SubSeq(f, 1, n))]
<1>1. k \in Nat /\ 0 \in 0..k /\ k \in 0..k /\ DOMAIN f = 1..k /\ \A i \in 1..k : f[i] \in C
  BY LenProperties, ElementOfSeq
<1>2. ASSUME NEW c \in C
      PROVE  piece(c) \in Seq(D) /\ \A t : Read("json", JsonIn(t), piece(c)) = JsonIn(Append(t, c))
  <2>1. CASE c \in {"quote", "back", "nl", "cr", "ctl"}
    <3> DEFINE d == IF c = "nl" THEN "n" ELSE IF c = "cr" THEN "r" ELSE IF c = "ctl" THEN "u" ELSE c
    <3>1. piece(c) = <<"back", d>> /\ "back" \in D /\ d \in D /\ IsEscape(c, d)
      BY <2>1 DEF IsEscape
    <3> HIDE DEF piece, d, D
    <3>2. piece(c) \in Seq(D)
      BY <3>1
    <3>3. ASSUME NEW t PROVE Read("json", JsonIn(t), <<"back", d>>) = JsonIn(Append(t, c))
      BY <3>1, EscapeIsRead
    <3> QED
      BY <3>1, <3>2, <3>3
  <2>2. CASE c \notin {"quote", "back", "nl", "cr", "ctl"}
    <3>1. piece(c) = <<c>> /\ c \in D
      BY <2>2
    <3> HIDE DEF piece, D
    <3>2. piece(c) \in Seq(D)
      BY <3>1
    <3>3. ASSUME NEW t PROVE Read("json", JsonIn(t), <<c>>) = JsonIn(Append(t, c))
      BY <2>2, OtherIsRead
    <3> QED
      BY <3>1, <3>2, <3>3
  <2> QED
    BY <2>1, <2>2
<1>3. EscapeJson(f) = FlattenSeq(pieces)
  BY DEF EscapeJson
<1> HIDE DEF piece
<1>4. pieces \in Seq(Seq(D)) /\ Len(pieces) = k
  <2>1. pieces \in [1..k -> Seq(D)]
    BY <1>1, <1>2
  <2> QED
    BY <1>1, <2>1, IsASequence
<1>5. ASSUME NEW n \in 1..k PROVE Read("json", st[n - 1], pieces[n]) = st[n]
  <2>1. n \in 0..k /\ n - 1 \in 0..k /\ n \in DOMAIN f /\ f[n] \in C
    BY <1>1
  <2>2. SubSeq(f, 1, n) = Append(SubSeq(f, 1, n - 1), f[n])
    BY PrefixGrows
  <2>3. /\ st[n] = JsonIn(SubSeq(f, 1, n)) /\ pieces[n] = piece(f[n])
        /\ st[n - 1] = JsonIn(SubSeq(f, 1, n - 1))
    BY <2>1
  <2> HIDE DEF st, pieces
  <2> QED
    BY <1>2, <2>1, <2>2, <2>3
<1>6. st[0] = JsonIn(<<>>) /\ st[k] = JsonIn(f)
  BY <1>1, PrefixGrows
<1> HIDE DEF st, pieces, D
<1>7. EscapeJson(f) \in Seq(D) /\ Read("json", st[0], EscapeJson(f)) = st[k]
  <2>1. \A i \in 1..Len(pieces) : Read("json", st[i - 1], pieces[i]) = st[i]
    BY <1>4, <1>5
  <2>2. FlattenSeq(pieces) \in Seq(D) /\ Read("json", st[0], FlattenSeq(pieces)) = st[Len(pieces)]
    BY <1>4, <2>1, ReadPieces
  <2> QED
    BY <1>3, <1>4, <2>2
<1> QED
  BY <1>6, <1>7 DEF D

LEMMA JsonIsReadBack == FileOK => JsonReadsBack
<1> SUFFICES ASSUME FileOK, NEW i \in DOMAIN exported
             PROVE  Read("json", [at |-> "before", text |-> <<>>], JsonInfo(exported[i])) =
                      [at |-> "out", text |-> exported[i].info]
  BY DEF JsonReadsBack
<1> DEFINE f == exported[i].info
           D == ToSet(f) \union {"quote", "back", "n", "r", "u"}
           before == [at |-> "before", text |-> <<>>]
           after == [at |-> "out", text |-> f]
           mark == <<"quote">>
           escaped == EscapeJson(f)
<1>1. f \in Seq(ToSet(f))
  <2>1. exported[i] \in Exportable
    BY DEF FileOK
  <2> QED
    BY <2>1, InfoAssumption DEF Exportable
<1>2. JsonInfo(exported[i]) = (mark \o escaped) \o mark
  BY DEF JsonInfo
<1>3. ReadChar("json", before, "quote") = JsonIn(<<>>) /\ ReadChar("json", JsonIn(f), "quote") = after
  BY DEF ReadChar, ReadJsonChar, JsonIn
<1>4. mark \in Seq(D)
  OBVIOUS
<1>5. Read("json", before, mark) = JsonIn(<<>>) /\ Read("json", JsonIn(f), mark) = after
  <2> HIDE DEF f, before, after
  <2> QED
    BY <1>3, ReadOne
<1> HIDE DEF f, before, after, mark
<1>6. escaped \in Seq(D) /\ Read("json", JsonIn(<<>>), escaped) = JsonIn(f)
  BY <1>1, JsonIsRead
<1> HIDE DEF D, escaped
<1>7. Read("json", before, mark \o escaped) = JsonIn(f)
  <2>1. Read("json", before, mark \o escaped) = Read("json", Read("json", before, mark), escaped)
    BY <1>4, <1>6, ReadJoined
  <2> QED
    BY <1>5, <1>6, <2>1
<1>8. Read("json", before, (mark \o escaped) \o mark) = after
  <2> DEFINE text == mark \o escaped
  <2>1. text \in Seq(D)
    BY <1>4, <1>6, ConcatProperties
  <2> HIDE DEF text
  <2>2. Read("json", before, text \o mark) = Read("json", Read("json", before, text), mark)
    BY <1>4, <2>1, ReadJoined
  <2> QED
    BY <1>5, <1>7, <2>2 DEF text
<1> QED
  BY <1>2, <1>8 DEF f, before, after

(* The calendar.  Years are counted from March on: the years, quarters and *)
(* the rest of one within 400 of them.                                     *)
LEMMA DivIs ==
  ASSUME NEW d \in Nat, d > 0, NEW q \in Int, NEW z \in Int, d * q <= z, z < d * q + d
  PROVE  z \div d = q
<1> DEFINE r == z - d * q
<1>1. d * q \in Int
  OBVIOUS
<1>2. r \in 0..(d - 1) /\ z = d * q + r
  BY <1>1
<1> HIDE DEF r
<1> QED
  BY <1>2, QuotientIs

LEMMA YearDivided ==
  ASSUME NEW y \in Nat
  PROVE  \E e, c, f, g \in Nat :
           /\ c <= 3 /\ f <= 24 /\ g <= 3 /\ y = 400 * e + 100 * c + 4 * f + g
           /\ y \div 4 = 100 * e + 25 * c + f /\ y \div 100 = 4 * e + c /\ y \div 400 = e
<1> DEFINE e == y \div 400
           q == y % 400
           c == q \div 100
           r == q % 100
           f == r \div 4
           g == r % 4
<1>1. e \in Nat /\ q \in Nat /\ q <= 399 /\ y = 400 * e + q
  OBVIOUS
<1> HIDE DEF e, q
<1>2. c \in Nat /\ c <= 3 /\ r \in Nat /\ r <= 99 /\ q = 100 * c + r
  BY <1>1
<1> HIDE DEF c, r
<1>3. f \in Nat /\ f <= 24 /\ g \in Nat /\ g <= 3 /\ r = 4 * f + g
  BY <1>2
<1> HIDE DEF f, g
<1>4. y = 400 * e + 100 * c + 4 * f + g
  BY <1>1, <1>2, <1>3
<1>5. y \div 4 = 100 * e + 25 * c + f
  <2>1. 100 * e + 25 * c + f \in Int /\ 4 * (100 * e + 25 * c + f) <= y /\ y < 4 * (100 * e + 25 * c + f) + 4
    BY <1>1, <1>2, <1>3, <1>4
  <2> QED
    BY <2>1, DivIs
<1>6. y \div 100 = 4 * e + c
  <2>1. 4 * e + c \in Int /\ 100 * (4 * e + c) <= y /\ y < 100 * (4 * e + c) + 100
    BY <1>1, <1>2, <1>3, <1>4
  <2> QED
    BY <2>1, DivIs
<1>7. y \div 400 = e
  BY DEF e
<1> QED
  BY <1>1, <1>2, <1>3, <1>4, <1>5, <1>6, <1>7

(* Days before the first of March of a year, from one long ago.            *)
DaysBefore(y) == 365 * y + y \div 4 - y \div 100 + y \div 400

(* A day of a year that begins in March belongs to that year, whether the  *)
(* year has 365 days or 366.                                               *)
YearAfter(y, e, c, f, g) ==
  /\ c <= 3 /\ f <= 24 /\ g <= 3
  /\ y = 400 * e + 100 * c + 4 * f + g + 1

LEMMA LeapDivided ==
  ASSUME NEW e \in Nat, NEW c \in Nat, NEW f \in Nat, NEW g \in Nat,
         NEW y \in Int, YearAfter(y, e, c, f, g), IsLeap(y)
  PROVE  g = 3 /\ (f < 24 \/ c = 3)
<1> USE DEF YearAfter
<1>1. y \in Int /\ y % 4 = 0 /\ (y % 100 # 0 \/ y % 400 = 0)
  BY DEF IsLeap
<1>2. g = 3
  <2>1. y = 4 * (100 * e + 25 * c + f) + (g + 1) /\ 100 * e + 25 * c + f \in Int
    OBVIOUS
  <2>2. g # 3 => y % 4 = g + 1
    <3>1. g # 3 => g + 1 \in 0..(4 - 1)
      OBVIOUS
    <3> QED
      BY <2>1, <3>1, QuotientIs
  <2> QED
    BY <1>1, <2>2
<1>3. CASE f = 24 /\ c # 3
  <2>1. y = 100 * (4 * e + c + 1) + 0 /\ 4 * e + c + 1 \in Int
    BY <1>2, <1>3
  <2>2. y = 400 * e + 100 * (c + 1) /\ 100 * (c + 1) \in 0..(400 - 1) /\ 100 * (c + 1) # 0
    BY <1>2, <1>3
  <2> DEFINE rest == 100 * (c + 1)
             turn == 4 * e + c + 1
  <2> HIDE DEF rest, turn
  <2>3. y % 100 = 0
    <3>1. y = 100 * turn + 0 /\ turn \in Int /\ 0 \in 0..(100 - 1)
      BY <2>1 DEF turn
    <3> QED
      BY <3>1, QuotientIs
  <2>4. y % 400 = rest
    <3>1. y = 400 * e + rest /\ rest \in 0..(400 - 1)
      BY <2>2 DEF rest
    <3> QED
      BY <3>1, QuotientIs
  <2> QED
    BY <1>1, <2>2, <2>3, <2>4 DEF rest
<1> QED
  BY <1>2, <1>3

OfEra(z) == z - (z \div 146097) * 146097
YearOfEra(n) == (n - n \div 1460 + n \div 36524 - n \div 146096) \div 365
DayOfYear(n) == n - (365 * YearOfEra(n) + YearOfEra(n) \div 4 - YearOfEra(n) \div 100)

LEMMA DayInYear ==
  ASSUME NEW y \in Nat, NEW doy \in Nat, doy <= 365, doy = 365 => IsLeap(y + 1),
         NEW z \in Int, z = DaysBefore(y) + doy
  PROVE  YearOfEra(OfEra(z)) + (z \div 146097) * 400 = y /\ DayOfYear(OfEra(z)) = doy
<1>1. PICK e, c, f, g \in Nat :
        /\ c <= 3 /\ f <= 24 /\ g <= 3 /\ y = 400 * e + 100 * c + 4 * f + g
        /\ y \div 4 = 100 * e + 25 * c + f /\ y \div 100 = 4 * e + c /\ y \div 400 = e
  BY YearDivided
<1> DEFINE q == 100 * c + 4 * f + g
           n == 36524 * c + 1461 * f + 365 * g + doy
           x == 365 * g + 24 * c + f + doy
           over == x \div 1460
<1>2. doy = 365 => g = 3 /\ (f < 24 \/ c = 3)
  <2> SUFFICES ASSUME doy = 365
               PROVE  g = 3 /\ (f < 24 \/ c = 3)
    OBVIOUS
  <2> DEFINE next == y + 1
  <2>1. next \in Int /\ YearAfter(next, e, c, f, g)
    BY <1>1 DEF YearAfter
  <2>2. IsLeap(next)
    OBVIOUS
  <2> HIDE DEF next
  <2> QED
    BY <1>1, <2>1, <2>2, LeapDivided
<1>3. n \in Nat /\ n <= 146096 /\ q \in Nat /\ x \in Nat /\ x <= 1556
  BY <1>1
<1>4. z = 146097 * e + n
  BY <1>1 DEF DaysBefore
<1>5. n = 146096 => c = 3
  BY <1>1
<1>6. (over = 0 \/ over = 1) /\ (over = 1 => x >= 1460) /\ (over = 0 => x < 1460)
  <2> HIDE DEF x
  <2>1. CASE x < 1460
    <3>1. 1460 * 0 <= x /\ x < 1460 * 0 + 1460
      BY <1>3, <2>1
    <3>2. over = 0
      BY <1>3, <3>1, DivIs
    <3> QED
      BY <2>1, <3>2
  <2>2. CASE x >= 1460
    <3>1. 1460 * 1 <= x /\ x < 1460 * 1 + 1460
      BY <1>3, <2>2
    <3>2. over = 1
      BY <1>3, <3>1, DivIs
    <3> QED
      BY <2>2, <3>2
  <2> QED
    BY <1>3, <2>1, <2>2
<1> HIDE DEF over
<1>7. 0 <= doy - over /\ doy - over <= 364
  <2>1. over = 1 => doy >= 1
    BY <1>1, <1>6
  <2>2. over = 0 => doy # 365
    BY <1>1, <1>2, <1>6
  <2> QED
    BY <1>6, <2>1, <2>2
<1>8. z \div 146097 = e /\ z - e * 146097 = n
  <2> HIDE DEF n
  <2>1. 146097 * e <= z /\ z < 146097 * e + 146097 /\ z - e * 146097 = n
    BY <1>3, <1>4
  <2> QED
    BY <2>1, DivIs
<1>9. n \div 1460 = 25 * c + f + over
  <2> DEFINE m == 25 * c + f + over
  <2>1. m \in Int /\ 1460 * m <= n /\ n < 1460 * m + 1460
    BY <1>1, <1>3, <1>6
  <2> HIDE DEF m, n
  <2>2. n \div 1460 = m
    BY <1>3, <2>1, DivIs
  <2> QED
    BY <2>2 DEF m
<1>10. n \div 36524 \in Int /\ n \div 146096 \in Int /\ n \div 36524 - n \div 146096 = c
  <2>1. CASE n = 146096
    <3>1. 36524 * 4 <= n /\ n < 36524 * 4 + 36524 /\ 146096 * 1 <= n /\ n < 146096 * 1 + 146096
      BY <2>1
    <3> HIDE DEF n
    <3>2. n \div 36524 = 4 /\ n \div 146096 = 1
      BY <1>3, <3>1, DivIs
    <3> QED
      BY <1>5, <2>1, <3>2
  <2>2. CASE n # 146096
    <3>1. ~(f = 24 /\ g = 3 /\ doy = 365)
      BY <1>2, <2>2
    <3>2. 1461 * f + 365 * g + doy < 36524
      BY <1>1, <3>1
    <3>3. 36524 * c <= n /\ n < 36524 * c + 36524 /\ 146096 * 0 <= n /\ n < 146096 * 0 + 146096
      BY <1>1, <1>3, <2>2, <3>2
    <3> HIDE DEF n
    <3>4. n \div 36524 = c /\ n \div 146096 = 0
      BY <1>1, <1>3, <3>3, DivIs
    <3> QED
      BY <1>1, <3>4
  <2> QED
    BY <2>1, <2>2
<1>11. n - n \div 1460 + n \div 36524 - n \div 146096 = 365 * q + (doy - over)
  <2> DEFINE a == n \div 1460
             b == n \div 36524
             d == n \div 146096
  <2>1. a = 25 * c + f + over /\ b \in Int /\ d \in Int /\ b - d = c
    BY <1>9, <1>10
  <2>2. n = 365 * q + 24 * c + f + doy
    BY <1>1
  <2> HIDE DEF a, b, d, n
  <2>3. n - a + b - d = 365 * q + (doy - over)
    BY <1>1, <1>3, <1>6, <2>1, <2>2
  <2> QED
    BY <2>3 DEF a, b, d
<1>12. (365 * q + (doy - over)) \div 365 = q
  <2> DEFINE w == 365 * q + (doy - over)
  <2> HIDE DEF q
  <2>1. w \in Int /\ 365 * q <= w /\ w < 365 * q + 365
    BY <1>3, <1>6, <1>7
  <2> HIDE DEF w
  <2>2. w \div 365 = q
    BY <1>3, <2>1, DivIs
  <2> QED
    BY <2>2 DEF w
<1>13. q + e * 400 = y
  BY <1>1
<1>14. n - (365 * q + q \div 4 - q \div 100) = doy
  <2>1. q \div 4 = 25 * c + f
    <3>1. 25 * c + f \in Int /\ 4 * (25 * c + f) <= q /\ q < 4 * (25 * c + f) + 4
      BY <1>1
    <3> HIDE DEF q
    <3> QED
      BY <1>3, <3>1, DivIs
  <2>2. q \div 100 = c
    <3>1. 100 * c <= q /\ q < 100 * c + 100
      BY <1>1
    <3> HIDE DEF q
    <3> QED
      BY <1>1, <1>3, <3>1, DivIs
  <2> QED
    BY <1>1, <2>1, <2>2
<1> HIDE DEF q, n, over
<1>15. YearOfEra(n) = q
  BY <1>11, <1>12 DEF YearOfEra
<1>16. OfEra(z) = n
  BY <1>8 DEF OfEra
<1>17. DayOfYear(n) = doy
  BY <1>14, <1>15 DEF DayOfYear
<1> QED
  BY <1>8, <1>13, <1>15, <1>16, <1>17

(* The year of a month and its place in it, counted from March on, and the *)
(* days of the months before it.                                           *)
MarchYear(y, m) == IF m <= 2 THEN y - 1 ELSE y
MarchMonth(m) == IF m <= 2 THEN m + 9 ELSE m - 3
DaysToMonth(mp) == (153 * mp + 2) \div 5

LEMMA MonthsBegin ==
  /\ DaysToMonth(0) = 0 /\ DaysToMonth(1) = 31 /\ DaysToMonth(2) = 61 /\ DaysToMonth(3) = 92
  /\ DaysToMonth(4) = 122 /\ DaysToMonth(5) = 153 /\ DaysToMonth(6) = 184 /\ DaysToMonth(7) = 214
  /\ DaysToMonth(8) = 245 /\ DaysToMonth(9) = 275 /\ DaysToMonth(10) = 306 /\ DaysToMonth(11) = 337
  BY DEF DaysToMonth

(* A year from March to February has a day more when its February belongs  *)
(* to a leap year.                                                         *)
LEMMA LeapDay ==
  ASSUME NEW y \in Nat, y >= 1
  PROVE  DaysBefore(y) = DaysBefore(y - 1) + 365 + (IF IsLeap(y) THEN 1 ELSE 0)
<1>1. y \div 4 = (y - 1) \div 4 + (IF y % 4 = 0 THEN 1 ELSE 0)
  OBVIOUS
<1>2. y \div 100 = (y - 1) \div 100 + (IF y % 100 = 0 THEN 1 ELSE 0)
  OBVIOUS
<1>3. y \div 400 = (y - 1) \div 400 + (IF y % 400 = 0 THEN 1 ELSE 0)
  OBVIOUS
<1>4. (y % 100 = 0 => y % 4 = 0) /\ (y % 400 = 0 => y % 100 = 0)
  OBVIOUS
<1> DEFINE a == y \div 4
           b == y \div 100
           c == y \div 400
           a1 == (y - 1) \div 4
           b1 == (y - 1) \div 100
           c1 == (y - 1) \div 400
<1>5. a1 \in Int /\ b1 \in Int /\ c1 \in Int
  OBVIOUS
<1>6. DaysBefore(y) = 365 * y + a - b + c /\ DaysBefore(y - 1) = 365 * (y - 1) + a1 - b1 + c1
  BY DEF DaysBefore
<1>7. /\ a = a1 + (IF y % 4 = 0 THEN 1 ELSE 0)
      /\ b = b1 + (IF y % 100 = 0 THEN 1 ELSE 0)
      /\ c = c1 + (IF y % 400 = 0 THEN 1 ELSE 0)
  BY <1>1, <1>2, <1>3
<1> HIDE DEF a, b, c, a1, b1, c1
<1> QED
  BY <1>4, <1>5, <1>6, <1>7 DEF IsLeap

LEMMA DaysBeforeIsInt ==
  ASSUME NEW y \in Int
  PROVE  DaysBefore(y) \in Int
BY DEF DaysBefore

(* The first days of the months, each DaysIn after the one before.         *)
FirstDay(y, m) == DaysBefore(MarchYear(y, m)) + DaysToMonth(MarchMonth(m))

LEMMA NextMonthBegins ==
  ASSUME NEW y \in Nat, y >= 1, NEW m \in 1..12
  PROVE  FirstDay(IF m = 12 THEN y + 1 ELSE y, IF m = 12 THEN 1 ELSE m + 1) = FirstDay(y, m) + DaysIn(y, m)
<1>1. DaysBefore(y) \in Int /\ DaysBefore(y - 1) \in Int
  BY DaysBeforeIsInt
<1>2. DaysBefore(y) = DaysBefore(y - 1) + 365 + (IF IsLeap(y) THEN 1 ELSE 0)
  BY LeapDay
<1> DEFINE b == DaysBefore(y)
           b1 == DaysBefore(y - 1)
<1>3. b \in Int /\ b1 \in Int /\ b = b1 + 365 + (IF IsLeap(y) THEN 1 ELSE 0)
  BY <1>1, <1>2
<1>4. \A k \in 1..12 : FirstDay(y, k) = (IF k <= 2 THEN b1 ELSE b) + DaysToMonth(MarchMonth(k))
  BY DEF FirstDay, MarchYear
<1>5. FirstDay(y + 1, 1) = b + DaysToMonth(MarchMonth(1))
  <2>1. MarchYear(y + 1, 1) = y
    BY DEF MarchYear
  <2> QED
    BY <2>1 DEF FirstDay
<1>6. /\ MarchMonth(1) = 10 /\ MarchMonth(2) = 11 /\ MarchMonth(3) = 0 /\ MarchMonth(4) = 1
      /\ MarchMonth(5) = 2 /\ MarchMonth(6) = 3 /\ MarchMonth(7) = 4 /\ MarchMonth(8) = 5
      /\ MarchMonth(9) = 6 /\ MarchMonth(10) = 7 /\ MarchMonth(11) = 8 /\ MarchMonth(12) = 9
  BY DEF MarchMonth
<1> HIDE DEF b, b1
<1>7. /\ FirstDay(y, 1) = b1 + 306 /\ FirstDay(y, 2) = b1 + 337 /\ FirstDay(y, 3) = b + 0
      /\ FirstDay(y, 4) = b + 31 /\ FirstDay(y, 5) = b + 61 /\ FirstDay(y, 6) = b + 92
      /\ FirstDay(y, 7) = b + 122 /\ FirstDay(y, 8) = b + 153 /\ FirstDay(y, 9) = b + 184
      /\ FirstDay(y, 10) = b + 214 /\ FirstDay(y, 11) = b + 245 /\ FirstDay(y, 12) = b + 275
      /\ FirstDay(y + 1, 1) = b + 306
  BY <1>4, <1>5, <1>6, MonthsBegin
<1>8. m = 1 \/ m = 2 \/ m = 3 \/ m = 4 \/ m = 5 \/ m = 6 \/ m = 7 \/ m = 8 \/ m = 9 \/ m = 10 \/ m = 11 \/ m = 12
  OBVIOUS
<1> QED
  BY <1>3, <1>7, <1>8 DEF DaysIn

(* A day of a month is converted to the date it is.                        *)
LEMMA DateOfDay ==
  ASSUME NEW y \in Nat, y >= 1, NEW m \in 1..12, NEW d \in 1..DaysIn(y, m),
         NEW x \in Int, x + 719468 = FirstDay(y, m) + (d - 1)
  PROVE  EpochDaysToDate(x) = <<y, m, d>>
<1> DEFINE z == x + 719468
           mp == MarchMonth(m)
           my == MarchYear(y, m)
           doy == DaysToMonth(mp) + (d - 1)
<1>1. m = 1 \/ m = 2 \/ m = 3 \/ m = 4 \/ m = 5 \/ m = 6 \/ m = 7 \/ m = 8 \/ m = 9 \/ m = 10 \/ m = 11 \/ m = 12
  OBVIOUS
<1>2. d \in Nat /\ d >= 1 /\ d <= 31 /\ (m = 2 => d <= 29) /\ (m = 2 /\ d = 29 => IsLeap(y))
      /\ (m = 4 \/ m = 6 \/ m = 9 \/ m = 11 => d <= 30)
  BY <1>1 DEF DaysIn
<1>3. mp \in Nat /\ (m <= 2 => mp = m + 9) /\ (m > 2 => mp = m - 3)
  BY DEF MarchMonth
<1>4. my \in Nat /\ (m <= 2 => my = y - 1) /\ (m > 2 => my = y)
  BY DEF MarchYear
<1> DEFINE begin == DaysToMonth(mp)
<1>5. begin \in Nat /\ 5 * begin <= 153 * mp + 2 /\ 153 * mp <= 5 * begin + 2
      /\ 5 * (begin + d - 1) + 2 < 153 * mp + 153
      /\ begin + (d - 1) <= 365 /\ (begin + (d - 1) = 365 => m = 2 /\ d = 29)
  <2> HIDE DEF mp
  <2>1. /\ m = 1 => begin = 306 /\ mp = 10
        /\ m = 2 => begin = 337 /\ mp = 11
        /\ m = 3 => begin = 0 /\ mp = 0
        /\ m = 4 => begin = 31 /\ mp = 1
        /\ m = 5 => begin = 61 /\ mp = 2
        /\ m = 6 => begin = 92 /\ mp = 3
        /\ m = 7 => begin = 122 /\ mp = 4
        /\ m = 8 => begin = 153 /\ mp = 5
        /\ m = 9 => begin = 184 /\ mp = 6
        /\ m = 10 => begin = 214 /\ mp = 7
        /\ m = 11 => begin = 245 /\ mp = 8
        /\ m = 12 => begin = 275 /\ mp = 9
    BY <1>3, MonthsBegin
  <2> HIDE DEF begin
  <2> QED
    BY <1>1, <1>2, <2>1
<1>6. doy \in Nat /\ doy <= 365 /\ (doy = 365 => IsLeap(my + 1))
  <2>1. m = 2 => my + 1 = y
    BY <1>4
  <2> HIDE DEF my
  <2> QED
    BY <1>2, <1>5, <2>1
<1>7. z \in Int /\ z = DaysBefore(my) + doy
  <2>1. DaysBefore(my) \in Int
    BY <1>4, DaysBeforeIsInt
  <2>2. begin \in Nat
    BY <1>5
  <2> QED
    BY <1>2, <2>1, <2>2 DEF FirstDay
<1>8. (5 * doy + 2) \div 153 = mp
  <2> DEFINE w == 5 * doy + 2
  <2>1. w \in Int /\ mp \in Int /\ 153 * mp <= w /\ w < 153 * mp + 153
    <3> HIDE DEF begin, mp
    <3> QED
      BY <1>2, <1>3, <1>5 DEF begin
  <2> HIDE DEF w, mp
  <2>2. w \div 153 = mp
    BY <2>1, DivIs
  <2> QED
    BY <2>2 DEF w
<1> DEFINE year == YearOfEra(OfEra(z)) + (z \div 146097) * 400
           ofYear == DayOfYear(OfEra(z))
           place == (5 * ofYear + 2) \div 153
           number == IF place < 10 THEN place + 3 ELSE place - 9
           back == (153 * place + 2) \div 5
<1>9. EpochDaysToDate(x) = <<CivilYear(year, number), number, ofYear - back + 1>>
  BY DEF EpochDaysToDate, OfEra, YearOfEra, DayOfYear
<1>10. year = my /\ ofYear = doy
  <2> HIDE DEF z, my, doy
  <2>1. my \in Nat
    BY <1>4
  <2> QED
    BY <1>6, <1>7, <2>1, DayInYear
<1>11. place = mp
  <2> HIDE DEF ofYear, doy, mp
  <2> QED
    BY <1>8, <1>10
<1>12. back = begin
  <2> HIDE DEF place, mp
  <2> QED
    BY <1>11 DEF DaysToMonth
<1>13. number = m
  <2> HIDE DEF place, mp
  <2> QED
    BY <1>3, <1>11
<1>14. CivilYear(my, m) = y
  <2> HIDE DEF my
  <2> QED
    BY <1>4 DEF CivilYear
<1>15. doy - begin + 1 = d
  <2> HIDE DEF begin
  <2> QED
    BY <1>2, <1>5 DEF begin
<1> HIDE DEF year, ofYear, back, begin, number, my, doy
<1> QED
  BY <1>9, <1>10, <1>12, <1>13, <1>14, <1>15

(* The invariant: the file holds one packet or two alike, and the month    *)
(* begins as many days after the epoch as the calendar says.               *)
CalendarOK ==
  \E y \in Nat, m \in 1..12 :
    y >= 1970 /\ month = <<y, m>> /\ day \in Int /\ day + 719468 = FirstDay(y, m)

ExportInv == FileOK /\ CalendarOK

LEMMA ExportBegins == ExportInit => ExportInv
<1> SUFFICES ASSUME ExportInit
             PROVE  ExportInv
  OBVIOUS
<1>1. FileOK
  BY DEF ExportInit, FileOK, Exportable
<1>2. CalendarOK
  <2>1. DaysBefore(1969) = 719162
    BY DEF DaysBefore
  <2>2. MarchYear(1970, 1) = 1969 /\ MarchMonth(1) = 10
    BY DEF MarchYear, MarchMonth
  <2>3. FirstDay(1970, 1) = 719468
    BY <2>1, <2>2, MonthsBegin DEF FirstDay
  <2> QED
    BY <2>3 DEF ExportInit, CalendarOK
<1> QED
  BY <1>1, <1>2 DEF ExportInv

LEMMA ExportGoesOn == ExportInv /\ [ExportNext \/ NextMonth]_exportVars => ExportInv'
<1> SUFFICES ASSUME ExportInv, [ExportNext \/ NextMonth]_exportVars
             PROVE  ExportInv'
  OBVIOUS
<1>1. CASE ExportNext
  <2>1. PICK p \in Exportable : exported \in {<<p>>, <<p, p>>}
    BY <1>1 DEF ExportNext, ExportInv, FileOK
  <2>2. exported = <<p>>
    BY <1>1, <2>1 DEF ExportNext
  <2>3. exported' = <<p, p>>
    <3>1. exported' = <<exported[1], exported[1]>>
      BY <1>1 DEF ExportNext
    <3>2. exported[1] = p
      BY <2>2
    <3> QED
      BY <3>1, <3>2
  <2> QED
    BY <1>1, <2>3 DEF ExportNext, ExportInv, FileOK, CalendarOK
<1>2. CASE NextMonth
  <2>1. PICK y \in Nat, m \in 1..12 : y >= 1970 /\ month = <<y, m>> /\ day \in Int /\ day + 719468 = FirstDay(y, m)
    BY DEF ExportInv, CalendarOK
  <2> DEFINE ny == IF m = 12 THEN y + 1 ELSE y
             nm == IF m = 12 THEN 1 ELSE m + 1
  <2>2. FirstDay(ny, nm) = FirstDay(y, m) + DaysIn(y, m)
    BY <2>1, NextMonthBegins
  <2>3. day' = day + DaysIn(y, m) /\ month' = <<ny, nm>> /\ exported' = exported
    BY <1>2, <2>1 DEF NextMonth
  <2>4. DaysIn(y, m) \in Int
    BY DEF DaysIn
  <2>5. ny \in Nat /\ ny >= 1970 /\ nm \in 1..12
    BY <2>1
  <2> HIDE DEF ny, nm
  <2>6. day' \in Int /\ day' + 719468 = FirstDay(ny, nm)
    BY <2>1, <2>2, <2>3, <2>4
  <2> QED
    BY <2>3, <2>5, <2>6 DEF ExportInv, FileOK, CalendarOK
<1>3. CASE UNCHANGED exportVars
  BY <1>3 DEF exportVars, ExportInv, FileOK, CalendarOK
<1> QED
  BY <1>1, <1>2, <1>3

LEMMA DatesAreRight == CalendarOK => DateIsCalendar
<1> SUFFICES ASSUME CalendarOK, NEW d \in 1..DaysIn(month[1], month[2])
             PROVE  EpochDaysToDate(day + d - 1) = <<month[1], month[2], d>>
  BY DEF DateIsCalendar
<1>1. PICK y \in Nat, m \in 1..12 : y >= 1970 /\ month = <<y, m>> /\ day \in Int /\ day + 719468 = FirstDay(y, m)
  BY DEF CalendarOK
<1> DEFINE x == day + d - 1
<1>2. d \in 1..DaysIn(y, m) /\ d \in Int
  BY <1>1 DEF DaysIn
<1>3. x \in Int /\ x + 719468 = FirstDay(y, m) + (d - 1)
  BY <1>1, <1>2
<1> HIDE DEF x
<1>4. EpochDaysToDate(x) = <<y, m, d>>
  BY <1>1, <1>2, <1>3, DateOfDay
<1> QED
  BY <1>1, <1>4 DEF x

(* What is written as CSV, and the info text of what is written as JSON by *)
(* the command line mode, is read back as it was, and every day has the    *)
(* date of the calendar (export/csv.rs, cli.rs, epoch_days_to_date): for   *)
(* any texts and any number of months.                                     *)
THEOREM WrittenIsReadBack == ExportSpec => []ExportSound
<1>1. ExportInit => ExportInv
  BY ExportBegins
<1>2. ExportInv /\ [ExportNext \/ NextMonth]_exportVars => ExportInv'
  BY ExportGoesOn
<1>3. ExportInv => ExportSound
  BY CsvIsReadBack, FormatsSayTheSame, CliIsReadBack, JsonIsReadBack, DatesAreRight DEF ExportInv, ExportSound
<1> QED
  BY <1>1, <1>2, <1>3, PTL DEF ExportSpec
=============================================================================
