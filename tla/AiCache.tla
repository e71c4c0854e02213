------------------------------ MODULE AiCache ------------------------------
(***************************************************************************)
(* The cache of AI explanations (ai/model.rs): a map from packet index to  *)
(* the explanations of that packet, and a deque of the same indices from   *)
(* the least to the most recently used.  Operators on a cache value; the   *)
(* modules AiCacheSpec and AiOverlay use them.                             *)
(***************************************************************************)
EXTENDS Naturals, Sequences, FiniteSets

CONSTANT Capacity  \* config.ai.cache_size, at least 1

ASSUME CapacityAssumption == Capacity \in Nat \ {0}

(* A PacketAiEntry maps the slots it has to their texts; <<>> is also the  *)
(* function with the empty domain.                                         *)
NoTexts == <<>>
Empty == [entries |-> <<>>, order |-> <<>>]

Cached(c) == DOMAIN c.entries

(* Seeded faults, used by no specification.                                *)
EvictNewest(c) ==                                       \* Evict
  [entries |-> [k \in Cached(c) \ {c.order[Len(c.order)]} |-> c.entries[k]],
   order |-> SubSeq(c.order, 1, Len(c.order) - 1)]

(* touch: the key moves to the back of the deque.                          *)
Without(s, k) ==
  IF \E i \in 1..Len(s) : s[i] = k
    THEN LET p == CHOOSE i \in 1..Len(s) : s[i] = k /\ \A j \in 1..(i - 1) : s[j] # k
         IN [i \in 1..(Len(s) - 1) |-> IF i < p THEN s[i] ELSE s[i + 1]]
    ELSE s

Touch(c, k) == [c EXCEPT !.order = Append(Without(@, k), k)]

(* evict_if_full: its loop runs at most once, since the cache never holds  *)
(* more than Capacity entries.                                             *)
IsFull(c) == Cardinality(Cached(c)) >= Capacity

Evict(c) ==
  [entries |-> [k \in Cached(c) \ {Head(c.order)} |-> c.entries[k]],
   order |-> Tail(c.order)]

EvictIfFull(c) == IF IsFull(c) /\ c.order # <<>> THEN Evict(c) ELSE c

EnsureEntry(c, k) ==
  IF k \in Cached(c)
    THEN Touch(c, k)
    ELSE LET e == EvictIfFull(c) IN
           Touch([e EXCEPT !.entries = [x \in Cached(e) \cup {k} |-> IF x = k THEN NoTexts ELSE e.entries[x]]], k)

(* insert_whole, insert_field                                              *)
Insert(c, k, s, t) ==
  LET e == EnsureEntry(c, k)
      old == e.entries[k]
      new == [x \in DOMAIN old \cup {s} |-> IF x = s THEN t ELSE old[x]]
  IN [e EXCEPT !.entries[k] = new]

(* get_whole, get_field: looking at an entry touches it even when it lacks *)
(* the slot asked for.                                                     *)
Has(c, k, s) == k \in Cached(c) /\ s \in DOMAIN c.entries[k]
Get(c, k) == IF k \in Cached(c) THEN Touch(c, k) ELSE c
=============================================================================
