---------------------------- MODULE AiCacheSpec ----------------------------
(***************************************************************************)
(* The cache of AI explanations on its own: any sequence of inserts,       *)
(* lookups and clears.  stamp and now are history, the times at which the  *)
(* keys were last used, for the refinement of LruCache.                    *)
(***************************************************************************)
EXTENDS AiCache

CONSTANTS
  Keys,     \* packet indices
  Slots,    \* what one entry can explain: the whole packet or a field
  Texts,    \* explanations
  MaxUses   \* bound: uses of a key in a behaviour

VARIABLES cache, stamp, now

vars == <<cache, stamp, now>>

Init == cache = Empty /\ stamp = <<>> /\ now = 0

Used(k) ==
  /\ now < MaxUses
  /\ now' = now + 1
  /\ stamp' = [x \in Cached(cache') |-> IF x = k THEN now + 1 ELSE stamp[x]]

InsertText(k, s, t) ==
  /\ cache' = Insert(cache, k, s, t)
  /\ Used(k)

(* A lookup of an entry that is not there is no use of it.                 *)
LookUp(k) ==
  /\ cache' = Get(cache, k)
  /\ IF k \in Cached(cache) THEN Used(k) ELSE UNCHANGED <<stamp, now>>

Clear ==
  /\ cache' = Empty
  /\ stamp' = <<>>
  /\ UNCHANGED now

Next ==
  \/ \E k \in Keys, s \in Slots, t \in Texts : InsertText(k, s, t)
  \/ \E k \in Keys : LookUp(k)
  \/ Clear

Spec == Init /\ [][Next]_vars

-----------------------------------------------------------------------------
TypeOK ==
  /\ Cached(cache) \subseteq Keys
  /\ \A k \in Cached(cache) :
       /\ DOMAIN cache.entries[k] \in (SUBSET Slots) \ {{}}
       /\ \A s \in DOMAIN cache.entries[k] : cache.entries[k][s] \in Texts
  /\ cache.order \in Seq(Keys)
  /\ DOMAIN stamp = Cached(cache) /\ now \in Nat

(* The deque holds the cached keys, each once: a key that were missing     *)
(* could never be evicted, one that occurred twice would be evicted while  *)
(* in use.                                                                 *)
OrderListsEntries ==
  /\ Cached(cache) = {cache.order[i] : i \in 1..Len(cache.order)}
  /\ \A i, j \in 1..Len(cache.order) : cache.order[i] = cache.order[j] => i = j

(* The cache never holds more than Capacity entries (evict_if_full).       *)
SizeBounded == Cardinality(Cached(cache)) <= Capacity

(* The deque runs from the least to the most recently used key.            *)
OrderIsRecency ==
  \A i, j \in 1..Len(cache.order) :
    i < j => stamp[cache.order[i]] < stamp[cache.order[j]]

(* AiCache is a cache with least-recently-used replacement.                *)
Lru == INSTANCE LruCache WITH content <- cache.entries

LruSpec == Lru!Spec
=============================================================================
