----------------------------- MODULE LruCache ------------------------------
(***************************************************************************)
(* What a cache with least-recently-used replacement promises: every entry *)
(* carries the time of its last use, and a new key takes the place of the  *)
(* entry whose last use is longest ago when the cache is full.             *)
(***************************************************************************)
EXTENDS Naturals, FiniteSets

CONSTANTS Capacity, Keys, Slots, Texts

VARIABLES
  content,  \* key |-> (slot |-> text)
  stamp,    \* key |-> the time of its last use
  now       \* the time of the last use of any key

lruVars == <<content, stamp, now>>

Held == DOMAIN content

Init == content = <<>> /\ stamp = <<>> /\ now = 0

Stamped(K, k) == [x \in K |-> IF x = k THEN now + 1 ELSE stamp[x]]

Use(k) ==
  /\ k \in Held
  /\ now' = now + 1
  /\ stamp' = Stamped(Held, k)
  /\ UNCHANGED content

Update(k, s, t) ==
  /\ k \in Held
  /\ now' = now + 1
  /\ stamp' = Stamped(Held, k)
  /\ content' = [content EXCEPT ![k] = [x \in DOMAIN @ \cup {s} |-> IF x = s THEN t ELSE @[x]]]

(* The keys that stay when k comes in.                                     *)
Stay(K) ==
  /\ K \subseteq Held
  /\ IF Cardinality(Held) < Capacity
       THEN K = Held
       ELSE \E oldest \in Held :
              /\ \A x \in Held : stamp[oldest] <= stamp[x]
              /\ K = Held \ {oldest}

Add(k, s, t) ==
  /\ k \notin Held
  /\ \E K \in SUBSET Held :
       /\ Stay(K)
       /\ content' = [x \in K \cup {k} |-> IF x = k THEN [y \in {s} |-> t] ELSE content[x]]
       /\ stamp' = Stamped(K \cup {k}, k)
  /\ now' = now + 1

Clear ==
  /\ content' = <<>>
  /\ stamp' = <<>>
  /\ UNCHANGED now

Next ==
  \/ \E k \in Keys : Use(k)
  \/ \E k \in Keys, s \in Slots, t \in Texts : Update(k, s, t) \/ Add(k, s, t)
  \/ Clear

Spec == Init /\ [][Next]_lruVars
=============================================================================
