-------------------------- MODULE AiOverlay_proofs --------------------------
(***************************************************************************)
(* Proofs about AiOverlay, for any packets, fields, capacity of the cache  *)
(* and numbers of requests and documents, and about Bindings, for any      *)
(* files and any letters.                                                  *)
(***************************************************************************)
EXTENDS Integers, AiOverlay, Bindings, SequenceTheorems, FiniteSetTheorems, WellFoundedInduction,
        TLAPS

Entry == UNION {[S -> Text] : S \in SUBSET Slots}
Map == UNION {[K -> Entry] : K \in SUBSET Packets}

(* A cache whose explanations are those of the packets and slots they are  *)
(* kept under.  The deque is AiCacheSpec's concern.                        *)
InPlaces(c) ==
  \A p \in Cached(c) : \A k \in DOMAIN c.entries[p] : c.entries[p][k].packet = p /\ c.entries[p][k].kind = k

CacheOK(c) ==
  /\ c = [entries |-> c.entries, order |-> c.order]
  /\ c.entries \in Map
  /\ InPlaces(c)

UiTypes ==
  /\ overlay \in BOOLEAN /\ deep \in BOOLEAN
  /\ selected \in Packets \cup {None}
  /\ cursor \in Slots
  /\ doc \in 1..MaxDocs
  /\ capture \in {"none", "running", "dead"} /\ follow \in BOOLEAN

AiTypes ==
  /\ ai \in AiState
  /\ aiSeq \in 0..MaxAsked
  /\ requests \in Seq(Request) /\ results \in Seq(Response)
  /\ working \in Seq(Request) /\ Len(working) <= 1
  /\ asked \in Text \cup {None} /\ sent \in Text \cup {None}

(* What is under way belongs to a question that was sent; what has the     *)
(* newest number, to the last one.  What is waited for was sent last, about*)
(* the document shown.                                                     *)
Items(s) == {s[i] : i \in 1..Len(s)}
InStep(r) == r.seq <= aiSeq /\ (r.seq = aiSeq => r.text = sent)
Waiting == ai.phase = "Loading" => asked \in Text /\ asked = sent /\ asked.doc = doc

FlightInv ==
  /\ \A r \in Items(requests) : InStep(r)
  /\ \A r \in Items(working) : InStep(r)
  /\ \A r \in Items(results) : InStep(r)
  /\ Waiting

OverlayInv == UiTypes /\ AiTypes /\ CacheOK(cache) /\ FlightInv

-----------------------------------------------------------------------------
(* Queues.                                                                 *)

LEMMA ItemsAppend ==
  ASSUME NEW S, NEW s \in Seq(S), NEW x \in S
  PROVE  Append(s, x) \in Seq(S) /\ Items(Append(s, x)) = Items(s) \cup {x}
<1>1. /\ Append(s, x) \in Seq(S) /\ Len(Append(s, x)) = Len(s) + 1 /\ Len(s) \in Nat
      /\ \A i \in 1..Len(s) : Append(s, x)[i] = s[i]
      /\ Append(s, x)[Len(s) + 1] = x
  BY AppendProperties
<1>2. 1..(Len(s) + 1) = 1..Len(s) \cup {Len(s) + 1}
  BY <1>1
<1> QED
  BY <1>1, <1>2 DEF Items

LEMMA ItemsTail ==
  ASSUME NEW S, NEW s \in Seq(S), s # <<>>
  PROVE  /\ Head(s) \in S /\ Head(s) \in Items(s)
         /\ Tail(s) \in Seq(S) /\ Items(Tail(s)) \subseteq Items(s)
<1>1. /\ Tail(s) \in Seq(S) /\ Len(Tail(s)) = Len(s) - 1 /\ Len(s) \in Nat /\ Len(s) > 0
      /\ Head(s) = s[1] /\ Head(s) \in S
      /\ \A i \in 1..(Len(s) - 1) : Tail(s)[i] = s[i + 1]
  BY HeadTailProperties, EmptySeq
<1>2. \A i \in 1..(Len(s) - 1) : i + 1 \in 1..Len(s)
  BY <1>1
<1>3. 1 \in 1..Len(s)
  BY <1>1
<1> QED
  BY <1>1, <1>2, <1>3 DEF Items

LEMMA ItemsOne ==
  ASSUME NEW S, NEW x \in S
  PROVE  /\ <<x>> \in Seq(S) /\ Len(<<x>>) <= 1 /\ Items(<<x>>) = {x}
         /\ <<>> \in Seq(S) /\ Len(<<>>) <= 1 /\ Items(<<>>) = {}
<1>1. Len(<<x>>) = 1 /\ <<x>>[1] = x /\ Len(<<>>) = 0 /\ 1..1 = {1} /\ 1..0 = {}
  OBVIOUS
<1> QED
  BY <1>1 DEF Items

-----------------------------------------------------------------------------
(* The cache.                                                              *)

LEMMA EmptyOK == CacheOK(Empty)
<1>1. Empty.entries = <<>> /\ Cached(Empty) = {}
  BY DEF Empty, Cached
<1>2. <<>> \in Map
  <2>1. <<>> \in [{} -> Entry] /\ {} \in SUBSET Packets
    OBVIOUS
  <2> QED
    BY <2>1, Zenon DEF Map
<1> QED
  BY <1>1, <1>2 DEF CacheOK, InPlaces, Empty

(* touch, and with it a lookup, leaves the explanations as they are.       *)
LEMMA TouchOK ==
  ASSUME NEW c, CacheOK(c), NEW k
  PROVE  Touch(c, k).entries = c.entries /\ CacheOK(Touch(c, k))
<1> DEFINE o == Append(Without(c.order, k), k)
<1>1. Touch(c, k) = [c EXCEPT !.order = o]
  BY DEF Touch
<1> HIDE DEF o
<1>2. Touch(c, k) = [entries |-> c.entries, order |-> o]
  BY <1>1 DEF CacheOK
<1> QED
  BY <1>2 DEF CacheOK, InPlaces, Cached

LEMMA GetOK ==
  ASSUME NEW c, CacheOK(c), NEW p
  PROVE  Get(c, p).entries = c.entries /\ CacheOK(Get(c, p))
  BY TouchOK DEF Get

(* evict_if_full only takes away.                                          *)
LEMMA EvictOK ==
  ASSUME NEW c, CacheOK(c)
  PROVE  CacheOK(EvictIfFull(c))
<1>1. CASE EvictIfFull(c) = c
  BY <1>1
<1>2. CASE EvictIfFull(c) = Evict(c)
  <2> DEFINE K == Cached(c) \ {Head(c.order)}
             m == [x \in K |-> c.entries[x]]
             o == Tail(c.order)
  <2>1. Evict(c) = [entries |-> m, order |-> o]
    BY DEF Evict
  <2>2. PICK D \in SUBSET Packets : c.entries \in [D -> Entry] /\ Cached(c) = D
    BY DEF CacheOK, Map, Cached
  <2>3. m \in [K -> Entry] /\ K \in SUBSET Packets /\ \A x \in K : m[x] = c.entries[x] /\ x \in Cached(c)
    BY <2>2
  <2>4. m \in Map /\ DOMAIN m = K
    BY <2>3, Zenon DEF Map
  <2> HIDE DEF K, m, o
  <2>5. Cached(Evict(c)) = K /\ Evict(c).entries = m
    BY <2>1, <2>4 DEF Cached
  <2> QED
    BY <1>2, <2>1, <2>3, <2>4, <2>5 DEF CacheOK, InPlaces
<1> QED
  BY <1>1, <1>2 DEF EvictIfFull

LEMMA EntrySet ==
  ASSUME NEW e, NEW m, NEW o, NEW k, NEW v, e = [entries |-> m, order |-> o]
  PROVE  [e EXCEPT !.entries[k] = v] = [entries |-> [m EXCEPT ![k] = v], order |-> o]
         /\ [e EXCEPT !.entries = v] = [entries |-> v, order |-> o]
  OBVIOUS

(* ensure_entry.                                                           *)
LEMMA EnsureOK ==
  ASSUME NEW c, CacheOK(c), NEW k \in Packets
  PROVE  CacheOK(EnsureEntry(c, k)) /\ k \in Cached(EnsureEntry(c, k))
<1>1. CASE k \in Cached(c)
  BY <1>1, TouchOK DEF EnsureEntry, Cached
<1>2. CASE k \notin Cached(c)
  <2> DEFINE e == EvictIfFull(c)
             m == [x \in Cached(e) \cup {k} |-> IF x = k THEN NoTexts ELSE e.entries[x]]
             f == [e EXCEPT !.entries = m]
             o == e.order
  <2>1. EnsureEntry(c, k) = Touch(f, k)
    BY <1>2 DEF EnsureEntry
  <2>2. CacheOK(e)
    BY EvictOK
  <2>3. PICK D \in SUBSET Packets : e.entries \in [D -> Entry] /\ Cached(e) = D
    BY <2>2 DEF CacheOK, Map, Cached
  <2>4. NoTexts \in Entry /\ DOMAIN NoTexts = {}
    <3>1. NoTexts \in [{} -> Text] /\ {} \in SUBSET Slots
      BY DEF NoTexts
    <3> QED
      BY <3>1, Zenon DEF Entry
  <2>5. m \in [D \cup {k} -> Entry] /\ D \cup {k} \in SUBSET Packets
        /\ \A x \in D \cup {k} : m[x] = IF x = k THEN NoTexts ELSE e.entries[x]
    BY <2>3, <2>4
  <2>6. m \in Map /\ DOMAIN m = D \cup {k}
    BY <2>5, Zenon DEF Map
  <2>7. e = [entries |-> e.entries, order |-> o]
    BY <2>2 DEF CacheOK
  <2> HIDE DEF m, e, o
  <2>8. f = [entries |-> m, order |-> o]
    BY <2>7, EntrySet
  <2> HIDE DEF f
  <2>9. Cached(f) = D \cup {k} /\ f.entries = m
    BY <2>6, <2>8 DEF Cached
  <2>10. CacheOK(f)
    <3>1. InPlaces(f)
      BY <2>2, <2>3, <2>4, <2>5, <2>9 DEF CacheOK, InPlaces
    <3> QED
      BY <2>6, <2>8, <3>1 DEF CacheOK
  <2> QED
    BY <2>1, <2>9, <2>10, TouchOK DEF Cached
<1> QED
  BY <1>1, <1>2

(* insert_whole and insert_field, of an explanation under what it is about.*)
LEMMA InsertOK ==
  ASSUME NEW c, CacheOK(c), NEW t \in Text
  PROVE  CacheOK(Insert(c, t.packet, t.kind, t))
<1> DEFINE k == t.packet
           s == t.kind
           e == EnsureEntry(c, k)
           old == e.entries[k]
           new == [x \in DOMAIN old \cup {s} |-> IF x = s THEN t ELSE old[x]]
           m == [e.entries EXCEPT ![k] = new]
           o == e.order
<1>1. k \in Packets /\ s \in Slots
  BY DEF Text
<1>2. CacheOK(e) /\ k \in Cached(e)
  BY <1>1, EnsureOK
<1>3. PICK D \in SUBSET Packets : e.entries \in [D -> Entry] /\ Cached(e) = D
  BY <1>2 DEF CacheOK, Map, Cached
<1>4. old \in Entry
  BY <1>2, <1>3
<1>5. PICK S \in SUBSET Slots : old \in [S -> Text]
  BY <1>4, Zenon DEF Entry
<1>6. new \in Entry
  <2>1. new \in [S \cup {s} -> Text] /\ S \cup {s} \in SUBSET Slots
    BY <1>1, <1>5
  <2> QED
    BY <2>1, Zenon DEF Entry
<1>7. \A x \in DOMAIN new : new[x].packet = k /\ new[x].kind = x
  BY <1>2 DEF CacheOK, InPlaces
<1>8. Insert(c, k, s, t) = [e EXCEPT !.entries[k] = new]
  BY DEF Insert
<1>9. e = [entries |-> e.entries, order |-> o]
  BY <1>2 DEF CacheOK
<1> HIDE DEF e, new, o, old
<1>10. Insert(c, k, s, t) = [entries |-> m, order |-> o]
  BY <1>8, <1>9, EntrySet
<1>11. m \in [D -> Entry] /\ m[k] = new /\ \A x \in D : x # k => m[x] = e.entries[x]
  BY <1>2, <1>3, <1>6
<1>12. m \in Map /\ DOMAIN m = D
  BY <1>11, Zenon DEF Map
<1> HIDE DEF m
<1>13. Cached(Insert(c, k, s, t)) = D /\ Insert(c, k, s, t).entries = m
  BY <1>10, <1>12 DEF Cached
<1>14. InPlaces(Insert(c, k, s, t))
  BY <1>2, <1>3, <1>7, <1>11, <1>13 DEF CacheOK, InPlaces
<1> QED
  BY <1>10, <1>12, <1>13, <1>14 DEF CacheOK

-----------------------------------------------------------------------------
(* Every step.                                                             *)

InPlace == AnswerForSelection /\ LoadingNotDisplaced /\ LastSentShown
Good == OverlayInv' /\ InPlace

(* A state of the overlay that waits for nothing, and one that waits.      *)
LEMMA States ==
  /\ Idle \in AiState /\ Failed \in AiState
  /\ Idle.phase = "Idle" /\ Failed.phase = "Error"
  /\ \A t \in Text : Ready(t) \in AiState /\ Ready(t).phase = "Ready" /\ Ready(t).text = t
  /\ \A n \in 1..MaxAsked : Loading(n) \in AiState /\ Loading(n).phase = "Loading"
  BY DEF Idle, Failed, Ready, Loading, AiState

LEMMA FirstSlotOK == \A p : FirstSlot(p) \in Slots
  BY FieldAssumption DEF FirstSlot, Slots

LEMMA OverlayInitially == Init => OverlayInv
<1> SUFFICES ASSUME Init PROVE OverlayInv
  OBVIOUS
<1>1. UiTypes
  <2>1. doc \in 1..MaxDocs
    BY BoundAssumption DEF Init
  <2>2. overlay \in BOOLEAN /\ deep \in BOOLEAN /\ follow \in BOOLEAN
    BY ScrollAssumption, Zenon DEF Init
  <2>3. cursor \in Slots
    BY FirstSlotOK, Zenon DEF Init
  <2> QED
    BY <2>1, <2>2, <2>3 DEF Init, UiTypes
<1>2. AiTypes
  BY States, BoundAssumption DEF Init, AiTypes
<1>3. FlightInv
  BY States DEF Init, FlightInv, Items, Waiting
<1> QED
  BY <1>1, <1>2, <1>3, EmptyOK DEF Init, OverlayInv

(* What the keys, the deep results and the capture do to the selection     *)
(* leaves questions, answers and cache alone.                              *)
LEMMA Untouched ==
  ASSUME OverlayInv, UiTypes', UNCHANGED <<aiVars, asked, doc>>
  PROVE  Good
<1>1. UNCHANGED <<ai, aiSeq, cache, requests, working, results, asked, sent, doc>>
  BY DEF aiVars, workVars
<1>2. AiTypes' /\ CacheOK(cache') /\ FlightInv'
  BY <1>1 DEF OverlayInv, AiTypes, FlightInv, InStep, Waiting
<1>3. InPlace
  BY <1>1 DEF InPlace, AnswerForSelection, LoadingNotDisplaced, LastSentShown
<1> QED
  BY <1>2, <1>3 DEF Good, OverlayInv

(* The overlay goes back to nothing.                                       *)
LEMMA ToIdle ==
  ASSUME OverlayInv, UiTypes', ai' = Idle, cache' \in {cache, Empty}, UNCHANGED <<asked, aiSeq, workVars, results>>
  PROVE  Good
<1>1. UNCHANGED <<asked, aiSeq, requests, working, results, sent>>
  BY DEF workVars
<1>2. AiTypes'
  BY <1>1, States DEF OverlayInv, AiTypes
<1>3. FlightInv'
  BY <1>1, States DEF OverlayInv, FlightInv, InStep, Waiting
<1>4. CacheOK(cache')
  BY EmptyOK DEF OverlayInv
<1>5. InPlace
  BY States DEF InPlace, AnswerForSelection, LoadingNotDisplaced, LastSentShown
<1> QED
  BY <1>2, <1>3, <1>4, <1>5 DEF Good, OverlayInv

(* Asking about the packet that is selected then.                          *)
LEMMA ExplainStep ==
  ASSUME OverlayInv, UiTypes', NEW p \in Packets, NEW k \in Slots, Explain(p, k), selected' = p,
         doc' = doc
  PROVE  Good
<1> DEFINE t0 == [doc |-> doc, packet |-> p, kind |-> k]
<1>0. t0 \in Text /\ t0.doc = doc /\ t0.packet = p /\ t0.kind = k
  BY DEF OverlayInv, UiTypes, Text
<1>1. /\ asked' = t0 /\ UNCHANGED <<working, results>>
      /\ cache' = Get(cache, p) /\ asked' \in Text
  BY <1>0 DEF Explain
<1> HIDE DEF t0
<1>5. ~Arrives
  <2>1. results \in Seq(Response)
    BY DEF OverlayInv, AiTypes
  <2>2. results # <<>> => Len(Tail(results)) = Len(results) - 1 /\ Len(results) \in Nat
    BY <2>1, HeadTailProperties
  <2> QED
    BY <1>1, <2>2 DEF Arrives
<1>2. CacheOK(cache')
  BY <1>1, GetOK DEF OverlayInv
<1>3. CASE Has(cache, p, k)
  <2> DEFINE t == cache.entries[p][k]
  <2>1. ai' = Ready(t) /\ UNCHANGED <<aiSeq, requests, sent>>
    BY <1>3 DEF Explain
  <2>2. t \in Text /\ t.packet = p /\ t.kind = k
    <3>1. PICK D \in SUBSET Packets : cache.entries \in [D -> Entry] /\ p \in D
      BY <1>3 DEF OverlayInv, CacheOK, Map, Has, Cached
    <3>2. cache.entries[p] \in Entry
      BY <3>1
    <3>3. PICK S \in SUBSET Slots : cache.entries[p] \in [S -> Text]
      BY <3>2, Zenon DEF Entry
    <3> QED
      BY <1>3, <3>3 DEF OverlayInv, CacheOK, InPlaces, Has
  <2> HIDE DEF t
  <2>3. ai' \in AiState /\ ai'.phase = "Ready" /\ ai'.text = t
    BY <2>1, <2>2, States
  <2>4. AiTypes'
    BY <1>1, <2>1, <2>3 DEF OverlayInv, AiTypes
  <2>5. FlightInv'
    BY <1>1, <2>1, <2>3 DEF OverlayInv, FlightInv, InStep, Waiting
  <2>6. InPlace
    BY <1>0, <1>1, <1>5, <2>2, <2>3 DEF InPlace, AnswerForSelection, LoadingNotDisplaced, LastSentShown
  <2> QED
    BY <1>2, <2>4, <2>5, <2>6 DEF Good, OverlayInv
<1>4. CASE ~Has(cache, p, k)
  <2> DEFINE new == [seq |-> NextSeq, text |-> t0]
  <2>0. new \in Request /\ new.seq = aiSeq + 1 /\ new.text = t0
    <3>2. NextSeq \in 1..MaxAsked /\ NextSeq = aiSeq + 1
      BY <1>4, BoundAssumption DEF Explain, OverlayInv, AiTypes, NextSeq
    <3> QED
      BY <1>0, <3>2 DEF Request
  <2> HIDE DEF new
  <2>3. PICK r \in Request : r = new
    BY <2>0
  <2>4. r.seq = aiSeq + 1 /\ r.text = t0
    BY <2>0, <2>3
  <2>1. /\ aiSeq < MaxAsked /\ aiSeq' = aiSeq + 1 /\ requests' = Append(requests, r)
        /\ ai' = Loading(aiSeq + 1) /\ sent' = t0
    BY <1>1, <1>4, <2>3 DEF Explain, NextSeq, new
  <2>2. aiSeq \in Nat /\ aiSeq + 1 \in 1..MaxAsked
    BY <2>1, BoundAssumption DEF OverlayInv, AiTypes
  <2>5. requests' \in Seq(Request) /\ Items(requests') = Items(requests) \cup {r}
    BY <2>1, <2>3, ItemsAppend DEF OverlayInv, AiTypes
  <2>6. AiTypes'
    BY <1>0, <1>1, <2>1, <2>2, <2>5, States DEF OverlayInv, AiTypes
  <2>7. InStep(r)'
    <3>1. r.seq <= aiSeq' /\ r.text = sent'
      BY <2>1, <2>2, <2>4
    <3> QED
      BY <3>1 DEF InStep
  <2>8. ASSUME NEW q, q.seq \in Nat, InStep(q)
        PROVE  q.seq <= aiSeq' /\ q.seq # aiSeq'
    BY <2>1, <2>2, <2>8 DEF InStep
  <2>9. \A q \in Items(requests) \cup Items(working) \cup Items(results) : q.seq \in Nat /\ InStep(q)
    <3>1. \A q \in Items(requests) \cup Items(working) \cup Items(results) : q \in Request \cup Response
      BY DEF OverlayInv, AiTypes, Items
    <3>2. \A q \in Request \cup Response : q.seq \in Nat
      BY DEF Request, Response
    <3> QED
      BY <3>1, <3>2 DEF OverlayInv, FlightInv
  <2>10. FlightInv'
    <3>1. \A q \in Items(requests) \cup Items(working) \cup Items(results) : InStep(q)'
      BY <2>8, <2>9 DEF InStep
    <3> QED
      BY <1>0, <1>1, <2>1, <2>5, <2>7, <3>1 DEF FlightInv, Waiting
  <2>11. ai'.phase = "Loading"
    BY <2>1, <2>2, States
  <2>12. InPlace
    BY <2>11 DEF InPlace, AnswerForSelection, LoadingNotDisplaced, LastSentShown
  <2> QED
    BY <1>2, <2>6, <2>10, <2>12 DEF Good, OverlayInv
<1> QED
  BY <1>3, <1>4

(* An answer is drained: it is cached under what it is about, and shown if *)
(* it is the answer to the question sent last, of the index selected.      *)
LEMMA DrainStep ==
  ASSUME OverlayInv, DrainOne
  PROVE  Good
<1> DEFINE r == Head(results)
           show == IsCurrent(r.text.packet) /\ IsLatest(r.seq)
<1>1. /\ results # <<>> /\ results' = Tail(results) /\ UNCHANGED <<uiVars, aiSeq, workVars>>
      /\ cache' = IF r.ok THEN Insert(cache, r.text.packet, r.text.kind, r.text) ELSE cache
      /\ ai' = IF ~show THEN ai ELSE IF r.ok THEN Ready(r.text) ELSE Failed
  BY DEF DrainOne, AnswerKey
<1>2. /\ r \in Response /\ r \in Items(results)
      /\ results' \in Seq(Response) /\ Items(results') \subseteq Items(results)
  BY <1>1, ItemsTail DEF OverlayInv, AiTypes
<1>3. r.text \in Text /\ r.seq \in Nat
  BY <1>2 DEF Response
<1>4. InStep(r)
  BY <1>2 DEF OverlayInv, FlightInv
<1> HIDE DEF r
<1>5. UNCHANGED <<aiSeq, requests, working, asked, sent, selected, doc>> /\ UiTypes'
  BY <1>1 DEF uiVars, shown, tailVars, workVars, UiTypes, OverlayInv
<1>6. CacheOK(cache')
  <2>1. CASE r.ok
    <3>1. cache' = Insert(cache, r.text.packet, r.text.kind, r.text)
      BY <1>1, <2>1
    <3> QED
      BY <1>3, <3>1, InsertOK DEF OverlayInv
  <2>2. CASE ~r.ok
    BY <1>1, <2>2 DEF OverlayInv
  <2> QED
    BY <2>1, <2>2
<1>7. ai' = ai \/ ai' = Failed \/ (ai' = Ready(r.text) /\ show)
  BY <1>1
<1>8. ai' \in AiState /\ (ai' # ai => ai'.phase # "Loading")
  BY <1>3, <1>7, States DEF OverlayInv, AiTypes
<1>9. AiTypes'
  BY <1>2, <1>5, <1>8 DEF OverlayInv, AiTypes
<1>10. FlightInv'
  BY <1>2, <1>5, <1>8 DEF OverlayInv, FlightInv, InStep, Waiting
<1>11. InPlace
  <2>1. ai' # ai /\ ai'.phase = "Ready" => ai'.text = r.text /\ selected = r.text.packet /\ r.seq >= aiSeq
    BY <1>3, <1>7, States DEF IsCurrent, IsLatest
  <2>2. ai.phase = "Loading" /\ ai'.phase = "Ready" => ai' # ai
    OBVIOUS
  <2>3. r.seq >= aiSeq => r.seq = aiSeq
    BY <1>3, <1>4 DEF InStep, OverlayInv, AiTypes
  <2> QED
    BY <1>4, <1>5, <2>1, <2>2, <2>3
    DEF InPlace, AnswerForSelection, LoadingNotDisplaced, LastSentShown, InStep, OverlayInv, FlightInv, Waiting
<1> QED
  BY <1>5, <1>6, <1>9, <1>10, <1>11 DEF Good, OverlayInv

(* The worker passes on what it was asked.                                 *)
LEMMA WorkerStep ==
  ASSUME OverlayInv, WorkerNext
  PROVE  Good
<1>1. UNCHANGED <<uiVars, ai, aiSeq, cache, asked, sent, doc>>
  BY DEF WorkerNext, Take, Answer, uiVars
<1>2. UiTypes' /\ CacheOK(cache') /\ InPlace
  BY <1>1 DEF uiVars, shown, tailVars, UiTypes, OverlayInv, InPlace, AnswerForSelection,
              LoadingNotDisplaced, LastSentShown
<1>3. \A r : InStep(r) => InStep(r)'
  BY <1>1 DEF InStep
<1>4. CASE Take
  <2>1. /\ Head(requests) \in Request /\ Head(requests) \in Items(requests)
        /\ requests' \in Seq(Request) /\ Items(requests') \subseteq Items(requests)
    BY <1>4, ItemsTail DEF Take, OverlayInv, AiTypes
  <2>2. working' \in Seq(Request) /\ Len(working') <= 1 /\ Items(working') \subseteq Items(requests)
    <3>1. working' = <<>> \/ working' = <<Head(requests)>>
      BY <1>4 DEF Take
    <3>2. CASE working' = <<>>
      BY <2>1, <3>2, ItemsOne
    <3>3. CASE working' = <<Head(requests)>>
      BY <2>1, <3>3, ItemsOne
    <3> QED
      BY <3>1, <3>2, <3>3
  <2>3. UNCHANGED results
    BY <1>4 DEF Take
  <2>4. AiTypes'
    BY <1>1, <2>1, <2>2, <2>3 DEF OverlayInv, AiTypes
  <2>5. FlightInv'
    BY <1>1, <1>3, <2>1, <2>2, <2>3 DEF OverlayInv, FlightInv, Waiting
  <2> QED
    BY <1>2, <2>4, <2>5 DEF Good, OverlayInv
<1>5. ASSUME NEW ok \in BOOLEAN, Answer(ok) PROVE Good
  <2> DEFINE q == working[1]
             r == [seq |-> q.seq, text |-> q.text, ok |-> ok]
  <2>1. q \in Request /\ q \in Items(working)
    <3>1. working # <<>> /\ working \in Seq(Request)
      BY <1>5 DEF Answer, OverlayInv, AiTypes
    <3>2. Head(working) = q
      OBVIOUS
    <3> QED
      BY <3>1, <3>2, ItemsTail
  <2>2. r \in Response /\ r.seq = q.seq /\ r.text = q.text
    BY <2>1 DEF Request, Response
  <2>3. results' = Append(results, r) /\ working' = <<>> /\ UNCHANGED requests
    BY <1>5 DEF Answer
  <2>4. InStep(r)
    BY <2>1, <2>2 DEF OverlayInv, FlightInv, InStep
  <2> HIDE DEF r, q
  <2>5. results' \in Seq(Response) /\ Items(results') = Items(results) \cup {r}
    BY <2>2, <2>3, ItemsAppend DEF OverlayInv, AiTypes
  <2>6. working' \in Seq(Request) /\ Len(working') <= 1 /\ Items(working') = {}
    BY <2>1, <2>3, ItemsOne
  <2>7. AiTypes'
    BY <1>1, <2>3, <2>5, <2>6 DEF OverlayInv, AiTypes
  <2>8. FlightInv'
    BY <1>1, <1>3, <2>3, <2>4, <2>5, <2>6 DEF OverlayInv, FlightInv, Waiting
  <2> QED
    BY <1>2, <2>7, <2>8 DEF Good, OverlayInv
<1> QED
  BY <1>4, <1>5 DEF WorkerNext

LEMMA KeyStep ==
  ASSUME OverlayInv, KeyNext
  PROVE  Good
<1>0. UiTypes
  BY DEF OverlayInv
<1>1. CASE OpenOverlay
  <2>1. UiTypes' /\ doc' = doc /\ selected' = selected /\ overlay' = TRUE
    BY <1>0, <1>1 DEF OpenOverlay, UiTypes, shown, tailVars
  <2>2. CASE selected = None
    BY <1>1, <2>1, <2>2, ToIdle DEF OpenOverlay
  <2>3. CASE selected # None
    <3>1. selected \in Packets /\ Whole \in Slots /\ Explain(selected, Whole)
      BY <1>0, <1>1, <2>3 DEF OpenOverlay, UiTypes, Slots
    <3> QED
      BY <2>1, <3>1, ExplainStep
  <2> QED
    BY <2>2, <2>3
<1>2. CASE AskSelected
  <2>1. UiTypes' /\ doc' = doc /\ selected' = selected /\ selected \in Packets /\ cursor \in Slots /\ Explain(selected, cursor)
    BY <1>0, <1>2 DEF AskSelected, UiTypes, shown, tailVars
  <2> QED
    BY <2>1, ExplainStep
<1>3. ASSUME NEW p \in Packets, MovePacket(p) PROVE Good
  <2>1. UiTypes' /\ doc' = doc /\ selected' = p /\ Explain(p, Whole) /\ Whole \in Slots
    BY <1>0, <1>3, FirstSlotOK DEF MovePacket, MoveTo, Select, UiTypes, Slots
  <2> QED
    BY <2>1, ExplainStep
<1>4. CASE CloseOverlay \/ ApplyFilter \/ ToggleAutoScroll \/ StopCapture
  <2>1. UiTypes' /\ UNCHANGED <<aiVars, asked, doc>>
    BY <1>0, <1>4, FirstSlotOK
    DEF CloseOverlay, ApplyFilter, ToggleAutoScroll, StopCapture, FollowTail, Select, UiTypes, shown, tailVars, aiVars
  <2> QED
    BY <2>1, Untouched
<1>5. ASSUME NEW p \in Packets, SelectRow(p) PROVE Good
  <2>1. UiTypes' /\ UNCHANGED <<aiVars, asked, doc>>
    BY <1>0, <1>5, FirstSlotOK DEF SelectRow, MoveTo, Select, UiTypes
  <2> QED
    BY <2>1, Untouched
<1>6. ASSUME NEW f \in Fields, MoveCursor(f) PROVE Good
  <2>1. UiTypes' /\ UNCHANGED <<aiVars, asked, doc>>
    BY <1>0, <1>6 DEF MoveCursor, UiTypes, tailVars, Slots
  <2> QED
    BY <2>1, Untouched
<1>7. CASE MoveNowhere
  <2>1. UiTypes' /\ UNCHANGED <<asked, aiSeq, workVars, results, cache>> /\ ai' = Idle
    BY <1>0, <1>7 DEF MoveNowhere, uiVars, shown, tailVars, UiTypes
  <2> QED
    BY <2>1, ToIdle
<1>8. CASE StartCapture \/ OpenFile
  <2>1. UiTypes'
    <3>1. CASE StartCapture
      BY <1>0, <3>1, ScrollAssumption DEF StartCapture, UiTypes, shown
    <3>2. CASE OpenFile
      <4>1. doc' \in 1..MaxDocs
        BY <1>0, <3>2, BoundAssumption DEF OpenFile, UiTypes
      <4>2. /\ overlay' = overlay /\ follow' = follow /\ deep' = FALSE /\ capture' = "none"
            /\ selected' \in Packets /\ cursor' \in Slots
        BY <3>2, FirstSlotOK, PacketAssumption DEF OpenFile, Select
      <4> QED
        BY <1>0, <4>1, <4>2 DEF UiTypes
    <3> QED
      BY <1>8, <3>1, <3>2
  <2>2. UNCHANGED <<asked, aiSeq, workVars, results>> /\ ai' = Idle /\ cache' = Empty
    BY <1>8 DEF StartCapture, OpenFile
  <2> QED
    BY <2>1, <2>2, ToIdle
<1> QED
  BY <1>1, <1>2, <1>3, <1>4, <1>5, <1>6, <1>7, <1>8 DEF KeyNext

LEMMA OverlayStep == OverlayInv /\ [Next]_vars => OverlayInv' /\ [InPlace]_vars
<1> SUFFICES ASSUME OverlayInv, [Next]_vars PROVE OverlayInv' /\ [InPlace]_vars
  OBVIOUS
<1>1. CASE DeepArrives \/ DrainCapture
  <2>1. UiTypes' /\ UNCHANGED <<aiVars, asked, doc>>
    BY <1>1, FirstSlotOK DEF DeepArrives, DrainCapture, FollowTail, Select, OverlayInv, UiTypes, shown, tailVars
  <2> QED
    BY <2>1, Untouched DEF Good
<1>2. CASE UNCHANGED vars
  <2>1. UNCHANGED <<uiVars, aiVars, asked, doc>>
    BY <1>2 DEF vars, uiVars, aiVars
  <2>2. UiTypes'
    BY <2>1 DEF uiVars, shown, tailVars, OverlayInv, UiTypes
  <2> QED
    BY <1>2, <2>1, <2>2, Untouched DEF Good
<1> QED
  BY <1>1, <1>2, KeyStep, DrainStep, WorkerStep DEF Good, Next

LEMMA OverlayInvariant == Spec => []OverlayInv
  BY OverlayInitially, OverlayStep, PTL DEF Spec

(* An explanation is kept under the packet index and the field it explains *)
(* (drain_ai_results stores answers whether they are shown or not), and    *)
(* overlay, channels and worker hold what they may.                        *)
THEOREM KeptInPlace == Spec => []OverlaySound
<1>1. OverlayInv => TypeOK
  BY DEF OverlayInv, UiTypes, AiTypes, CacheOK, Map, Cached, TypeOK
<1>2. OverlayInv => CachedUnderItsKey
  BY DEF OverlayInv, CacheOK, InPlaces, CachedUnderItsKey
<1> QED
  BY <1>1, <1>2, OverlayInvariant, PTL DEF OverlaySound

(* What the pane changes to is about the packet with the selected index;   *)
(* while it waits for the answer to a question about the document shown,   *)
(* no other answer takes its place; and no answer is put up after a later  *)
(* question was sent (ai_seq, the worker's latest_seq).  That the answer is*)
(* about the document shown holds only for one that is waited for.         *)
THEOREM NoLateAnswer == Spec => AnswerInPlace
  BY OverlayInvariant, OverlayStep, PTL DEF Spec, AnswerInPlace, InPlace

-----------------------------------------------------------------------------
(* Key bindings.  The default keys, as they are parsed.                    *)

Codes ==
  <<"q", "c", "Tab", "BackTab", "1", "2", "3", "4", "s", "w", "o", "/", "e", "S", "n", "Esc", "f",
    "p", "j", "k", "g", "G", "PageDown", "PageUp", "Enter", "P", "?", "z", "ae", "oe", "i", "c", "I">>
Names ==
  <<"Quit", "ForceQuit", "NextPane", "PrevPane", "FocusPacketTable", "FocusDetailTree", "FocusHexView",
    "FocusKernelTrace", "Save", "QuickSave", "Open", "Filter", "Export", "Stats", "InterfacePicker",
    "StopCapture", "ToggleAutoScroll", "FilterPresets", "MoveDown", "MoveUp", "MoveFirst", "MoveLast",
    "PageDown", "PageUp", "ToggleExpand", "TogglePathTrace", "Help", "ZoomPane", "NextPacket",
    "PrevPacket", "IpInfo", "ContainerInfo", "AiPacketInfo">>
Shifted == {4, 14, 26, 33}
DefaultKey(n) ==
  [mods |-> IF n = 2 THEN {"ctrl"} ELSE IF n \in Shifted THEN {"shift"} ELSE {}, code |-> Codes[n]]

LEMMA ActionNames ==
  /\ DOMAIN Defaults = 1..33
  /\ \A n \in 1..33 : Defaults[n][1] = Names[n]
  /\ \A m, n \in 1..33 : Names[m] = Names[n] => m = n
<1>1. DOMAIN Defaults = 1..33
  BY DEF Defaults
<1>2. \A n \in 1..33 : Defaults[n][1] = Names[n]
  BY DEF Defaults, Names
<1>3. \A m, n \in 1..33 : Names[m] = Names[n] => m = n
  BY DEF Names
<1> QED
  BY <1>1, <1>2, <1>3

LEMMA DefaultKeysDiffer ==
  \A m, n \in 1..33 : DefaultKey(m) = DefaultKey(n) => m = n
<1>1. \A m, n \in 1..33 : Codes[m] = Codes[n] => m = n \/ {m, n} = {2, 32}
  BY DEF Codes
<1>2. DefaultKey(2) # DefaultKey(32)
  BY DEF DefaultKey, Shifted
<1>3. \A n \in 1..33 : DefaultKey(n).code = Codes[n]
  BY DEF DefaultKey
<1>4. SUFFICES ASSUME NEW m \in 1..33, NEW n \in 1..33, DefaultKey(m) = DefaultKey(n) PROVE m = n
  OBVIOUS
<1>5. m = n \/ {m, n} = {2, 32}
  <2>1. Codes[m] = Codes[n]
    BY <1>3, <1>4
  <2> QED
    BY <1>1, <2>1
<1>6. ~(m = 2 /\ n = 32) /\ ~(m = 32 /\ n = 2)
  BY <1>2, <1>4
<1> QED
  BY <1>5, <1>6

(* A string of one part, and one with a modifier before it.                *)
LEMMA OneTuple == \A w : Len(<<w>>) = 1 /\ <<w>>[1] = w /\ 1..(1 - 1) = {}
OBVIOUS

LEMMA TwoTuple == \A v, w : Len(<<v, w>>) = 2 /\ <<v, w>>[1] = v /\ <<v, w>>[2] = w /\ 1..(2 - 1) = {1}
OBVIOUS

LEMMA ParseOne ==
  ASSUME NEW w, CodeOf({}, w) # ""
  PROVE  ParseKeyString(<<w>>) = [mods |-> {}, code |-> CodeOf({}, w)]
<1> DEFINE s == <<w>>
<1>1. Len(s) = 1 /\ s[Len(s)] = w /\ 1..(Len(s) - 1) = {}
  <2>1. Len(s) = 1 /\ s[1] = w /\ 1..(1 - 1) = {}
    BY OneTuple
  <2> HIDE DEF s
  <2> QED
    BY <2>1
<1> HIDE DEF s
<1>2. {LowerWord[s[i]] : i \in 1..(Len(s) - 1)} = {}
  BY <1>1
<1> QED
  BY <1>1, <1>2 DEF ParseKeyString, s

LEMMA ParseTwo ==
  ASSUME NEW v, NEW w, NEW m, LowerWord[v] \in DOMAIN Modifier, Modifier[LowerWord[v]] = m, CodeOf({m}, w) # ""
  PROVE  ParseKeyString(<<v, w>>) = [mods |-> {m}, code |-> CodeOf({m}, w)]
<1> DEFINE s == <<v, w>>
<1>1. Len(s) = 2 /\ s[Len(s)] = w /\ s[1] = v /\ 1..(Len(s) - 1) = {1}
  <2>1. Len(s) = 2 /\ s[2] = w /\ s[1] = v /\ 1..(2 - 1) = {1}
    BY TwoTuple
  <2> HIDE DEF s
  <2> QED
    BY <2>1
<1> HIDE DEF s
<1>2. {LowerWord[s[i]] : i \in 1..(Len(s) - 1)} = {LowerWord[v]}
  BY <1>1
<1>3. {Modifier[x] : x \in {LowerWord[v]}} = {m}
  OBVIOUS
<1>4. {LowerWord[v]} \subseteq DOMAIN Modifier
  OBVIOUS
<1> HIDE DEF Modifier
<1> QED
  BY <1>1, <1>2, <1>3, <1>4 DEF ParseKeyString, s

LEMMA CharsParse ==
  ASSUME NEW w \in Chars
  PROVE  ParseKeyString(<<w>>) = Plain(w)
<1>1. CodeOf({}, w) = w /\ w # ""
  BY CharAssumption, LowerAssumption DEF CodeOf
<1> QED
  BY <1>1, ParseOne DEF Plain

LEMMA DefaultsParse == \A n \in 1..33 : ParseKeyString(Defaults[n][2]) = DefaultKey(n)
<1>1. \A w \in {"c", "e", "f", "g", "i", "j", "k", "n", "o", "p", "q", "s", "w", "z",
                "1", "2", "3", "4", "/", "?", "ae", "oe", "G", "I", "P", "S"} : w \in Chars
  <2>1. UpperOf["g"] \in Capitals /\ UpperOf["i"] \in Capitals /\ UpperOf["p"] \in Capitals /\ UpperOf["s"] \in Capitals
    BY CharAssumption DEF Capitals, Letters
  <2> QED
    BY <2>1, CharAssumption DEF Chars
<1>2. \A w \in {"Tab", "BackTab", "Esc", "PageDown", "PageUp", "Enter"} :
        \A m : CodeOf(m, w) = w
  <2>1. \A w \in {"Tab", "BackTab", "Esc", "PageDown", "PageUp", "Enter"} :
          LowerWord[w] \in {"tab", "backtab", "esc", "pagedown", "pageup", "enter"}
    BY LowerAssumption
  <2>2. {"tab", "backtab", "esc", "pagedown", "pageup", "enter"} \subseteq DOMAIN Named
    BY DEF Named
  <2>3. /\ Named["tab"] = "Tab" /\ Named["backtab"] = "BackTab" /\ Named["esc"] = "Esc"
        /\ Named["pagedown"] = "PageDown" /\ Named["pageup"] = "PageUp" /\ Named["enter"] = "Enter"
    BY DEF Named
  <2>4. \A w \in {"Tab", "BackTab", "Esc", "PageDown", "PageUp", "Enter"} : Named[LowerWord[w]] = w
    BY <2>3, LowerAssumption
  <2> QED
    BY <2>1, <2>2, <2>4 DEF CodeOf
<1>3. ASSUME NEW n \in 1..33, n # 2, n \notin Shifted PROVE ParseKeyString(<<Codes[n]>>) = Plain(Codes[n])
  <2>1. CASE Codes[n] \in Chars
    BY <2>1, CharsParse
  <2>2. CASE Codes[n] \in {"Tab", "BackTab", "Esc", "PageDown", "PageUp", "Enter"}
    <3>1. CodeOf({}, Codes[n]) = Codes[n] /\ Codes[n] # ""
      BY <1>2, <2>2
    <3> QED
      BY <3>1, ParseOne DEF Plain
  <2>3. Codes[n] \in {"c", "e", "f", "g", "i", "j", "k", "n", "o", "p", "q", "s", "w", "z",
                "1", "2", "3", "4", "/", "?", "ae", "oe", "G", "I", "P", "S"} \union {"Tab", "BackTab", "Esc", "PageDown", "PageUp", "Enter"}
    BY DEF Codes
  <2> QED
    BY <1>1, <2>1, <2>2, <2>3
<1>4. \A n \in 1..33 : n # 2 /\ n \notin Shifted => Defaults[n][2] = <<Codes[n]>>
  BY DEF Defaults, Codes, Shifted
<1>5. ParseKeyString(Defaults[2][2]) = DefaultKey(2)
  <2>1. Defaults[2][2] = <<"Ctrl", "c">>
    BY DEF Defaults
  <2>2. LowerWord["Ctrl"] \in DOMAIN Modifier /\ Modifier[LowerWord["Ctrl"]] = "ctrl"
    BY LowerAssumption DEF Modifier
  <2>3. CodeOf({"ctrl"}, "c") = "c"
    BY <1>1, LowerAssumption DEF CodeOf
  <2>4. ParseKeyString(<<"Ctrl", "c">>) = [mods |-> {"ctrl"}, code |-> "c"]
    BY <2>2, <2>3, ParseTwo
  <2>5. DefaultKey(2) = [mods |-> {"ctrl"}, code |-> "c"]
    BY DEF DefaultKey, Codes
  <2> QED
    BY <2>1, <2>4, <2>5
<1>6. ASSUME NEW n \in Shifted PROVE ParseKeyString(Defaults[n][2]) = DefaultKey(n)
  <2>1. Defaults[n][2] = <<"Shift", Codes[n]>> /\ Codes[n] \in {"BackTab", "S", "P", "I"}
    BY DEF Defaults, Codes, Shifted
  <2>2. LowerWord["Shift"] \in DOMAIN Modifier /\ Modifier[LowerWord["Shift"]] = "shift"
    BY LowerAssumption DEF Modifier
  <2>3. \A w \in {"S", "P", "I"} : w \notin Letters
    <3>1. UpperOf["i"] \in Capitals /\ UpperOf["p"] \in Capitals /\ UpperOf["s"] \in Capitals
      BY CharAssumption DEF Capitals, Letters
    <3> QED
      BY <3>1, CharAssumption
  <2>4. CodeOf({"shift"}, Codes[n]) = Codes[n]
    <3>1. CASE Codes[n] = "BackTab"
      BY <1>2, <3>1
    <3>2. CASE Codes[n] # "BackTab"
      <4>1. Codes[n] \in Chars /\ Codes[n] \notin Letters
        BY <1>1, <2>1, <2>3, <3>2
      <4> QED
        BY <4>1, LowerAssumption DEF CodeOf
    <3> QED
      BY <3>1, <3>2
  <2>5. ParseKeyString(<<"Shift", Codes[n]>>) = [mods |-> {"shift"}, code |-> Codes[n]]
    <3>1. Codes[n] # ""
      BY <2>1
    <3> QED
      BY <2>2, <2>4, <3>1, ParseTwo
  <2>6. DefaultKey(n) = [mods |-> {"shift"}, code |-> Codes[n]]
    BY DEF DefaultKey, Shifted
  <2> QED
    BY <2>1, <2>5, <2>6
<1>7. ASSUME NEW n \in 1..33, n # 2, n \notin Shifted PROVE ParseKeyString(Defaults[n][2]) = DefaultKey(n)
  <2>1. DefaultKey(n) = Plain(Codes[n])
    BY <1>7 DEF DefaultKey, Plain
  <2> QED
    BY <1>3, <1>4, <1>7, <2>1
<1> QED
  BY <1>5, <1>6, <1>7

(* Default keys are what the terminal sends for them, but for "G".         *)
LEMMA DefaultEvents ==
  /\ \A n \in 1..33 : n # 22 => EventOf(DefaultKey(n)) = DefaultKey(n)
  /\ EventOf(DefaultKey(22)) = [mods |-> {"shift"}, code |-> "G"]
  /\ \A n \in 1..33 : DefaultKey(n) # NoKey /\ EventOf(DefaultKey(n)).code = Codes[n]
<1>1. UpperOf["g"] \in Capitals /\ UpperOf["i"] \in Capitals /\ UpperOf["p"] \in Capitals /\ UpperOf["s"] \in Capitals
  BY CharAssumption DEF Capitals, Letters
<1>2. {"G", "I", "P", "S"} \subseteq Capitals /\ \A w \in {"G", "I", "P", "S"} : w \notin Letters
  BY <1>1, CharAssumption
<1>3. \A w \in {"c", "e", "f", "g", "i", "j", "k", "n", "o", "p", "q", "s", "w", "z",
                "1", "2", "3", "4", "/", "?", "ae", "oe"} : w \notin Capitals
  BY CharAssumption
<1>4. \A w \in {"Tab", "BackTab", "Esc", "PageDown", "PageUp", "Enter"} : w \notin Letters /\ w \notin Capitals
  <2>1. {"tab", "backtab", "esc", "pagedown", "pageup", "enter"} \subseteq DOMAIN Named
    BY DEF Named
  <2>2. /\ Named["tab"] = "Tab" /\ Named["backtab"] = "BackTab" /\ Named["esc"] = "Esc"
        /\ Named["pagedown"] = "PageDown" /\ Named["pageup"] = "PageUp" /\ Named["enter"] = "Enter"
    BY DEF Named
  <2>3. \A w \in {"Tab", "BackTab", "Esc", "PageDown", "PageUp", "Enter"} : w \notin Chars
    BY <2>1, <2>2, CharAssumption
  <2> QED
    BY <2>3 DEF Chars
<1>5. \A n \in 1..33 : DefaultKey(n).code = Codes[n] /\ Codes[n] # ""
  <2>1. \A n \in 1..33 : DefaultKey(n).code = Codes[n]
    BY DEF DefaultKey
  <2>2. \A n \in 1..33 : Codes[n] # ""
    <3>1. \A n \in 1..33 :
            Codes[n] \in {"c", "e", "f", "g", "i", "j", "k", "n", "o", "p", "q", "s", "w", "z", "1", "2", "3", "4",
              "/", "?", "ae", "oe", "G", "I", "P", "S", "Tab", "BackTab", "Esc", "PageDown", "PageUp", "Enter"}
      BY DEF Codes
    <3> QED
      BY <3>1
  <2> QED
    BY <2>1, <2>2
<1>6. ASSUME NEW n \in 1..33, n \notin Shifted, n # 22 PROVE EventOf(DefaultKey(n)) = DefaultKey(n)
  <2>1. Codes[n] \in {"c", "e", "f", "g", "i", "j", "k", "n", "o", "p", "q", "s", "w", "z",
                "1", "2", "3", "4", "/", "?", "ae", "oe"} \union {"Tab", "BackTab", "Esc", "PageDown", "PageUp", "Enter"}
    BY <1>6 DEF Codes, Shifted
  <2>2. Codes[n] \notin Capitals
    BY <1>3, <1>4, <2>1
  <2>3. "shift" \notin DefaultKey(n).mods
    BY <1>6 DEF DefaultKey
  <2> QED
    BY <1>5, <2>2, <2>3 DEF EventOf
<1>7. ASSUME NEW n \in Shifted PROVE EventOf(DefaultKey(n)) = DefaultKey(n)
  <2>1. Codes[n] \in {"BackTab", "S", "P", "I"}
    BY DEF Codes, Shifted
  <2>2. DefaultKey(n) = [mods |-> {"shift"}, code |-> Codes[n]]
    BY DEF DefaultKey, Shifted
  <2>3. Codes[n] \notin Letters
    BY <1>2, <1>4, <2>1
  <2>4. [DefaultKey(n) EXCEPT !.mods = @ \union {"shift"}] = DefaultKey(n)
    BY <2>2
  <2>5. DefaultKey(n).code \notin Letters
    BY <2>2, <2>3
  <2>6. CASE DefaultKey(n).code \in Capitals
    BY <2>4, <2>6 DEF EventOf
  <2>7. CASE DefaultKey(n).code \notin Capitals
    BY <2>5, <2>7 DEF EventOf
  <2> QED
    BY <2>6, <2>7
<1>8. EventOf(DefaultKey(22)) = [mods |-> {"shift"}, code |-> "G"]
  <2>1. DefaultKey(22) = [mods |-> {}, code |-> "G"]
    BY DEF DefaultKey, Codes, Shifted
  <2>2. [DefaultKey(22) EXCEPT !.mods = @ \union {"shift"}] = [mods |-> {"shift"}, code |-> "G"]
    BY <2>1
  <2>3. DefaultKey(22).code \in Capitals
    BY <1>2, <2>1
  <2> QED
    BY <2>2, <2>3 DEF EventOf
<1>9. \A n \in 1..33 : DefaultKey(n) # NoKey
  <2>1. NoKey.code = ""
    BY DEF NoKey
  <2> QED
    BY <1>5, <2>1
<1>10. Codes[22] = "G"
  BY DEF Codes
<1> HIDE DEF Shifted
<1>11. \A n \in 1..33 : n # 22 => EventOf(DefaultKey(n)) = DefaultKey(n)
  BY <1>6, <1>7
<1>12. \A n \in 1..33 : EventOf(DefaultKey(n)).code = Codes[n]
  <2>1. EventOf(DefaultKey(22)).code = "G"
    BY <1>8
  <2>2. ASSUME NEW n \in 1..33 PROVE EventOf(DefaultKey(n)).code = Codes[n]
    <3>1. CASE n = 22
      BY <1>10, <2>1, <3>1
    <3>2. CASE n # 22
      BY <1>5, <1>11, <3>2
    <3> QED
      BY <3>1, <3>2
  <2> QED
    BY <2>2
<1> QED
  BY <1>8, <1>9, <1>11, <1>12

-----------------------------------------------------------------------------
(* The table.                                                              *)

(* The key of an action is its default, or one that the file gives it.     *)
LEMMA KeyOfForm ==
  ASSUME NEW o, NEW n \in 1..33
  PROVE  /\ \/ KeyOf(o, n) = DefaultKey(n)
            \/ Names[n] \in DOMAIN o /\ KeyOf(o, n) = ParseKeyString(o[Names[n]]) /\ KeyOf(o, n) # NoKey
         /\ (Names[n] \in DOMAIN o => ParseKeyString(o[Names[n]]) = NoKey) => KeyOf(o, n) = DefaultKey(n)
<1>1. Defaults[n][1] = Names[n] /\ ParseKeyString(Defaults[n][2]) = DefaultKey(n)
  BY ActionNames, DefaultsParse
<1> DEFINE user == IF Names[n] \in DOMAIN o THEN ParseKeyString(o[Names[n]]) ELSE NoKey
<1>2. KeyOf(o, n) = IF user # NoKey THEN user ELSE DefaultKey(n)
  BY <1>1 DEF KeyOf
<1> QED
  BY <1>2

(* A set of numbers up to 33 has a greatest one.                           *)
LEMMA LastExists ==
  ASSUME NEW S \in SUBSET (1..33), S # {}
  PROVE  \E x \in S : \A y \in S : x >= y
<1> DEFINE R == OpToRel(<, Nat)
           Left == {33 - x : x \in S}
<1>1. IsWellFoundedOn(R, Nat)
  BY NatLessThanWellFounded
<1>2. \A x, y \in Nat : x < y => <<x, y>> \in R
  BY DEF OpToRel
<1>3. Left \subseteq Nat /\ Left # {}
  <2>1. \A x \in S : 33 - x \in Nat
    OBVIOUS
  <2> QED
    BY <2>1
<1> HIDE DEF R
<1>4. PICK t \in Left : \A u \in Left : ~ (<<u, t>> \in R)
  <2> HIDE DEF Left
  <2> QED
    BY <1>1, <1>3, WFMin, Zenon
<1>5. PICK x \in S : t = 33 - x
  OBVIOUS
<1>6. ASSUME NEW y \in S PROVE x >= y
  <2>1. 33 - y \in Left /\ 33 - y \in Nat /\ t \in Nat
    BY <1>3
  <2>2. ~(33 - y < t)
    BY <1>2, <1>4, <2>1
  <2> QED
    BY <1>5, <2>2
<1> QED
  BY <1>6

(* The last action with a key has it.                                      *)
LEMMA TableAt ==
  ASSUME NEW o, NEW n \in 1..33, \A m \in 1..33 : KeyOf(o, m) = KeyOf(o, n) => m <= n
  PROVE  KeyOf(o, n) \in DOMAIN Table(o) /\ Table(o)[KeyOf(o, n)] = Names[n]
<1> DEFINE bound == [m \in DOMAIN Defaults |-> KeyOf(o, m)]
           keys == {bound[m] : m \in DOMAIN bound}
           free == {Plain(c) : c \in DOMAIN Aliases} \ keys
           k == KeyOf(o, n)
           same == {m \in DOMAIN bound : bound[m] = k}
<1>1. DOMAIN bound = 1..33 /\ \A m \in 1..33 : bound[m] = KeyOf(o, m)
  BY ActionNames
<1>2. k \in keys
  BY <1>1
<1>3. n \in same /\ same \subseteq 1..33 /\ \A m \in same : n >= m
  BY <1>1
<1>4. Table(o) = [x \in keys \union free |->
                    IF x \in keys THEN Defaults[Max({m \in DOMAIN bound : bound[m] = x})][1] ELSE Aliases[x.code]]
  BY DEF Table
<1> HIDE DEF keys, free, bound, k
<1>5. k \in DOMAIN Table(o) /\ Table(o)[k] = Defaults[Max(same)][1]
  BY <1>2, <1>4
<1>6. Max(same) = n
  <2> HIDE DEF same
  <2>1. \A x \in same : (\A y \in same : x >= y) => x = n
    BY <1>3
  <2> QED
    BY <1>3, <2>1 DEF Max
<1>7. Defaults[n][1] = Names[n]
  BY ActionNames
<1> QED
  BY <1>5, <1>6, <1>7 DEF k

(* What is in the table is an action's key, or one of the four that are    *)
(* added.                                                                  *)
LEMMA TableFrom ==
  ASSUME NEW o, NEW k \in DOMAIN Table(o)
  PROVE  \/ \E n \in 1..33 : KeyOf(o, n) = k /\ Table(o)[k] = Names[n]
         \/ k \in {Plain(c) : c \in DOMAIN Aliases} /\ Table(o)[k] = Aliases[k.code]
<1> DEFINE bound == [m \in DOMAIN Defaults |-> KeyOf(o, m)]
           keys == {bound[m] : m \in DOMAIN bound}
           free == {Plain(c) : c \in DOMAIN Aliases} \ keys
           same == {m \in DOMAIN bound : bound[m] = k}
<1>1. DOMAIN bound = 1..33 /\ \A m \in 1..33 : bound[m] = KeyOf(o, m)
  BY ActionNames
<1>2. Table(o) = [x \in keys \union free |->
                    IF x \in keys THEN Defaults[Max({m \in DOMAIN bound : bound[m] = x})][1] ELSE Aliases[x.code]]
  BY DEF Table
<1>3. CASE k \in keys
  <2>1. Table(o)[k] = Defaults[Max(same)][1]
    <3> HIDE DEF keys, free, bound
    <3> QED
      BY <1>2, <1>3
  <2>2. same \subseteq 1..33 /\ same # {}
    BY <1>1, <1>3
  <2>3. Max(same) \in same
    <3>1. \E x \in same : \A y \in same : x >= y
      <4> HIDE DEF same
      <4>1. same \in SUBSET (1..33)
        BY <2>2
      <4> QED
        BY <2>2, <4>1, LastExists
    <3> HIDE DEF same
    <3> QED
      BY <3>1 DEF Max
  <2>4. Max(same) \in 1..33 /\ KeyOf(o, Max(same)) = k
    BY <1>1, <2>3
  <2> HIDE DEF same
  <2>5. Defaults[Max(same)][1] = Names[Max(same)]
    BY <2>4, ActionNames
  <2> QED
    BY <2>1, <2>4, <2>5
<1>4. CASE k \notin keys
  <2> HIDE DEF keys, bound
  <2>1. k \in keys \union free
    BY <1>2
  <2> QED
    BY <1>2, <1>4, <2>1
<1> QED
  BY <1>3, <1>4
(* Files whose strings are the same keys give the same table.              *)
LEMMA TableSame ==
  ASSUME NEW o, NEW p, \A n \in 1..33 : KeyOf(o, n) = KeyOf(p, n)
  PROVE  Table(o) = Table(p)
<1> DEFINE TableOf(bound) ==
             LET keys == {bound[n] : n \in DOMAIN bound}
                 free == {Plain(c) : c \in DOMAIN Aliases} \ keys
             IN [k \in keys \union free |->
                   IF k \in keys THEN Defaults[Max({n \in DOMAIN bound : bound[n] = k})][1]
                   ELSE Aliases[k.code]]
           one == [n \in DOMAIN Defaults |-> KeyOf(o, n)]
           two == [n \in DOMAIN Defaults |-> KeyOf(p, n)]
<1>1. Table(o) = TableOf(one) /\ Table(p) = TableOf(two)
  BY DEF Table
<1>2. one = two
  BY ActionNames
<1> HIDE DEF one, two, TableOf
<1> QED
  BY <1>1, <1>2

(* Of the key that quits and that of the y-th action one is left, when the *)
(* file sets one action, apart from others that it gives Esc.              *)
LEMMA OneIsLeft ==
  ASSUME NEW o, NEW X, NEW y \in {2, 31, 32},
         \A m \in 1..33 : Names[m] \in X => KeyOf(o, m) = Plain("Esc") /\ m # 1 /\ m # y,
         \A p, r \in DOMAIN o \ X : p = r
  PROVE  \E n \in {1, y} : /\ KeyOf(o, n) \in {DefaultKey(1), DefaultKey(y)}
                           /\ KeyOf(o, n) \in DOMAIN Table(o) /\ Table(o)[KeyOf(o, n)] = Names[n]
<1> DEFINE Given(m) == Names[m] \in DOMAIN o \ X
           q == DefaultKey(1)
           r == DefaultKey(y)
<1>1. 1 \in 1..33 /\ y \in 1..33 /\ y # 1 /\ 1 <= y
  OBVIOUS
<1>2. q # Plain("Esc") /\ r # Plain("Esc") /\ q # r
  <2>1. DefaultKey(16) = Plain("Esc")
    BY DEF DefaultKey, Codes, Shifted, Plain
  <2>2. 16 \in 1..33 /\ y # 16
    OBVIOUS
  <2> QED
    BY <1>1, <2>1, <2>2, DefaultKeysDiffer
<1>3. ASSUME NEW m \in 1..33, KeyOf(o, m) # DefaultKey(m), KeyOf(o, m) # Plain("Esc") PROVE Given(m)
  BY <1>3, KeyOfForm
<1>4. ASSUME NEW m \in 1..33, NEW n \in 1..33, Given(m), Given(n) PROVE m = n
  BY <1>4, ActionNames
<1>5. ASSUME NEW m \in 1..33, ~Given(m), m = 1 \/ m = y PROVE KeyOf(o, m) = DefaultKey(m)
  <2>1. Names[m] \notin X
    BY <1>5
  <2>2. Names[m] \notin DOMAIN o
    BY <1>5, <2>1
  <2> QED
    BY <2>2, KeyOfForm
<1> HIDE DEF Given, q, r
<1>6. CASE ~Given(1) /\ \A m \in 1..33 : KeyOf(o, m) = q => m = 1
  <2>1. KeyOf(o, 1) = q
    BY <1>1, <1>5, <1>6 DEF q
  <2>2. \A m \in 1..33 : KeyOf(o, m) = KeyOf(o, 1) => m <= 1
    BY <1>6, <2>1
  <2>3. KeyOf(o, 1) \in DOMAIN Table(o) /\ Table(o)[KeyOf(o, 1)] = Names[1]
    BY <1>1, <2>2, TableAt
  <2> QED
    BY <2>1, <2>3 DEF q
<1>7. CASE Given(1) \/ \E m \in 1..33 : KeyOf(o, m) = q /\ m # 1
  <2>1. PICK b \in 1..33 : Given(b) /\ (b = 1 \/ KeyOf(o, b) = q)
    <3>1. ASSUME NEW m \in 1..33, KeyOf(o, m) = q, m # 1 PROVE Given(m)
      <4>1. KeyOf(o, m) # DefaultKey(m)
        BY <1>1, <3>1, DefaultKeysDiffer DEF q
      <4> QED
        BY <1>2, <1>3, <3>1, <4>1
    <3> QED
      BY <1>1, <1>7, <3>1
  <2>2. \A m \in 1..33 : Given(m) => m = b
    BY <1>4, <2>1
  <2>3. KeyOf(o, y) \in {q, r} /\ \A m \in 1..33 : KeyOf(o, m) = KeyOf(o, y) => m <= y
    <3>1. CASE b = y
      <4>1. KeyOf(o, y) = q
        BY <1>1, <2>1, <3>1
      <4>2. ASSUME NEW m \in 1..33, KeyOf(o, m) = q PROVE m = 1 \/ m = y
        <5>1. CASE KeyOf(o, m) = DefaultKey(m)
          BY <1>1, <4>2, <5>1, DefaultKeysDiffer DEF q
        <5>2. CASE KeyOf(o, m) # DefaultKey(m)
          BY <1>2, <1>3, <2>2, <3>1, <4>2, <5>2
        <5> QED
          BY <5>1, <5>2
      <4> QED
        BY <1>1, <4>1, <4>2
    <3>2. CASE b # y
      <4>1. KeyOf(o, y) = r
        BY <1>1, <1>5, <2>2, <3>2 DEF r
      <4>2. ASSUME NEW m \in 1..33, KeyOf(o, m) = r PROVE m = 1 \/ m = y
        <5>1. CASE KeyOf(o, m) = DefaultKey(m)
          BY <1>1, <4>2, <5>1, DefaultKeysDiffer DEF r
        <5>2. CASE KeyOf(o, m) # DefaultKey(m)
          BY <1>2, <1>3, <2>1, <2>2, <4>2, <5>2
        <5> QED
          BY <5>1, <5>2
      <4> QED
        BY <1>1, <4>1, <4>2
    <3> QED
      BY <3>1, <3>2
  <2>4. KeyOf(o, y) \in DOMAIN Table(o) /\ Table(o)[KeyOf(o, y)] = Names[y]
    BY <1>1, <2>3, TableAt
  <2> QED
    BY <2>3, <2>4 DEF q, r
<1> QED
  BY <1>6, <1>7
-----------------------------------------------------------------------------
(* What the keys do.                                                       *)

(* The keys that a small file sets are a few.                              *)
LEMMA AtMostOne ==
  ASSUME NEW D, IsFiniteSet(D), Cardinality(D) <= 1
  PROVE  \A p, r \in D : p = r
<1> SUFFICES ASSUME NEW p \in D, NEW r \in D, p # r PROVE FALSE
  OBVIOUS
<1>1. IsFiniteSet(D \ {p}) /\ Cardinality(D \ {p}) = Cardinality(D) - 1
  BY FS_RemoveElement
<1>2. r \in D \ {p}
  OBVIOUS
<1>3. Cardinality((D \ {p}) \ {r}) = Cardinality(D) - 2
  <2>1. /\ IsFiniteSet((D \ {p}) \ {r})
        /\ Cardinality((D \ {p}) \ {r}) = Cardinality(D \ {p}) - 1
    BY <1>1, <1>2, FS_RemoveElement
  <2> QED
    BY <1>1, <2>1, FS_CardinalityType
<1>4. Cardinality((D \ {p}) \ {r}) \in Nat
  BY <1>1, FS_RemoveElement, FS_CardinalityType
<1>5. Cardinality(D) \in Nat
  BY FS_CardinalityType
<1> QED
  BY <1>3, <1>4, <1>5

LEMMA AtMostTwo ==
  ASSUME NEW D, IsFiniteSet(D), Cardinality(D) <= 2, NEW a \in D
  PROVE  \A p, r \in D \ {a} : p = r
<1>1. IsFiniteSet(D \ {a}) /\ Cardinality(D \ {a}) = Cardinality(D) - 1
  BY FS_RemoveElement
<1>2. Cardinality(D) \in Nat
  BY FS_CardinalityType
<1>3. Cardinality(D \ {a}) <= 1
  BY <1>1, <1>2
<1> QED
  BY <1>1, <1>3, AtMostOne

LEMMA ActionsFinite == IsFiniteSet(Actions)
<1> DEFINE f == [n \in 1..33 |-> Defaults[n][1]]
<1>1. IsFiniteSet(1..33)
  <2>1. 1 \in Int /\ 33 \in Int
    OBVIOUS
  <2> QED
    BY <2>1, FS_Interval
<1>2. f \in Surjection(1..33, Actions)
  <2>1. DOMAIN Defaults = 1..33
    BY ActionNames
  <2> QED
    BY <2>1 DEF Surjection, Actions
<1> HIDE DEF f
<1> QED
  BY <1>1, <1>2, FS_Surjection

KeysInv == BindTypeOK /\ bindings = Table(override)

LEMMA KeysDefaults == ASSUME KeysInv PROVE DefaultsWork
<1> SUFFICES ASSUME openDialog = "none", NEW n \in 1..33,
                    Names[n] \in DOMAIN override => ParseKeyString(override[Names[n]]) = NoKey,
                    NEW given, given = {ParseKeyString(override[b]) : b \in DOMAIN override \ {Names[n]}},
                    EventOf(DefaultKey(n)) \notin given,
                    Names[n] = "MoveLast" => focus = "packets",
                    Taken(Names[n])
             PROVE  Did(EventOf(DefaultKey(n))) = IF traceOverlay /\ Names[n] = "StopCapture" THEN "CloseOverlay" ELSE Names[n]
  <2>1. DOMAIN Defaults = 1..33
    BY ActionNames
  <2>2. \A m \in 1..33 : Defaults[m][1] = Names[m] /\ ParseKeyString(Defaults[m][2]) = DefaultKey(m)
    BY ActionNames, DefaultsParse
  <2> QED
    BY <2>1, <2>2 DEF DefaultsWork
<1> DEFINE e == EventOf(DefaultKey(n))
<1>1. KeyOf(override, n) = DefaultKey(n)
  BY KeyOfForm
<1>2. \A m \in 1..33 : KeyOf(override, m) = e => KeyOf(override, m) = DefaultKey(m)
  <2>1. SUFFICES ASSUME NEW m \in 1..33, KeyOf(override, m) = e, KeyOf(override, m) # DefaultKey(m) PROVE FALSE
    OBVIOUS
  <2>2. Names[m] \in DOMAIN override /\ e = ParseKeyString(override[Names[m]]) /\ e # NoKey
    BY <2>1, KeyOfForm
  <2>3. Names[m] # Names[n]
    BY <2>2
  <2> QED
    BY <2>2, <2>3
<1>3. n # 22 => ActionFor(e) = Names[n]
  <2> SUFFICES ASSUME n # 22 PROVE ActionFor(e) = Names[n]
    OBVIOUS
  <2>1. e = DefaultKey(n)
    BY DefaultEvents
  <2>2. \A m \in 1..33 : KeyOf(override, m) = KeyOf(override, n) => m = n
    BY <1>1, <1>2, <2>1, DefaultKeysDiffer
  <2>3. KeyOf(override, n) \in DOMAIN Table(override) /\ Table(override)[KeyOf(override, n)] = Names[n]
    <3>1. \A m \in 1..33 : KeyOf(override, m) = KeyOf(override, n) => m <= n
      BY <2>2
    <3> QED
      BY <3>1, TableAt
  <2> QED
    BY <1>1, <2>1, <2>3 DEF ActionFor, KeysInv
<1>4. n = 22 => ActionFor(e) = "None"
  <2> SUFFICES ASSUME n = 22, e \in DOMAIN Table(override) PROVE FALSE
    BY DEF ActionFor, KeysInv
  <2>1. e = [mods |-> {"shift"}, code |-> "G"]
    BY DefaultEvents
  <2>2. e \notin {Plain(c) : c \in DOMAIN Aliases}
    <3>1. \A c : Plain(c).mods = {}
      BY DEF Plain
    <3>2. e.mods # {}
      BY <2>1
    <3> QED
      BY <3>1, <3>2
  <2>3. PICK m \in 1..33 : KeyOf(override, m) = e
    BY <2>2, TableFrom
  <2>4. DefaultKey(m) = e
    BY <1>2, <2>3
  <2>5. Codes[m] = "G" /\ Codes[22] = "G"
    <3>1. DefaultKey(m).code = Codes[m]
      BY DEF DefaultKey
    <3>2. Codes[22] = "G"
      BY DEF Codes
    <3> QED
      BY <2>1, <2>4, <3>1, <3>2
  <2>6. m = 22
    BY <2>5 DEF Codes
  <2>7. DefaultKey(22).mods = {}
    BY DEF DefaultKey, Shifted
  <2> QED
    BY <2>1, <2>4, <2>6, <2>7
<1>5. e.code = Codes[n]
  BY DefaultEvents
<1>6. Codes[n] \notin {"Up", "Down"} /\ (Codes[n] = "Esc" <=> n = 16) /\ (Names[n] = "StopCapture" <=> n = 16)
  <2>1. Codes[n] \notin {"Up", "Down"}
    BY DEF Codes
  <2>2. Codes[n] = "Esc" <=> n = 16
    BY DEF Codes
  <2>3. Names[n] = "StopCapture" <=> n = 16
    BY DEF Names
  <2> QED
    BY <2>1, <2>2, <2>3
<1>7. n = 22 => Names[n] = "MoveLast" /\ Codes[n] = "G"
  BY DEF Names, Codes
<1>8. n = 22 => InPane(e) = "MoveLast"
  <2> SUFFICES ASSUME n = 22 PROVE InPane(e) = "MoveLast"
    OBVIOUS
  <2>1. focus = "packets" /\ e.code = "G"
    BY <1>5, <1>7
  <2>2. "G" \in DOMAIN TableKeys /\ TableKeys["G"] = "MoveLast"
    BY DEF TableKeys
  <2> HIDE DEF e
  <2> QED
    BY <2>1, <2>2 DEF InPane
<1> HIDE DEF e
<1>9. CASE traceOverlay /\ n = 16
  <2>1. Did(e) = "CloseOverlay"
    BY <1>5, <1>6, <1>9 DEF Did
  <2> QED
    BY <1>6, <1>9, <2>1 DEF e
<1>10. CASE ~(traceOverlay /\ n = 16)
  <2>1. Did(e) = IF Taken(ActionFor(e)) THEN ActionFor(e) ELSE InPane(e)
    BY <1>5, <1>6, <1>10 DEF Did
  <2>2. ~Taken("None")
    BY DEF Taken
  <2>3. CASE n = 22
    BY <1>4, <1>6, <1>7, <1>8, <2>1, <2>2, <2>3 DEF e
  <2>4. CASE n # 22
    BY <1>3, <1>6, <1>10, <2>1, <2>4 DEF e
  <2> QED
    BY <2>3, <2>4
<1> QED
  BY <1>9, <1>10
LEMMA KeysExit == ASSUME KeysInv PROVE DialogHasExit
<1> SUFFICES ASSUME openDialog # "none", Cardinality(DOMAIN override) <= 2, Did(Plain("Esc")) # "Close"
             PROVE  \E n \in DOMAIN Defaults : Did(EventOf(KeyOf(override, n))) = "Close"
  BY DEF DialogHasExit
<1>1. Plain("Esc").code = "Esc" /\ Plain("Esc").mods = {}
  BY DEF Plain
<1>2. openDialog \in {"ipinfo", "container"}
  <2>1. openDialog \in {"ipinfo", "container", "ai"}
    BY DEF KeysInv, BindTypeOK
  <2>2. ASSUME openDialog = "ai" PROVE FALSE
    <3>1. InDialog("ai", Plain("Esc")) = "Close"
      BY <1>1 DEF InDialog
    <3> QED
      BY <2>2, <3>1 DEF Did
  <2> QED
    BY <2>1, <2>2
<1> DEFINE y == IF openDialog = "ipinfo" THEN 31 ELSE 32
<1>3. y \in {31, 32} /\ y \in 1..33 /\ CloseActions(openDialog) = {Names[1], Names[y]}
  <2>1. Names[1] = "Quit" /\ Names[31] = "IpInfo" /\ Names[32] = "ContainerInfo"
    BY DEF Names
  <2>2. y \in {31, 32} /\ y \in 1..33
    OBVIOUS
  <2>3. CASE openDialog = "ipinfo"
    BY <2>1, <2>3 DEF CloseActions
  <2>4. CASE openDialog = "container"
    BY <2>1, <2>4 DEF CloseActions
  <2> QED
    BY <1>2, <2>2, <2>3, <2>4
<1>4. ASSUME NEW k, ActionFor(k) \in CloseActions(openDialog) PROVE Did(k) = "Close"
  <2>1. InDialog(openDialog, k) = "Close"
    BY <1>2, <1>4 DEF InDialog
  <2> QED
    BY <2>1 DEF Did
<1> DEFINE a == ActionFor(Plain("Esc"))
<1>5. a \in {"NextPacket", "PrevPacket"}
  <2> SUFFICES ASSUME a \notin {"NextPacket", "PrevPacket"} PROVE FALSE
    OBVIOUS
  <2>1. InDialog(openDialog, Plain("Esc")) = "Close"
    BY <1>1, <1>2 DEF InDialog
  <2> QED
    BY <2>1 DEF Did
<1>6. Plain("Esc") \in DOMAIN Table(override) /\ Table(override)[Plain("Esc")] = a
  BY <1>5 DEF ActionFor, KeysInv
<1>7. PICK m \in 1..33 : KeyOf(override, m) = Plain("Esc") /\ Names[m] = a
  <2>1. Plain("Esc") \notin {Plain(c) : c \in DOMAIN Aliases}
    <3>1. \A c \in DOMAIN Aliases : Plain(c).code = c
      BY DEF Plain
    <3>2. "Esc" \notin DOMAIN Aliases
      BY DEF Aliases
    <3> QED
      BY <1>1, <3>1, <3>2
  <2> HIDE DEF a
  <2> QED
    BY <1>6, <2>1, TableFrom
<1>8. m \in {29, 30} /\ a \in DOMAIN override
  <2>1. m \in {29, 30}
    <3>1. \A n \in 1..33 : Names[n] \in {"NextPacket", "PrevPacket"} => n \in {29, 30}
      BY DEF Names
    <3> QED
      BY <1>5, <1>7, <3>1
  <2>2. Plain("Esc") = DefaultKey(16)
    BY DEF DefaultKey, Codes, Shifted, Plain
  <2>3. KeyOf(override, m) # DefaultKey(m)
    <3>1. 16 \in 1..33 /\ m # 16
      BY <2>1
    <3> QED
      BY <1>7, <2>2, <3>1, DefaultKeysDiffer
  <2> QED
    BY <1>7, <2>1, <2>3, KeyOfForm
<1> HIDE DEF a, y
<1>9. \A p, r \in DOMAIN override \ {a} : p = r
  <2>1. DOMAIN override \subseteq Actions
    BY DEF KeysInv, BindTypeOK
  <2>2. IsFiniteSet(DOMAIN override)
    BY <2>1, ActionsFinite, FS_Subset
  <2> QED
    BY <1>8, <2>2, AtMostTwo
<1>10. \A n \in 1..33 : Names[n] \in {a} => KeyOf(override, n) = Plain("Esc") /\ n # 1 /\ n # y
  <2>1. \A n \in 1..33 : Names[n] = a => n = m
    BY <1>7, ActionNames
  <2>2. m # 1 /\ m # y
    BY <1>3, <1>8
  <2> QED
    BY <1>7, <2>1, <2>2
<1>11. PICK n \in {1, y} : /\ KeyOf(override, n) \in {DefaultKey(1), DefaultKey(y)}
                           /\ KeyOf(override, n) \in DOMAIN Table(override)
                           /\ Table(override)[KeyOf(override, n)] = Names[n]
  <2> DEFINE X == {a}
  <2>1. y \in {2, 31, 32}
    BY <1>3
  <2>2. \A p, r \in DOMAIN override \ X : p = r
    BY <1>9
  <2>3. \A k \in 1..33 : Names[k] \in X => KeyOf(override, k) = Plain("Esc") /\ k # 1 /\ k # y
    BY <1>10
  <2> HIDE DEF X
  <2> QED
    BY <2>1, <2>2, <2>3, OneIsLeft
<1>12. EventOf(KeyOf(override, n)) = KeyOf(override, n)
  <2>1. 1 \in 1..33 /\ 1 # 22 /\ y # 22
    BY <1>3
  <2> QED
    BY <1>3, <1>11, <2>1, DefaultEvents
<1>13. ActionFor(KeyOf(override, n)) \in CloseActions(openDialog)
  BY <1>3, <1>11 DEF ActionFor, KeysInv
<1>14. n \in DOMAIN Defaults
  BY <1>3, <1>11, ActionNames
<1> QED
  BY <1>4, <1>12, <1>13, <1>14

LEMMA KeysQuit == ASSUME KeysInv PROVE QuitRemains
<1> SUFFICES ASSUME openDialog = "none", Cardinality(DOMAIN override) <= 1
             PROVE  \E n \in DOMAIN Defaults : Did(EventOf(KeyOf(override, n))) \in {"Quit", "ForceQuit"}
  BY DEF QuitRemains
<1>1. \A p, r \in DOMAIN override \ {} : p = r
  <2>1. DOMAIN override \subseteq Actions
    BY DEF KeysInv, BindTypeOK
  <2>2. IsFiniteSet(DOMAIN override)
    BY <2>1, ActionsFinite, FS_Subset
  <2> QED
    BY <2>2, AtMostOne
<1>2. PICK n \in {1, 2} : /\ KeyOf(override, n) \in {DefaultKey(1), DefaultKey(2)}
                          /\ KeyOf(override, n) \in DOMAIN Table(override)
                          /\ Table(override)[KeyOf(override, n)] = Names[n]
  <2>1. 2 \in {2, 31, 32}
    OBVIOUS
  <2>2. \A m \in 1..33 : Names[m] \in {} => KeyOf(override, m) = Plain("Esc") /\ m # 1 /\ m # 2
    OBVIOUS
  <2> QED
    BY <1>1, <2>1, <2>2, OneIsLeft
<1>3. 1 \in 1..33 /\ 2 \in 1..33 /\ 1 # 22 /\ 2 # 22
  OBVIOUS
<1>4. EventOf(KeyOf(override, n)) = KeyOf(override, n)
  BY <1>2, <1>3, DefaultEvents
<1>5. ActionFor(KeyOf(override, n)) \in {"Quit", "ForceQuit"}
  <2>1. Names[1] = "Quit" /\ Names[2] = "ForceQuit"
    BY DEF Names
  <2> QED
    BY <1>2, <2>1 DEF ActionFor, KeysInv
<1>6. KeyOf(override, n).code \in {"q", "c"}
  <2>1. DefaultKey(1).code = "q" /\ DefaultKey(2).code = "c"
    BY DEF DefaultKey, Codes
  <2> QED
    BY <1>2, <2>1
<1>7. Taken(ActionFor(KeyOf(override, n)))
  BY <1>5 DEF Taken
<1> DEFINE k == KeyOf(override, n)
<1>8. Did(k) = ActionFor(k)
  <2>1. k.code \notin {"Esc", "Down", "Up"}
    BY <1>6
  <2>2. Taken(ActionFor(k))
    BY <1>7
  <2> HIDE DEF k
  <2> QED
    BY <2>1, <2>2 DEF Did
<1>9. n \in DOMAIN Defaults
  BY <1>2, <1>3, ActionNames
<1> QED
  BY <1>4, <1>5, <1>8, <1>9

LEMMA KeysInvalid == ASSUME KeysInv PROVE InvalidIsDefault
<1> DEFINE valid == {a \in DOMAIN override : ParseKeyString(override[a]) # NoKey}
           kept == [a \in valid |-> override[a]]
<1>1. ASSUME NEW n \in 1..33 PROVE KeyOf(override, n) = KeyOf(kept, n)
  <2>1. DOMAIN kept = valid /\ \A a \in valid : kept[a] = override[a]
    OBVIOUS
  <2>2. CASE Defaults[n][1] \in valid
    <3>1. Defaults[n][1] \in DOMAIN override /\ Defaults[n][1] \in DOMAIN kept
      BY <2>1, <2>2
    <3>2. kept[Defaults[n][1]] = override[Defaults[n][1]]
      BY <2>1, <2>2
    <3> HIDE DEF kept, valid
    <3> QED
      BY <3>1, <3>2 DEF KeyOf
  <2>3. CASE Defaults[n][1] \notin valid
    <3>1. Defaults[n][1] \in DOMAIN override => ParseKeyString(override[Defaults[n][1]]) = NoKey
      BY <2>3
    <3>2. Defaults[n][1] \notin DOMAIN kept
      BY <2>1, <2>3
    <3> HIDE DEF kept, valid
    <3> QED
      BY <3>1, <3>2 DEF KeyOf
  <2> QED
    BY <2>2, <2>3
<1> HIDE DEF kept
<1>2. Table(override) = Table(kept)
  BY <1>1, TableSame
<1> QED
  BY <1>2 DEF InvalidIsDefault, KeysInv, kept

LEMMA KeysInitially == BindInit => KeysInv
<1> SUFFICES ASSUME BindInit PROVE KeysInv
  OBVIOUS
<1>1. PICK own \in Files, sudo \in Files : override = Load(ConfigFile(own, sudo))
  BY DEF BindInit, BindStart
<1>2. override \in ConfigFiles
  <2>1. ConfigFile(own, sudo) \in Files
    BY DEF ConfigFile
  <2> QED
    BY <1>1, <2>1, FileAssumption DEF Load, Files
<1>3. DOMAIN override \subseteq Actions
  BY <1>2, FileAssumption
<1>4. /\ bindings = Table(override) /\ openDialog = "none" /\ traceOverlay = FALSE
      /\ focus = "packets" /\ capturing \in BOOLEAN
  BY DEF BindInit, BindStart
<1>5. BindTypeOK
  BY <1>2, <1>3, <1>4 DEF BindTypeOK
<1> QED
  BY <1>4, <1>5 DEF KeysInv

LEMMA KeysStep == KeysInv /\ [BindNext]_bindVars => KeysInv'
<1> SUFFICES ASSUME KeysInv, [BindNext]_bindVars PROVE KeysInv'
  OBVIOUS
<1> USE DEF KeysInv
<1>1. ASSUME NEW key, Press(key) PROVE KeysInv'
  <2>1. override' = override /\ bindings' = bindings
    BY <1>1 DEF Press
  <2>2. focus' \in {"packets", "tree", "hex"}
    <3>1. \A did : FocusAfter(did) \in {"packets", "tree", "hex"}
      BY DEF FocusAfter, Cycle, CycleBack, BindTypeOK
    <3> QED
      BY <1>1, <3>1 DEF Press, BindTypeOK
  <2>3. openDialog' \in {"none", "ipinfo", "container", "ai"}
    <3>1. \A did \in DOMAIN Opened : Opened[did] \in {"none", "ipinfo", "container", "ai"}
      BY DEF Opened
    <3> QED
      BY <1>1, <3>1 DEF Press, BindTypeOK
  <2>4. traceOverlay' \in BOOLEAN
    BY <1>1 DEF Press, BindTypeOK
  <2>5. capturing' \in BOOLEAN
    BY <1>1 DEF Press, BindTypeOK
  <2> QED
    BY <2>1, <2>2, <2>3, <2>4, <2>5 DEF BindTypeOK
<1>2. CASE CaptureBegins
  BY <1>2 DEF CaptureBegins, BindTypeOK
<1>3. CASE UNCHANGED bindVars
  BY <1>3 DEF bindVars, BindTypeOK
<1> QED
  BY <1>1, <1>2, <1>3 DEF BindNext

(* Whatever the file, the keys lead somewhere and out again.               *)
THEOREM KeysLeadSomewhere == BindSpec => []KeysSound
<1>1. KeysInv => KeysSound
  BY KeysDefaults, KeysExit, KeysQuit, KeysInvalid DEF KeysInv, KeysSound
<1> QED
  BY <1>1, KeysInitially, KeysStep, PTL DEF BindSpec
=============================================================================
