----------------------------- MODULE AiOverlay -----------------------------
(***************************************************************************)
(* The AI explanation overlay (app.rs, the AI overlay methods), its worker *)
(* thread (ai/worker.rs) and the cache they share (AiCache).               *)
(*                                                                         *)
(* The UI thread asks the worker about the selected packet or field over   *)
(* an unbounded channel and goes on: the user moves the cursor, asks       *)
(* again, closes the overlay, opens another file; a capture that follows   *)
(* its tail moves the selection; a deep dissection replaces the fields.    *)
(* The worker answers, fails, or skips a question that is not the newest.  *)
(* The AI is enabled in the configuration; without it the overlay only     *)
(* shows how to set it up.                                                 *)
(***************************************************************************)
EXTENDS AiCache

CONSTANTS
  Packets,     \* store indices, the same in every document
  Bare,        \* packets whose dissection has no layer
  Fields,      \* layers and fields the cursor of the detail tree can be on
  TopField,    \* the first layer
  Whole,       \* AiRequestKind::WholePacket
  AutoScroll,  \* config.display.auto_scroll
  MaxAsked,    \* bound: requests in a behaviour
  MaxDocs,     \* bound: documents in a behaviour, a capture and then files
  None

ASSUME PacketAssumption == 0 \in Packets /\ Bare \subseteq Packets /\ None \notin Packets
ASSUME FieldAssumption == TopField \in Fields /\ Whole \notin Fields
ASSUME ScrollAssumption == AutoScroll \in BOOLEAN
ASSUME BoundAssumption == MaxAsked \in Nat /\ MaxDocs \in Nat \ {0}

VARIABLES
  overlay,   \* show_ai_overlay
  selected,  \* selected_packet
  cursor,    \* selected_layer and selected_field; Whole when there is none
  deep,      \* the detail shown is the deep one
  doc,       \* history: which document the store holds
  capture,   \* live_capture and capture_state: "none", "running" or "dead"
  follow,    \* auto_scroll
  ai,        \* ai_state
  aiSeq,     \* ai_seq, which is also the worker's latest_seq
  cache,     \* ai_cache
  requests,  \* the request channel
  working,   \* the request being executed, as a sequence of length 0 or 1
  results,   \* the result channel
  asked,     \* history: what the user asked for last
  sent       \* history: what the last request is about

shown == <<selected, cursor, deep>>
tailVars == <<capture, follow>>
uiVars == <<overlay, shown, doc, tailVars, asked>>
workVars == <<requests, working, sent>>
vars == <<uiVars, ai, aiSeq, cache, workVars, results>>

Slots == Fields \cup {Whole}

(* An explanation is known by what it was made from: the document, the     *)
(* packet and the kind of the request.  A field is known by its number.    *)
Text == [doc : 1..MaxDocs, packet : Packets, kind : Slots]
Request == [seq : 1..MaxAsked, text : Text]
Response == [seq : 1..MaxAsked, text : Text, ok : BOOLEAN]

Idle == [phase |-> "Idle"]
Loading(n) == [phase |-> "Loading", seq |-> n]
Ready(t) == [phase |-> "Ready", text |-> t]
Failed == [phase |-> "Error"]

AiState == {Idle, Failed} \cup {Loading(n) : n \in 1..MaxAsked} \cup {Ready(t) : t \in Text}

FirstSlot(p) == IF p \in Bare THEN Whole ELSE TopField

TypeOK ==
  /\ overlay \in BOOLEAN /\ deep \in BOOLEAN
  /\ selected \in Packets \cup {None}
  /\ cursor \in Slots
  /\ doc \in 1..MaxDocs
  /\ capture \in {"none", "running", "dead"} /\ follow \in BOOLEAN
  /\ ai \in AiState
  /\ aiSeq \in 0..MaxAsked
  /\ Cached(cache) \subseteq Packets
  /\ requests \in Seq(Request) /\ results \in Seq(Response)
  /\ working \in Seq(Request) /\ Len(working) <= 1
  /\ asked \in Text \cup {None} /\ sent \in Text \cup {None}

(* The packets of a capture that was stopped are on the screen.            *)
Init ==
  /\ overlay = FALSE /\ capture = "none" /\ follow = AutoScroll /\ doc = 1
  /\ selected \in Packets /\ cursor = FirstSlot(selected) /\ deep = FALSE
  /\ ai = Idle /\ aiSeq = 0 /\ cache = Empty
  /\ requests = <<>> /\ working = <<>> /\ results = <<>>
  /\ asked = None /\ sent = None

-----------------------------------------------------------------------------
(* Seeded faults, each a wrong form of the operator named beside it; used  *)
(* by no specification.                                                    *)
NextSeqForgotten == aiSeq                                 \* NextSeq
IsCurrentAny(p) == TRUE                                   \* IsCurrent
IsLatestAny(n) == TRUE                                    \* IsLatest
IsStaleOrNewest(n) == n <= aiSeq                          \* IsStale
AnswerKeyCursor(t) == [key |-> t.packet, slot |-> cursor] \* AnswerKey

-----------------------------------------------------------------------------
(* Asking.                                                                 *)

NextSeq == aiSeq + 1

(* The cache is asked first; the lookup counts as a use either way.  On a  *)
(* miss a request goes out.                                                *)
Explain(p, k) ==
  /\ asked' = [doc |-> doc, packet |-> p, kind |-> k]
  /\ cache' = Get(cache, p)
  /\ IF Has(cache, p, k)
       THEN ai' = Ready(cache.entries[p][k]) /\ UNCHANGED <<aiSeq, requests, sent>>
       ELSE /\ aiSeq < MaxAsked
            /\ aiSeq' = NextSeq
            /\ requests' = Append(requests, [seq |-> NextSeq, text |-> asked'])
            /\ sent' = asked'
            /\ ai' = Loading(NextSeq)
  /\ UNCHANGED <<working, results>>

(* open_ai_overlay, on_ai_packet_changed                                   *)
OpenOverlay ==
  /\ ~overlay
  /\ overlay' = TRUE
  /\ IF selected = None
       THEN ai' = Idle /\ UNCHANGED <<aiSeq, cache, workVars, results, asked>>
       ELSE Explain(selected, Whole)
  /\ UNCHANGED <<shown, doc, tailVars>>

CloseOverlay ==
  /\ overlay
  /\ overlay' = FALSE
  /\ UNCHANGED <<shown, doc, tailVars, asked, ai, aiSeq, cache, workVars, results>>

(* Space: fire_ai_request for the layer or field under the cursor.         *)
AskSelected ==
  /\ overlay
  /\ selected # None
  /\ Explain(selected, cursor)
  /\ UNCHANGED <<overlay, shown, doc, tailVars>>

(* The effect of select_packet here: the fast dissection replaces the      *)
(* detail and the cursor goes to the first layer.                          *)
Select(p) ==
  /\ selected' = p
  /\ cursor' = FirstSlot(p)
  /\ deep' = FALSE

(* Moving by hand ends the following of a capture's tail.                  *)
MoveTo(p) ==
  /\ Select(p)
  /\ follow' = (follow /\ capture # "running")
  /\ UNCHANGED capture

(* NextPacket and PrevPacket in the overlay; at the end of the list the    *)
(* same packet is selected once more.                                      *)
MovePacket(p) ==
  /\ overlay
  /\ MoveTo(p)
  /\ Explain(p, Whole)
  /\ UNCHANGED <<overlay, doc>>

(* The same keys when the filter hides every packet.                       *)
MoveNowhere ==
  /\ overlay
  /\ selected = None
  /\ ai' = Idle
  /\ UNCHANGED <<uiVars, aiSeq, cache, workVars, results>>

-----------------------------------------------------------------------------
(* What else changes the selection, the detail or the document.            *)

aiVars == <<ai, aiSeq, cache, workVars, results>>

(* Up and Down in the detail tree, inside the overlay and outside.         *)
MoveCursor(f) ==
  /\ cursor # Whole
  /\ cursor' = f
  /\ UNCHANGED <<overlay, selected, deep, doc, tailVars, asked, aiVars>>

(* drain_deep_results                                                      *)
DeepArrives ==
  /\ selected # None /\ ~deep
  /\ deep' = TRUE
  /\ cursor' = FirstSlot(selected)
  /\ UNCHANGED <<overlay, selected, doc, tailVars, asked, aiVars>>

(* drain_capture_packets: new packets move the selection when the capture  *)
(* is followed, overlay or not.                                            *)
FollowTail(p) ==
  /\ capture # "none" /\ follow
  /\ Select(p)

DrainCapture ==
  /\ \/ \E p \in Packets : FollowTail(p)
     \/ UNCHANGED shown
  /\ capture' \in IF capture = "running" THEN {"running", "dead"} ELSE {capture}
  /\ UNCHANGED <<overlay, doc, follow, asked, aiVars>>

SelectRow(p) ==
  /\ ~overlay
  /\ MoveTo(p)
  /\ UNCHANGED <<overlay, doc, asked, aiVars>>

(* A filter selects its first match; one that matches nothing leaves the   *)
(* detail of the packet it deselects.                                      *)
ApplyFilter ==
  /\ ~overlay
  /\ \/ \E p \in Packets : Select(p)
     \/ selected' = None /\ UNCHANGED <<cursor, deep>>
  /\ UNCHANGED <<overlay, doc, tailVars, asked, aiVars>>

ToggleAutoScroll ==
  /\ ~overlay /\ capture = "running"
  /\ follow' = ~follow
  /\ UNCHANGED <<overlay, shown, doc, capture, asked, aiVars>>

(* start_capture: the new packets go behind those of the store.  There is  *)
(* none once a file has been opened.                                       *)
StartCapture ==
  /\ ~overlay /\ capture # "running" /\ doc = 1
  /\ capture' = "running" /\ follow' = AutoScroll
  /\ cache' = Empty /\ ai' = Idle
  /\ UNCHANGED <<overlay, shown, doc, asked, aiSeq, workVars, results>>

(* stop_capture drains first.  Opening a file that cannot be read does no  *)
(* more than this.                                                         *)
StopCapture ==
  /\ ~overlay /\ capture = "running"
  /\ \/ \E p \in Packets : FollowTail(p)
     \/ UNCHANGED shown
  /\ capture' = "none"
  /\ UNCHANGED <<overlay, doc, follow, asked, aiVars>>

(* do_open_file, of a file with packets: the worker and its channels stay  *)
(* as they are.                                                            *)
OpenFile ==
  /\ ~overlay /\ doc < MaxDocs
  /\ doc' = doc + 1 /\ capture' = "none"
  /\ cache' = Empty /\ ai' = Idle
  /\ Select(0)
  /\ UNCHANGED <<overlay, follow, asked, aiSeq, workVars, results>>

-----------------------------------------------------------------------------
(* drain_ai_results: one response.                                         *)

IsCurrent(p) == selected = p
IsLatest(n) == n >= aiSeq
AnswerKey(t) == [key |-> t.packet, slot |-> t.kind]

DrainOne ==
  /\ results # <<>>
  /\ LET r == Head(results)
         k == AnswerKey(r.text)
         show == IsCurrent(r.text.packet) /\ IsLatest(r.seq)
     IN /\ cache' = IF r.ok THEN Insert(cache, k.key, k.slot, r.text) ELSE cache
        /\ ai' = IF ~show THEN ai ELSE IF r.ok THEN Ready(r.text) ELSE Failed
  /\ results' = Tail(results)
  /\ UNCHANGED <<uiVars, aiSeq, workVars>>

-----------------------------------------------------------------------------
(* The worker thread.                                                      *)

(* A request that is not the newest any more is skipped.                   *)
IsStale(n) == n < aiSeq

Take ==
  /\ requests # <<>> /\ working = <<>>
  /\ requests' = Tail(requests)
  /\ working' = IF IsStale(Head(requests).seq) THEN <<>> ELSE <<Head(requests)>>
  /\ UNCHANGED <<uiVars, ai, aiSeq, cache, results, sent>>

(* execute_request returns: an answer, or an HTTP, transport or format     *)
(* error or its timeout.                                                   *)
Answer(ok) ==
  /\ working # <<>>
  /\ results' = Append(results, [seq |-> working[1].seq, text |-> working[1].text, ok |-> ok])
  /\ working' = <<>>
  /\ UNCHANGED <<uiVars, ai, aiSeq, cache, requests, sent>>

WorkerNext == Take \/ \E ok \in BOOLEAN : Answer(ok)

KeyNext ==
  \/ OpenOverlay \/ CloseOverlay \/ AskSelected
  \/ \E p \in Packets : MovePacket(p) \/ SelectRow(p)
  \/ \E f \in Fields : MoveCursor(f)
  \/ MoveNowhere \/ ApplyFilter \/ ToggleAutoScroll
  \/ StartCapture \/ StopCapture \/ OpenFile

Next ==
  \/ KeyNext
  \/ DeepArrives
  \/ DrainCapture
  \/ DrainOne
  \/ WorkerNext

Spec == Init /\ [][Next]_vars

(* The loop drains at least every 33 ms; a request ends with its timeout.  *)
FairSpec == Spec /\ WF_vars(DrainOne) /\ WF_vars(WorkerNext)

-----------------------------------------------------------------------------
(* Properties.                                                             *)

(* An explanation is cached under the packet index and the field that it   *)
(* was asked about, wherever cursor and selection have moved since         *)
(* (drain_ai_results stores answers whether they are shown or not); of     *)
(* which document the index was, CachedAboutDocument asks.                 *)
CachedUnderItsKey ==
  \A p \in Cached(cache) : \A k \in DOMAIN cache.entries[p] :
    cache.entries[p][k].packet = p /\ cache.entries[p][k].kind = k

(* The overlay and its cache are in a state of theirs.                     *)
OverlaySound == TypeOK /\ CachedUnderItsKey

(* What the pane changes to is about the packet that bears the index       *)
(* selected at that moment (drain_ai_results compares packet_index).       *)
AnswerForSelection == ai' # ai /\ ai'.phase = "Ready" => ai'.text.packet = selected'

(* While the overlay waits for the answer to one question, what takes the  *)
(* place of the wait is about that packet and that field; and when it is an*)
(* answer that arrives, it is the one to that question, which was asked    *)
(* about the document shown.                                               *)
Arrives == results # <<>> /\ results' = Tail(results)

LoadingNotDisplaced ==
  ai.phase = "Loading" /\ ai'.phase = "Ready" =>
    /\ asked'.packet = ai'.text.packet /\ asked'.kind = ai'.text.kind
    /\ Arrives => ai'.text = asked' /\ asked'.doc = doc'

(* An answer that arrives is shown only if it is that to the last question *)
(* sent (ai_seq, the worker's latest_seq).  That question may be one about *)
(* a document that was left since, when nothing has been asked about the   *)
(* present one: AnswerAboutDocument.                                       *)
LastSentShown == Arrives /\ ai' # ai /\ ai'.phase = "Ready" => ai'.text = sent

(* What may take the place of what, whenever answers arrive.               *)
AnswerInPlace == [][AnswerForSelection /\ LoadingNotDisplaced /\ LastSentShown]_vars

(* A question that has been sent is answered, or fails, or another one     *)
(* takes its place, unless the selection leaves its packet meanwhile: the  *)
(* worker does not skip it and the drain does not refuse it.               *)
QuestionSent(n) == ai = Loading(n) /\ \E i \in 1..Len(requests) : requests[i].seq = n

PendingAnswered ==
  \A n \in 1..MaxAsked :
    QuestionSent(n) ~> (ai # Loading(n) \/ selected # asked.packet)

(* What the documentation says and the code does not do.                   *)

(* drain_ai_results: only the latest request updates the display.          *)
LatestAskedShown ==
  [][ai' # ai /\ ai'.phase = "Ready" => ai'.text.kind = asked'.kind]_vars

(* What the pane shows is about the document on the screen: it is not.     *)
(* do_open_file neither passes a number over nor replaces the worker, so an*)
(* answer about the former document's packet 0 is put up for the packet 0  *)
(* of this one, unless a question has been sent since.                     *)
AnswerAboutDocument == ai.phase = "Ready" => ai.text.doc = doc

(* ai-packet-overlay.md: what is cached are explanations of the packets at *)
(* these indices, to which navigating back leads.                          *)
CachedAboutDocument ==
  \A p \in Cached(cache) : \A k \in DOMAIN cache.entries[p] :
    cache.entries[p][k].doc = doc
=============================================================================
