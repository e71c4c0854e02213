---------------------------- MODULE DeepDissect ----------------------------
(***************************************************************************)
(* Deep dissection of the selected packet (dissect/worker.rs and the part  *)
(* of app.rs that talks to it).  Selecting a packet shows its fast         *)
(* dissection and asks a worker thread for the deep one; the worker skips  *)
(* requests that are no longer the latest, gives each at most ten seconds, *)
(* restarts tshark after a timeout and gives up after three timeouts in a  *)
(* row.  Each UI loop iteration lists the packets captured since, collects *)
(* what the worker sent, applies the answer to the current request and     *)
(* handles a key.  Starting a capture or opening a file replaces the       *)
(* worker.                                                                 *)
(*                                                                         *)
(* A packet is a pair: the file or session it belongs to and its position  *)
(* in the store.  The filtered view holds the numbers the capture thread   *)
(* gave out; after packets were dropped these run ahead of the positions,  *)
(* and a number ahead of the store names a packet the store has only later.*)
(* The results of a replaced worker are unreachable (its receiver is       *)
(* dropped), so only the current worker is modelled; the request counter   *)
(* is global and goes on.                                                  *)
(***************************************************************************)
EXTENDS Naturals, Sequences

CONSTANTS
  FileLengths,  \* numbers of packets of the files that may be opened
  MaxNumber,    \* bound: numbers the capture thread gives out
  MaxTimeouts,  \* MAX_CONSECUTIVE_TIMEOUTS
  MaxRequests,  \* bound: requests sent in a behaviour
  MaxDocs,      \* bound: worker replacements in a behaviour
  None          \* Option::None

ASSUME LengthAssumption == FileLengths \subseteq Nat
ASSUME TimeoutAssumption == MaxTimeouts \in Nat \ {0}
ASSUME BoundAssumption == MaxNumber \in Nat /\ MaxRequests \in Nat /\ MaxDocs \in Nat
ASSUME NoneAssumption ==
  /\ None \notin Nat
  /\ None \notin [index : Nat, doc : Nat, deep : BOOLEAN]
  /\ None \notin [index : Nat, seq : Nat, spawn : Nat]

VARIABLES
  length,      \* store.len()
  number,      \* the number the capture thread gives the next packet
  filtered,    \* filtered_indices is Some
  ahead,       \* the numbers in filtered_indices that are beyond the store
  selected,    \* selected_packet
  detail,      \* whose detail is shown, and at which depth
  state,       \* dissect_state
  dissectSeq,  \* dissect_seq
  collected,   \* results of drain_deep_results
  uiPc,        \* where the UI loop is
  nextSeq,     \* REQUEST_SEQ
  worker,      \* where worker_loop is; "none" when dissect_worker is None
  alive,       \* DissectWorker.alive
  latestSeq,   \* DissectWorker.latest_seq
  requests,    \* the request channel
  results,     \* the result channel
  current,     \* the request in work, as a sequence of length 0 or 1
  timeouts,    \* consecutive_timeouts
  doc,         \* history: number of the file or session shown
  spawns,      \* history: workers spawned
  asked,       \* history: the last request and the worker it was sent to
  leaked,      \* history: helper threads that outlived their timeout
  dropped,     \* history: a packet of this document was dropped
  missed       \* history: what was selected last was beyond the store

captureVars == <<length, number, filtered, ahead, dropped>>
viewVars == <<selected, detail, state, dissectSeq>>
drainVars == <<collected, uiPc>>
channelVars == <<alive, latestSeq, requests, results>>
workVars == <<worker, current, timeouts>>
historyVars == <<doc, spawns, asked, leaked, missed>>
vars == <<captureVars, viewVars, drainVars, nextSeq, channelVars, workVars, historyVars>>

Request == [index : Nat, seq : Nat, doc : Nat]
Result == [index : Nat, seq : Nat, doc : Nat, ok : BOOLEAN]

TypeOK ==
  /\ length \in Nat /\ number \in Nat /\ ahead \subseteq Nat
  /\ filtered \in BOOLEAN /\ dropped \in BOOLEAN /\ missed \in BOOLEAN
  /\ selected \in Nat \cup {None}
  /\ detail = None \/ detail \in [index : Nat, doc : Nat, deep : BOOLEAN]
  /\ state \in {"Fast", "DeepPending", "Deep"}
  /\ dissectSeq \in Nat
  /\ collected \in Seq(Result)
  /\ uiPc \in {"drain", "listed", "collect", "apply", "key"}
  /\ nextSeq \in Nat
  /\ worker \in {"none", "idle", "busy", "timedOut", "leaving", "gone"}
  /\ alive = (worker \notin {"none", "gone"})
  /\ latestSeq \in Nat
  /\ requests \in Seq(Request)
  /\ results \in Seq(Result)
  /\ current \in Seq(Request) /\ Len(current) = IF worker \in {"busy", "timedOut"} THEN 1 ELSE 0
  /\ timeouts \in 0..MaxTimeouts
  /\ doc \in Nat /\ spawns \in Nat /\ leaked \in Nat
  /\ asked = None \/ asked \in [index : Nat, seq : Nat, spawn : Nat]

(* App::new, with or without deep dissection.                              *)
Init ==
  /\ length = 0 /\ number = 0
  /\ filtered = FALSE /\ ahead = {} /\ dropped = FALSE /\ missed = FALSE
  /\ selected = None /\ detail = None /\ state = "Fast" /\ dissectSeq = 0
  /\ collected = <<>> /\ uiPc = "drain"
  /\ nextSeq = 0
  /\ worker \in {"none", "idle"} /\ alive = (worker = "idle") /\ latestSeq = 0
  /\ requests = <<>> /\ results = <<>> /\ current = <<>> /\ timeouts = 0
  /\ doc = 0 /\ spawns = 0 /\ asked = None /\ leaked = 0

-----------------------------------------------------------------------------
(* Seeded faults: each is a wrong form of the operator named beside it and *)
(* is used by no specification; PROJECT.json says which property finds it. *)

OutdatedOrLatest(q) == q.seq <= latestSeq           \* Outdated
IsCurrentSeqOnly(r) == r.seq = dissectSeq           \* IsCurrent
IsCurrentAny(r) == TRUE                             \* IsCurrent
IsCurrentIndexOnly(r) == r.index = selected         \* IsCurrent
LooksDeadNever == FALSE                             \* LooksDead

-----------------------------------------------------------------------------
(* The worker thread.                                                      *)

Answer(q, good) == [index |-> q.index, seq |-> q.seq, doc |-> q.doc, ok |-> good]

(* recv(): a request that is not the latest any more is skipped.           *)
Outdated(q) == q.seq < latestSeq

Take ==
  /\ worker = "idle"
  /\ requests # <<>>
  /\ requests' = Tail(requests)
  /\ IF Outdated(Head(requests))
       THEN UNCHANGED <<worker, current>>
       ELSE worker' = "busy" /\ current' = <<Head(requests)>>
  /\ UNCHANGED <<captureVars, viewVars, drainVars, nextSeq, alive, latestSeq, results, timeouts, historyVars>>

(* dissect_with_timeout returned within ten seconds, with a detail or with *)
(* an error.                                                               *)
Finish(good) ==
  /\ worker = "busy"
  /\ results' = Append(results, Answer(current[1], good))
  /\ timeouts' = 0
  /\ worker' = "idle"
  /\ current' = <<>>
  /\ UNCHANGED <<captureVars, viewVars, drainVars, nextSeq, alive, latestSeq, requests, historyVars>>

(* It did not: the helper thread is left behind and the error is sent.     *)
TimeOut ==
  /\ worker = "busy"
  /\ results' = Append(results, Answer(current[1], FALSE))
  /\ leaked' = leaked + 1
  /\ worker' = "timedOut"
  /\ UNCHANGED <<captureVars, viewVars, drainVars, nextSeq, alive, latestSeq, requests, current, timeouts,
                 doc, spawns, asked, missed>>

(* After MAX_CONSECUTIVE_TIMEOUTS the worker leaves with one more error;   *)
GivesUp == timeouts + 1 >= MaxTimeouts

GiveUp ==
  /\ worker = "timedOut"
  /\ GivesUp
  /\ timeouts' = timeouts + 1
  /\ results' = Append(results, Answer(current[1], FALSE))
  /\ worker' = "leaving"
  /\ current' = <<>>
  /\ UNCHANGED <<captureVars, viewVars, drainVars, nextSeq, alive, latestSeq, requests, historyVars>>

(* before that it restarts tshark, which may fail.                         *)
Restart ==
  /\ worker = "timedOut"
  /\ ~GivesUp
  /\ timeouts' = timeouts + 1
  /\ \/ worker' = "idle" /\ UNCHANGED results
     \/ worker' = "leaving" /\ results' = Append(results, Answer(current[1], FALSE))
  /\ current' = <<>>
  /\ UNCHANGED <<captureVars, viewVars, drainVars, nextSeq, alive, latestSeq, requests, historyVars>>

(* The thread clears alive after worker_loop has returned.                 *)
Leave ==
  /\ worker = "leaving"
  /\ worker' = "gone"
  /\ alive' = FALSE
  /\ UNCHANGED <<captureVars, viewVars, drainVars, nextSeq, latestSeq, requests, results, current, timeouts,
                 historyVars>>

WorkerNext ==
  \/ Take
  \/ \E good \in BOOLEAN : Finish(good)
  \/ TimeOut \/ GiveUp \/ Restart \/ Leave

(* rtshark.read() of a helper thread that was left behind returns.         *)
HelperReturns ==
  /\ leaked > 0
  /\ leaked' = leaked - 1
  /\ UNCHANGED <<captureVars, viewVars, drainVars, nextSeq, channelVars, workVars, doc, spawns, asked,
                 missed>>

-----------------------------------------------------------------------------
(* drain_deep_results.                                                     *)

(* try_recv until the channel is empty, and then is_alive.                 *)
CollectOne ==
  /\ uiPc = "collect"
  /\ results # <<>>
  /\ collected' = Append(collected, Head(results))
  /\ results' = Tail(results)
  /\ UNCHANGED <<captureVars, viewVars, uiPc, nextSeq, alive, latestSeq, requests, workVars, historyVars>>

CollectEnd ==
  /\ uiPc = "collect"
  /\ worker # "none"
  /\ results = <<>>
  /\ uiPc' = "apply"
  /\ UNCHANGED <<captureVars, viewVars, collected, nextSeq, channelVars, workVars, historyVars>>

CollectNothing ==
  /\ uiPc = "collect"
  /\ worker = "none"
  /\ uiPc' = "key"
  /\ UNCHANGED <<captureVars, viewVars, collected, nextSeq, channelVars, workVars, historyVars>>

(* A result counts when it answers the current request and its packet is   *)
(* still selected.  A dead worker ends the wait; results apply after that. *)
IsCurrent(r) == r.seq = dissectSeq /\ r.index = selected
LooksDead == ~alive

Apply ==
  /\ uiPc = "apply"
  /\ LET settled == IF LooksDead /\ state = "DeepPending" THEN "Fast" ELSE state
         counts == {k \in DOMAIN collected : IsCurrent(collected[k])}
         details == {k \in counts : collected[k].ok}
     IN /\ \/ counts = {} /\ state' = settled
           \/ \E k \in counts :
                /\ \A j \in counts : j <= k
                /\ state' = IF collected[k].ok THEN "Deep" ELSE "Fast"
        /\ \/ details = {} /\ UNCHANGED detail
           \/ \E k \in details :
                /\ \A j \in details : j <= k
                /\ detail' = [index |-> collected[k].index, doc |-> collected[k].doc, deep |-> TRUE]
  /\ collected' = <<>>
  /\ uiPc' = "key"
  /\ UNCHANGED <<captureVars, selected, dissectSeq, nextSeq, channelVars, workVars, historyVars>>

-----------------------------------------------------------------------------
(* select_packet: the keys, and its other callers.                         *)

(* select_packet(i) of packet i of document d, which is in the store: the  *)
(* fast detail at once, and a request when the worker lives.  request()    *)
(* publishes the sequence number before it sends, and ignores a closed     *)
(* channel.                                                                *)
CanAsk == worker # "none" /\ alive

SelectPacket(i, d) ==
  /\ selected' = i
  /\ missed' = FALSE
  /\ detail' = [index |-> i, doc |-> d, deep |-> FALSE]
  /\ IF CanAsk
       THEN /\ nextSeq < MaxRequests
            /\ dissectSeq' = nextSeq
            /\ nextSeq' = nextSeq + 1
            /\ latestSeq' = nextSeq
            /\ requests' = IF worker = "leaving" \/ worker = "gone" THEN requests
                           ELSE Append(requests, [index |-> i, seq |-> nextSeq, doc |-> d])
            /\ asked' = [index |-> i, seq |-> nextSeq, spawn |-> spawns]
            /\ state' = "DeepPending"
       ELSE /\ state' = "Fast"
            /\ UNCHANGED <<dissectSeq, nextSeq, latestSeq, requests, asked>>

(* select_packet(i) of a number beyond the store: only selected_packet     *)
(* moves, and the detail of before stays.                                  *)
SelectMissing(i) ==
  /\ selected' = i
  /\ missed' = TRUE
  /\ UNCHANGED <<detail, state, dissectSeq, nextSeq, latestSeq, requests, asked>>

(* What select_packet does for a row of the view.                          *)
SelectRow ==
  \/ \E i \in 0..(length - 1) : SelectPacket(i, doc)
  \/ \E i \in ahead : SelectMissing(i)

NoSelection == UNCHANGED <<viewVars, missed, nextSeq, latestSeq, requests, asked>>

(* What no call of select_packet touches.                                  *)
SelectionKeeps == <<collected, alive, results, workVars, doc, spawns, leaked>>

-----------------------------------------------------------------------------
(* drain_capture_packets.                                                  *)

(* try_recv returns the packet numbered n, those before it were dropped at *)
(* the full channel; a filter in force takes it or not.  A capture that is *)
(* stopped is one that nothing is received from until the next; a file     *)
(* ends it for good (file_path keeps the interface picker shut).           *)
Receive(n) ==
  /\ uiPc \in {"drain", "listed"}
  /\ doc = 0
  /\ number <= n
  /\ number' = n + 1
  /\ length' = length + 1
  /\ \E taken \in SUBSET (IF filtered THEN {n} ELSE {}) :
       ahead' = {i \in ahead \cup taken : i >= length'}
  /\ dropped' = (dropped \/ n > number)
  /\ uiPc' = "listed"
  /\ UNCHANGED <<filtered, viewVars, collected, nextSeq, channelVars, workVars, historyVars>>

(* The drain ends, and follows the tail when it listed a packet.           *)
DrainEnd ==
  /\ uiPc \in {"drain", "listed"}
  /\ NoSelection \/ (uiPc = "listed" /\ SelectRow)
  /\ uiPc' = "collect"
  /\ UNCHANGED <<captureVars, SelectionKeeps>>

-----------------------------------------------------------------------------
(* The keys.                                                               *)

Idle ==
  /\ uiPc = "key"
  /\ uiPc' = "drain"
  /\ UNCHANGED <<captureVars, viewVars, collected, nextSeq, channelVars, workVars, historyVars>>

(* A movement key.                                                         *)
Move ==
  /\ uiPc = "key"
  /\ SelectRow
  /\ uiPc' = "drain"
  /\ UNCHANGED <<captureVars, SelectionKeeps>>

(* apply_filter lists the store's packets that match anew and selects the  *)
(* first, if there is one.                                                 *)
ApplyFilter ==
  /\ uiPc = "key"
  /\ filtered' = TRUE
  /\ ahead' = {}
  /\ \/ \E i \in 0..(length - 1) : SelectPacket(i, doc)
     \/ /\ selected' = None
        /\ missed' = FALSE
        /\ UNCHANGED <<detail, state, dissectSeq, nextSeq, latestSeq, requests, asked>>
  /\ uiPc' = "drain"
  /\ UNCHANGED <<length, number, dropped, SelectionKeeps>>

(* clear_filter, and a filter that does not parse.                         *)
ClearFilter ==
  /\ uiPc = "key"
  /\ filtered' = FALSE
  /\ ahead' = {}
  /\ uiPc' = "drain"
  /\ UNCHANGED <<length, number, dropped, viewVars, collected, nextSeq, channelVars, workVars,
                 historyVars>>

(* try_spawn: a new worker with new channels, or none.                     *)
Spawn(started) ==
  /\ spawns < MaxDocs
  /\ spawns' = spawns + 1
  /\ worker' = IF started THEN "idle" ELSE "none"
  /\ alive' = started
  /\ results' = <<>>
  /\ current' = <<>>
  /\ timeouts' = 0

(* start_capture, which no file's packets precede: the thread numbers on   *)
(* from the store's length; the worker is replaced and the detail stays.   *)
StartCapture(started) ==
  /\ uiPc = "key"
  /\ doc = 0
  /\ number' = length
  /\ Spawn(started)
  /\ latestSeq' = 0
  /\ requests' = <<>>
  /\ uiPc' = "drain"
  /\ UNCHANGED <<length, filtered, ahead, dropped, viewVars, collected, nextSeq, doc, asked, leaked,
                 missed>>

(* do_open_file of a file of n packets replaces the document, the filter   *)
(* and the worker and selects the first packet of a file that has one.     *)
OpenFile(n, started) ==
  /\ uiPc = "key"
  /\ Spawn(started)
  /\ doc' = doc + 1
  /\ length' = n
  /\ number' = 0
  /\ filtered' = FALSE /\ ahead' = {}
  /\ dropped' = FALSE /\ missed' = FALSE
  /\ selected' = IF n = 0 THEN None ELSE 0
  /\ detail' = IF n = 0 THEN None ELSE [index |-> 0, doc |-> doc', deep |-> FALSE]
  /\ IF started /\ n > 0
       THEN /\ nextSeq < MaxRequests
            /\ state' = "DeepPending"
            /\ dissectSeq' = nextSeq
            /\ nextSeq' = nextSeq + 1
            /\ latestSeq' = nextSeq
            /\ requests' = <<[index |-> 0, seq |-> nextSeq, doc |-> doc']>>
            /\ asked' = [index |-> 0, seq |-> nextSeq, spawn |-> spawns']
       ELSE /\ state' = "Fast"
            /\ latestSeq' = 0
            /\ requests' = <<>>
            /\ UNCHANGED <<dissectSeq, nextSeq, asked>>
  /\ uiPc' = "drain"
  /\ UNCHANGED <<collected, leaked>>

UiNext ==
  \/ \E n \in 0..(MaxNumber - 1) : Receive(n)
  \/ DrainEnd
  \/ CollectOne \/ CollectEnd \/ CollectNothing \/ Apply
  \/ Idle \/ Move \/ ApplyFilter \/ ClearFilter
  \/ \E started \in BOOLEAN : StartCapture(started)
  \/ \E started \in BOOLEAN, n \in FileLengths : OpenFile(n, started)

Next == WorkerNext \/ UiNext \/ HelperReturns

Spec == Init /\ [][Next]_vars

(***************************************************************************)
(* The operating system runs both threads, and recv_timeout makes the      *)
(* worker come back within ten seconds.                                    *)
(***************************************************************************)
FairSpec == Spec /\ WF_vars(WorkerNext) /\ WF_vars(UiNext)

-----------------------------------------------------------------------------
(* Properties.                                                             *)

InWork(n) ==
  \/ \E i \in 1..Len(requests) : requests[i].seq = n
  \/ \E i \in 1..Len(current) : current[i].seq = n

(* The last request went to the worker in place, for the packet selected.  *)
AskedForThis ==
  /\ asked # None
  /\ asked.spawn = spawns
  /\ asked.index = selected

(* The detail pane shows a packet of the current document, and that of the *)
(* selected packet once the store has it, whatever the worker answers late *)
(* and whenever the document changes (select_packet, do_open_file,         *)
(* drain_deep_results); the one exception is a row that was selected by a  *)
(* number beyond the store, which no view holds before a packet is dropped.*)
DetailOfSelected ==
  /\ detail # None => detail.doc = doc
  /\ selected # None /\ selected < length /\ ~missed => detail # None /\ detail.index = selected
  /\ missed => dropped

(* A deep result is put on the screen only for the packet that is selected *)
(* at that moment, in the document that is open at that moment.            *)
DeepOnlyForSelection ==
  [][detail' # detail /\ detail' # None /\ detail'.deep =>
       /\ selected # None /\ selected < length
       /\ detail'.index = selected /\ detail'.doc = doc]_vars

(* While the request for the selected packet is queued or in work, the     *)
(* state says so: an answer to an earlier request does not end the wait    *)
(* (result.seq is compared with dissect_seq).                              *)
InProgressShown ==
  AskedForThis /\ InWork(asked.seq) /\ worker \in {"idle", "busy"} => state = "DeepPending"

(* A request whose packet stays selected and whose worker stays in place   *)
(* is answered: the worker never skips the newest request, and a worker    *)
(* that dies with it is noticed.                                           *)
PendingAnswered ==
  (state = "DeepPending" /\ AskedForThis) ~> (state # "DeepPending" \/ ~AskedForThis)

(* A worker that is gone does not leave the user waiting, not even when    *)
(* the selection has moved since, unless it is replaced first.             *)
DeadWorkerNoticed ==
  (state = "DeepPending" /\ worker = "gone") ~> (state # "DeepPending" \/ worker # "gone")

(* No wait for a deep dissection is for ever while its worker stays.       *)
WaitEnds == PendingAnswered /\ DeadWorkerNoticed

(* What the documentation and the comments say and the code does not do.   *)

(* docs/tuishark.md: DISSECTING... is shown while a result is pending,     *)
(* which replaces it on the next tick.                                     *)
PendingResolves == state = "DeepPending" ~> state # "DeepPending"

(* The detail is that of the selected packet whatever was dropped: it is   *)
(* not.  select_packet keeps the old detail for a number beyond the store, *)
(* and the store grows past that number while the tail is not followed.    *)
DetailAfterDrops ==
  selected # None /\ selected < length => detail # None /\ detail.index = selected

(* worker.rs: the helper threads that leak are bounded by                  *)
(* MAX_CONSECUTIVE_TIMEOUTS.                                               *)
LeaksBounded == leaked <= MaxTimeouts
=============================================================================
