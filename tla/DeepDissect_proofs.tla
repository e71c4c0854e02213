------------------------- MODULE DeepDissect_proofs -------------------------
(***************************************************************************)
(* Proofs about DeepDissect, for any captures, files and bounds; and below *)
(* about the dissectors of DeepPipe, for any frames and any number of them.*)
(***************************************************************************)
EXTENDS DeepDissect, DeepPipe, SequenceTheorems, TLAPS

(* Requests and answers about one of the n packets of document d.          *)
Asks(d, n) == [index : 0..(n - 1), seq : Nat, doc : {d}]
Says(d, n) == [index : 0..(n - 1), seq : Nat, doc : {d}, ok : BOOLEAN]

(* Whatever is under way is about a packet in the store of the document    *)
(* shown: its predecessors' channels went with their worker.               *)
UnderWay ==
  /\ requests \in Seq(Asks(doc, length)) /\ current \in Seq(Asks(doc, length))
  /\ results \in Seq(Says(doc, length)) /\ collected \in Seq(Says(doc, length))

(* Nothing is collected between a drain and the next; nothing comes from a *)
(* worker that is not there.                                               *)
Collecting ==
  /\ uiPc = "key" => collected = <<>>
  /\ worker = "none" => collected = <<>> /\ results = <<>>

Kept ==
  /\ length \in Nat /\ number \in Nat /\ ahead \subseteq Nat
  /\ filtered \in BOOLEAN /\ dropped \in BOOLEAN /\ missed \in BOOLEAN
  /\ selected \in Nat \cup {None}
  /\ detail = None \/ detail \in [index : Nat, doc : Nat, deep : BOOLEAN]
  /\ state \in {"Fast", "DeepPending", "Deep"}
  /\ dissectSeq \in Nat /\ nextSeq \in Nat /\ latestSeq \in Nat
  /\ doc \in Nat /\ spawns \in Nat /\ leaked \in Nat
  /\ asked = None \/ asked \in [index : Nat, seq : Nat, spawn : Nat]

Working ==
  /\ uiPc \in {"drain", "listed", "collect", "apply", "key"}
  /\ worker \in {"none", "idle", "busy", "timedOut", "leaving", "gone"}
  /\ alive = (worker \notin {"none", "gone"})
  /\ Len(current) = IF worker \in {"busy", "timedOut"} THEN 1 ELSE 0
  /\ timeouts \in 0..MaxTimeouts
  /\ timeouts = MaxTimeouts => worker \in {"leaving", "gone"}

(* Numbers run ahead of the store only after a packet was dropped, and what*)
(* is selected otherwise is in the store.                                  *)
Listed ==
  /\ \A i \in ahead : i >= length
  /\ ~dropped => ahead = {} /\ (doc = 0 => number = length)
  /\ missed => dropped
  /\ selected # None /\ ~missed => selected < length

Base == Kept /\ Working /\ UnderWay /\ Collecting /\ Listed

LEMMA Numbers == None \notin Nat
  BY NoneAssumption

LEMMA Widened ==
  ASSUME NEW S, NEW T, S \subseteq T, NEW s \in Seq(S)
  PROVE  s \in Seq(T)
OBVIOUS

LEMMA BaseInitially == Init => Base
<1> SUFFICES ASSUME Init PROVE Base
  OBVIOUS
<1>1. Kept /\ Collecting /\ Listed
  BY DEF Init, Kept, Collecting, Listed
<1>2. Working
  <2>1. alive = (worker \notin {"none", "gone"})
    BY DEF Init
  <2>2. Len(current) = 0
    BY DEF Init
  <2> QED
    BY <2>1, <2>2, TimeoutAssumption DEF Init, Working
<1>3. UnderWay
  BY EmptySeq DEF Init, UnderWay
<1> QED
  BY <1>1, <1>2, <1>3 DEF Base

(* Answer of the worker to the request it is at.                           *)
LEMMA AnswerSays ==
  ASSUME Base, worker \in {"busy", "timedOut"}, NEW good \in BOOLEAN
  PROVE  current[1] \in Asks(doc, length) /\ Answer(current[1], good) \in Says(doc, length)
<1>1. Len(current) = 1 /\ current \in Seq(Asks(doc, length))
  BY DEF Base, Working, UnderWay
<1>2. current[1] \in Asks(doc, length)
  BY <1>1
<1> QED
  BY <1>2 DEF Answer, Asks, Says

LEMMA WorkerBase ==
  ASSUME Base, WorkerNext
  PROVE  Base'
<1>1. Kept'
  <2>1. /\ UNCHANGED <<captureVars, viewVars, nextSeq, latestSeq, doc, spawns, asked, missed>>
        /\ leaked' \in {leaked, leaked + 1}
    BY DEF WorkerNext, Take, Finish, TimeOut, GiveUp, Restart, Leave, historyVars
  <2> QED
    BY <2>1 DEF Base, Kept, captureVars, viewVars
<1>2. doc' = doc /\ length' = length /\ collected' = collected /\ uiPc' = uiPc
  BY DEF WorkerNext, Take, Finish, TimeOut, GiveUp, Restart, Leave, captureVars, historyVars, drainVars
<1>9. Listed'
  <2>1. UNCHANGED <<captureVars, viewVars, doc, missed>>
    BY DEF WorkerNext, Take, Finish, TimeOut, GiveUp, Restart, Leave, historyVars
  <2> QED
    BY <2>1 DEF Base, Listed, captureVars, viewVars
<1>3. CASE Take
  <2>1. requests \in Seq(Asks(doc, length)) /\ requests # <<>>
    BY <1>3 DEF Base, UnderWay, Take
  <2>2. requests' \in Seq(Asks(doc, length)) /\ Head(requests) \in Asks(doc, length)
    BY <1>3, <2>1, HeadTailProperties DEF Take
  <2>3. current' \in Seq(Asks(doc, length))
    <3>1. CASE Outdated(Head(requests))
      BY <1>3, <3>1 DEF Base, UnderWay, Take
    <3>2. CASE ~Outdated(Head(requests))
      <4>1. current' = <<Head(requests)>>
        BY <1>3, <3>2 DEF Take
      <4> QED
        BY <2>2, <4>1
    <3> QED
      BY <3>1, <3>2
  <2>4. UnderWay'
    BY <1>2, <1>3, <2>2, <2>3 DEF Base, UnderWay, Take
  <2> QED
    BY <1>1, <1>2, <1>3, <1>9, <2>4 DEF Base, Working, Collecting, Take
<1>4. ASSUME NEW good \in BOOLEAN, Finish(good) PROVE Base'
  <2>1. UnderWay'
    BY <1>2, <1>4, AnswerSays DEF Base, UnderWay, Finish
  <2> QED
    BY <1>1, <1>2, <1>4, <1>9, <2>1, TimeoutAssumption DEF Base, Working, Collecting, Finish
<1>5. CASE TimeOut
  <2>1. results' \in Seq(Says(doc, length)) /\ current' \in Seq(Asks(doc, length)) /\ requests' = requests
    BY <1>5, AnswerSays, AppendProperties DEF Base, UnderWay, TimeOut
  <2>2. UnderWay'
    BY <1>2, <2>1 DEF Base, UnderWay
  <2> QED
    BY <1>1, <1>2, <1>5, <1>9, <2>2 DEF Base, Working, Collecting, TimeOut
<1>6. CASE GiveUp
  <2>1. results' \in Seq(Says(doc, length)) /\ current' \in Seq(Asks(doc, length)) /\ requests' = requests
    BY <1>6, AnswerSays, AppendProperties, EmptySeq DEF Base, UnderWay, GiveUp
  <2>2. UnderWay'
    BY <1>2, <2>1 DEF Base, UnderWay
  <2> QED
    BY <1>1, <1>2, <1>6, <1>9, <2>2, TimeoutAssumption DEF Base, Working, Collecting, GiveUp
<1>7. CASE Restart
  <2>1. results' \in Seq(Says(doc, length)) /\ current' \in Seq(Asks(doc, length)) /\ requests' = requests
    <3>1. results \in Seq(Says(doc, length)) /\ Answer(current[1], FALSE) \in Says(doc, length)
      BY <1>7, AnswerSays DEF Base, UnderWay, Restart
    <3>2. results' \in {results, Append(results, Answer(current[1], FALSE))}
      BY <1>7 DEF Restart
    <3>3. results' \in Seq(Says(doc, length))
      <4>1. Append(results, Answer(current[1], FALSE)) \in Seq(Says(doc, length))
        BY <3>1, AppendProperties
      <4> QED
        BY <3>1, <3>2, <4>1
    <3> QED
      BY <1>7, <3>3, EmptySeq DEF Restart
  <2>2. UnderWay'
    BY <1>2, <2>1 DEF Base, UnderWay
  <2>3. timeouts' = timeouts + 1 /\ timeouts' < MaxTimeouts /\ timeouts' \in 0..MaxTimeouts
    BY <1>7, TimeoutAssumption DEF Base, Working, Restart, GivesUp
  <2>4. Working'
    <3>1. alive' = alive /\ alive = TRUE /\ worker' \in {"idle", "leaving"}
      BY <1>7 DEF Base, Working, Restart
    <3>2. Len(current') = 0
      BY <1>7 DEF Restart
    <3>3. uiPc' \in {"drain", "listed", "collect", "apply", "key"}
      BY <1>2 DEF Base, Working
    <3>4. alive' = (worker' \notin {"none", "gone"})
      BY <3>1
    <3> QED
      BY <2>3, <3>1, <3>2, <3>3, <3>4 DEF Working
  <2>5. Collecting'
    BY <1>2, <1>7 DEF Base, Collecting, Restart
  <2> QED
    BY <1>1, <1>9, <2>2, <2>4, <2>5 DEF Base
<1>8. CASE Leave
  BY <1>1, <1>2, <1>8, <1>9 DEF Base, Working, UnderWay, Collecting, Leave
<1> QED
  BY <1>3, <1>4, <1>5, <1>6, <1>7, <1>8 DEF WorkerNext

LEMMA DrainBase ==
  ASSUME Base, CollectOne \/ CollectEnd \/ CollectNothing \/ Apply
  PROVE  Base'
<1>1. CASE CollectOne
  <2>1. results \in Seq(Says(doc, length)) /\ results # <<>> /\ collected \in Seq(Says(doc, length))
    BY <1>1 DEF Base, UnderWay, CollectOne
  <2>2. results' \in Seq(Says(doc, length)) /\ collected' \in Seq(Says(doc, length))
    BY <1>1, <2>1, HeadTailProperties, AppendProperties DEF CollectOne
  <2> QED
    BY <1>1, <2>2 DEF Base, Kept, Working, UnderWay, Collecting, Listed, CollectOne,
                   captureVars, viewVars, workVars, historyVars
<1>2. CASE CollectEnd \/ CollectNothing
  <2>1. /\ UNCHANGED <<captureVars, viewVars, collected, nextSeq, channelVars, workVars, historyVars>>
        /\ uiPc' \in {"apply", "key"} /\ (uiPc' = "key" => worker = "none")
    BY <1>2 DEF CollectEnd, CollectNothing
  <2> QED
    BY <2>1 DEF Base, Kept, Working, UnderWay, Collecting, Listed,
                captureVars, viewVars, channelVars, workVars, historyVars
<1>3. CASE Apply
  <2>1. UNCHANGED <<captureVars, selected, dissectSeq, nextSeq, channelVars, workVars, historyVars>>
        /\ collected' = <<>> /\ uiPc' = "key"
    BY <1>3 DEF Apply
  <2>2. state' \in {"Fast", "DeepPending", "Deep"}
    BY <1>3 DEF Apply, Base, Kept
  <2>3. detail' = None \/ detail' \in [index : Nat, doc : Nat, deep : BOOLEAN]
    <3>1. ASSUME NEW k \in DOMAIN collected
          PROVE  [index |-> collected[k].index, doc |-> collected[k].doc, deep |-> TRUE]
                   \in [index : Nat, doc : Nat, deep : BOOLEAN]
      <4>1. collected[k] \in Says(doc, length) /\ doc \in Nat
        BY DEF Base, UnderWay, Kept
      <4> QED
        BY <4>1, Numbers DEF Says
    <3> QED
      BY <1>3, <3>1 DEF Apply, Base, Kept
  <2>4. Kept'
    BY <2>1, <2>2, <2>3 DEF Base, Kept, captureVars, channelVars, historyVars
  <2>5. Working' /\ UnderWay' /\ Collecting' /\ Listed'
    BY <2>1 DEF Base, Working, UnderWay, Collecting, Listed, captureVars, channelVars, workVars, historyVars
  <2> QED
    BY <2>4, <2>5 DEF Base
<1> QED
  BY <1>1, <1>2, <1>3

LEMMA ReceiveBase ==
  ASSUME Base, \E n \in 0..(MaxNumber - 1) : Receive(n)
  PROVE  Base'
<1>1. PICK n \in 0..(MaxNumber - 1) : Receive(n)
  OBVIOUS
<1>2. /\ UNCHANGED <<filtered, viewVars, collected, nextSeq, channelVars, workVars, historyVars>>
      /\ length' = length + 1 /\ number' = n + 1 /\ uiPc' = "listed" /\ n >= number /\ n \in Nat
      /\ doc = 0 /\ dropped' = (dropped \/ n > number)
  BY <1>1, BoundAssumption DEF Receive
<1>3. PICK taken \in SUBSET {n} : ahead' = {i \in ahead \cup taken : i >= length'}
  BY <1>1 DEF Receive
<1>4. Kept'
  <2>1. ahead' \subseteq Nat
    BY <1>2, <1>3 DEF Base, Kept
  <2> QED
    BY <1>2, <2>1 DEF Base, Kept, viewVars, channelVars, historyVars
<1>5. Working' /\ Collecting'
  BY <1>2 DEF Base, Working, Collecting, channelVars, workVars
<1>6. UnderWay'
  <2>1. Asks(doc, length) \subseteq Asks(doc', length') /\ Says(doc, length) \subseteq Says(doc', length')
    BY <1>2 DEF Base, Kept, Asks, Says, historyVars
  <2> QED
    BY <1>2, <2>1, Widened DEF Base, UnderWay, channelVars, workVars
<1>7. Listed'
  <2>1. ASSUME ~dropped' PROVE ahead' = {} /\ number' = length'
    <3>1. ~dropped /\ ~(n > number)
      BY <1>2, <2>1
    <3>2. ahead = {} /\ n = number /\ number = length /\ number \in Nat
      BY <1>2, <3>1 DEF Base, Kept, Listed
    <3>3. \A i \in ahead \cup taken : i = n
      BY <3>2
    <3>4. ahead' = {}
      BY <1>2, <1>3, <3>2, <3>3
    <3> QED
      BY <1>2, <3>2, <3>4
  <2>2. \A i \in ahead' : i >= length'
    BY <1>3
  <2>3. missed' => dropped'
    BY <1>2 DEF Base, Listed, historyVars
  <2>4. selected' # None /\ ~missed' => selected' < length'
    BY <1>2 DEF Base, Kept, Listed, viewVars, historyVars
  <2> QED
    BY <2>1, <2>2, <2>3, <2>4 DEF Listed
<1> QED
  BY <1>4, <1>5, <1>6, <1>7 DEF Base

(* What a call of select_packet leaves when it asks for nothing.           *)
Leaves ==
  /\ UNCHANGED <<detail, state, dissectSeq, nextSeq, latestSeq, requests, asked>>
  /\ \/ UNCHANGED <<selected, missed>>
     \/ selected' = None /\ missed' = FALSE
     \/ selected' \in ahead /\ missed' = TRUE

(* The callers of select_packet: a packet in the store is selected, or     *)
(* nothing is asked and the selection stays, goes, or is of a number ahead.*)
LEMMA Selection ==
  ASSUME Move \/ ApplyFilter \/ DrainEnd
  PROVE  /\ UNCHANGED <<length, number, dropped, SelectionKeeps>>
         /\ uiPc' \in {"drain", "collect"} /\ ahead' \in {ahead, {}} /\ filtered' \in {filtered, TRUE}
         /\ \/ \E i \in 0..(length - 1) : SelectPacket(i, doc)
            \/ Leaves
<1>1. CASE Move
  BY <1>1 DEF Move, SelectRow, SelectMissing, Leaves, captureVars
<1>2. CASE ApplyFilter
  BY <1>2 DEF ApplyFilter, Leaves
<1>3. CASE DrainEnd
  BY <1>3 DEF DrainEnd, SelectRow, SelectMissing, NoSelection, viewVars, Leaves, captureVars
<1> QED
  BY <1>1, <1>2, <1>3

(* A request made here is about a packet in the store of the document      *)
(* shown.                                                                  *)
LEMMA SelectBase ==
  ASSUME Base, Move \/ ApplyFilter \/ DrainEnd
  PROVE  Base'
<1>1. /\ UNCHANGED <<length, number, dropped, SelectionKeeps>>
      /\ uiPc' \in {"drain", "collect"} /\ ahead' \in {ahead, {}} /\ filtered' \in {filtered, TRUE}
  BY Selection
<1>2. Working' /\ Collecting'
  BY <1>1 DEF Base, Working, Collecting, SelectionKeeps, workVars
<1>3. ASSUME NEW i \in 0..(length - 1), SelectPacket(i, doc) PROVE Base'
  <2>1. i \in Nat /\ i < length
    BY DEF Base, Kept
  <2>2. selected' = i /\ missed' = FALSE /\ detail' = [index |-> i, doc |-> doc, deep |-> FALSE]
    BY <1>3 DEF SelectPacket
  <2>3. state' \in {"Fast", "DeepPending"} /\ nextSeq' \in Nat /\ dissectSeq' \in Nat /\ latestSeq' \in Nat
    BY <1>3 DEF Base, Kept, SelectPacket
  <2>4. asked' = None \/ asked' \in [index : Nat, seq : Nat, spawn : Nat]
    BY <1>3, <2>1 DEF Base, Kept, SelectPacket
  <2>5. Kept'
    BY <1>1, <2>1, <2>2, <2>3, <2>4 DEF Base, Kept, SelectionKeeps
  <2>6. requests' \in Seq(Asks(doc, length))
    <3>1. [index |-> i, seq |-> nextSeq, doc |-> doc] \in Asks(doc, length)
      BY DEF Base, Kept, Asks
    <3>2. requests \in Seq(Asks(doc, length))
      BY DEF Base, UnderWay
    <3>3. requests' \in {requests, Append(requests, [index |-> i, seq |-> nextSeq, doc |-> doc])}
      BY <1>3 DEF SelectPacket
    <3> QED
      BY <3>1, <3>2, <3>3, AppendProperties
  <2>7. UnderWay'
    BY <1>1, <2>6 DEF Base, UnderWay, SelectionKeeps, workVars
  <2>8. Listed'
    BY <1>1, <2>1, <2>2 DEF Base, Listed, SelectionKeeps
  <2> QED
    BY <1>2, <2>5, <2>7, <2>8 DEF Base
<1>4. CASE Leaves
  <2>1. Kept'
    BY <1>1, <1>4 DEF Base, Kept, Leaves, SelectionKeeps
  <2>2. UnderWay'
    BY <1>1, <1>4 DEF Base, UnderWay, Leaves, SelectionKeeps, workVars
  <2>3. Listed'
    BY <1>1, <1>4 DEF Base, Listed, Leaves, SelectionKeeps
  <2> QED
    BY <1>2, <2>1, <2>2, <2>3 DEF Base
<1> QED
  BY <1>3, <1>4, Selection

LEMMA OpenBase ==
  ASSUME Base, NEW started \in BOOLEAN, NEW n \in FileLengths, OpenFile(n, started)
  PROVE  Base'
<1>1. /\ collected = <<>> /\ collected' = <<>> /\ results' = <<>> /\ current' = <<>>
      /\ doc' = doc + 1 /\ length' = n /\ n \in Nat /\ doc \in Nat
  BY LengthAssumption DEF Base, Kept, Collecting, OpenFile, Spawn
<1>2. Kept'
  <2>1. selected' \in Nat \cup {None} /\ (detail' = None \/ detail' \in [index : Nat, doc : Nat, deep : BOOLEAN])
    BY <1>1 DEF OpenFile
  <2>2. /\ length' \in Nat /\ number' \in Nat /\ ahead' \subseteq Nat
        /\ filtered' \in BOOLEAN /\ dropped' \in BOOLEAN /\ missed' \in BOOLEAN
    BY <1>1 DEF OpenFile
  <2>3. /\ state' \in {"Fast", "DeepPending", "Deep"}
        /\ dissectSeq' \in Nat /\ nextSeq' \in Nat /\ latestSeq' \in Nat
        /\ doc' \in Nat /\ spawns' \in Nat /\ leaked' \in Nat
    BY <1>1 DEF Base, Kept, OpenFile, Spawn
  <2>4. asked' = None \/ asked' \in [index : Nat, seq : Nat, spawn : Nat]
    BY <2>3 DEF Base, Kept, OpenFile
  <2> QED
    BY <2>1, <2>2, <2>3, <2>4 DEF Kept
<1>3. requests' \in Seq(Asks(doc', length'))
  <2>1. CASE started /\ n > 0
    <3>1. [index |-> 0, seq |-> nextSeq, doc |-> doc'] \in Asks(doc', length')
      BY <1>1, <2>1 DEF Base, Kept, Asks
    <3>2. requests' = <<[index |-> 0, seq |-> nextSeq, doc |-> doc']>>
      BY <2>1 DEF OpenFile
    <3> QED
      BY <3>1, <3>2
  <2>2. CASE ~(started /\ n > 0)
    <3>1. requests' = <<>>
      BY <2>2 DEF OpenFile
    <3> QED
      BY <3>1
  <2> QED
    BY <2>1, <2>2
<1>4. Working'
  BY <1>1, TimeoutAssumption DEF Base, Working, OpenFile, Spawn
<1>5. Listed'
  BY <1>1 DEF OpenFile, Listed
<1> QED
  BY <1>1, <1>2, <1>3, <1>4, <1>5 DEF Base, UnderWay, Collecting, OpenFile

LEMMA KeyBase ==
  ASSUME Base, Idle \/ ClearFilter \/ \E started \in BOOLEAN : StartCapture(started)
  PROVE  Base'
<1>1. CASE Idle
  BY <1>1 DEF Base, Kept, Working, UnderWay, Collecting, Listed, Idle,
              captureVars, viewVars, channelVars, workVars, historyVars
<1>2. CASE ClearFilter
  BY <1>2 DEF Base, Kept, Working, UnderWay, Collecting, Listed, ClearFilter,
              viewVars, channelVars, workVars, historyVars
<1>3. ASSUME NEW started \in BOOLEAN, StartCapture(started) PROVE Base'
  <2>1. Kept' /\ Collecting' /\ Listed'
    BY <1>3 DEF Base, Kept, Collecting, Listed, StartCapture, Spawn, viewVars
  <2>2. Working' /\ UnderWay'
    BY <1>3, TimeoutAssumption DEF Base, Working, UnderWay, Collecting, StartCapture, Spawn
  <2> QED
    BY <2>1, <2>2 DEF Base
<1> QED
  BY <1>1, <1>2, <1>3

LEMMA BaseStep == Base /\ [Next]_vars => Base'
<1> SUFFICES ASSUME Base, [Next]_vars PROVE Base'
  OBVIOUS
<1>1. CASE HelperReturns
  BY <1>1 DEF Base, Kept, Working, UnderWay, Collecting, Listed, HelperReturns,
              captureVars, viewVars, drainVars, channelVars, workVars
<1>2. CASE UNCHANGED vars
  BY <1>2 DEF Base, Kept, Working, UnderWay, Collecting, Listed, vars,
              captureVars, viewVars, drainVars, channelVars, workVars, historyVars
<1> QED
  BY <1>1, <1>2, WorkerBase, ReceiveBase, DrainBase, SelectBase, OpenBase, KeyBase DEF Next, UiNext

LEMMA BaseInvariant == Spec => []Base
  BY BaseInitially, BaseStep, PTL DEF Spec
-----------------------------------------------------------------------------
(***************************************************************************)
(* The detail pane shows the selected packet of the document that is open, *)
(* whatever a worker answers late and whenever the document is replaced    *)
(* (select_packet, do_open_file, drain_deep_results).  The exception is a  *)
(* row of a filtered view that was numbered beyond the store when it was   *)
(* selected; without a dropped packet there is none (Listed).              *)
(***************************************************************************)
LEMMA DetailOfSelectedStep ==
  ASSUME Base, DetailOfSelected, [Next]_vars
  PROVE  DetailOfSelected'
<1>1. Base'
  BY BaseStep
<1>2. missed' => dropped'
  BY <1>1 DEF Base, Listed
<1>3. CASE UNCHANGED <<selected, detail, doc, missed>>
  BY <1>2, <1>3 DEF DetailOfSelected, Base, Listed
<1>4. WorkerNext \/ HelperReturns \/ UNCHANGED vars => UNCHANGED <<selected, detail, doc, missed>>
  BY DEF WorkerNext, Take, Finish, TimeOut, GiveUp, Restart, Leave, HelperReturns,
         vars, viewVars, historyVars
<1>5. CollectOne \/ CollectEnd \/ CollectNothing \/ Idle \/ ClearFilter
        \/ (\E n \in 0..(MaxNumber - 1) : Receive(n)) \/ (\E started \in BOOLEAN : StartCapture(started))
        => UNCHANGED <<selected, detail, doc, missed>>
  BY DEF CollectOne, CollectEnd, CollectNothing, Idle, ClearFilter, Receive, StartCapture,
         viewVars, historyVars
<1>6. CASE Apply
  <2>1. UNCHANGED <<selected, doc, missed, length>>
    BY <1>6 DEF Apply, historyVars, captureVars
  <2>2. ASSUME NEW k \in DOMAIN collected, IsCurrent(collected[k]),
               detail' = [index |-> collected[k].index, doc |-> collected[k].doc, deep |-> TRUE]
        PROVE  DetailOfSelected'
    <3>1. collected[k] \in Says(doc, length) /\ doc \in Nat /\ length \in Nat
      BY DEF Base, UnderWay, Kept
    <3>2. detail'.index = selected /\ detail'.doc = doc
      BY <2>2, <3>1 DEF IsCurrent, Says
    <3>3. detail' # None
      <4>1. detail' \in [index : Nat, doc : Nat, deep : BOOLEAN]
        BY <2>2, <3>1 DEF Says
      <4> QED
        BY <4>1, NoneAssumption
    <3> QED
      BY <1>2, <2>1, <3>2, <3>3 DEF DetailOfSelected
  <2> QED
    BY <1>3, <1>6, <2>1, <2>2 DEF Apply
<1>7. ASSUME Move \/ ApplyFilter \/ DrainEnd, NEW i \in 0..(length - 1), SelectPacket(i, doc)
      PROVE  DetailOfSelected'
  <2>1. selected' = i /\ detail' = [index |-> i, doc |-> doc, deep |-> FALSE] /\ doc' = doc
    BY <1>7, Selection DEF SelectPacket, SelectionKeeps
  <2>2. detail' # None
    <3>1. detail' \in [index : Nat, doc : Nat, deep : BOOLEAN]
      BY <2>1 DEF Base, Kept
    <3> QED
      BY <3>1, NoneAssumption
  <2> QED
    BY <1>2, <2>1, <2>2 DEF DetailOfSelected
<1>8. CASE (Move \/ ApplyFilter \/ DrainEnd) /\ Leaves
  <2>1. UNCHANGED <<detail, doc, length>>
    BY <1>8, Selection DEF Leaves, SelectionKeeps
  <2>2. UNCHANGED <<selected, missed>> \/ selected' = None \/ missed'
    BY <1>8 DEF Leaves
  <2> QED
    BY <1>2, <1>3, <2>1, <2>2 DEF DetailOfSelected
<1>9. ASSUME NEW started \in BOOLEAN, NEW n \in FileLengths, OpenFile(n, started)
      PROVE  DetailOfSelected'
  <2>1. doc' = doc + 1 /\ doc' \in Nat /\ ~missed' /\ n \in Nat /\ length' = n
    BY <1>9, LengthAssumption DEF OpenFile, Base, Kept
  <2>2. CASE n = 0
    BY <1>9, <2>1, <2>2 DEF OpenFile, DetailOfSelected
  <2>3. CASE n # 0
    <3>1. detail' = [index |-> 0, doc |-> doc', deep |-> FALSE] /\ selected' = 0
      BY <1>9, <2>3 DEF OpenFile
    <3>2. detail' # None
      <4>1. detail' \in [index : Nat, doc : Nat, deep : BOOLEAN]
        BY <2>1, <3>1
      <4> QED
        BY <4>1, NoneAssumption
    <3> QED
      BY <2>1, <3>1, <3>2 DEF DetailOfSelected
  <2> QED
    BY <2>2, <2>3
<1> QED
  BY <1>3, <1>4, <1>5, <1>6, <1>7, <1>8, <1>9, Selection DEF Next, UiNext

LEMMA DetailInitially == Init => DetailOfSelected
  BY DEF Init, DetailOfSelected

(* The detail on the screen is of this document, and that of the selected  *)
(* packet unless its number lay beyond the store when it was selected,     *)
(* which takes a dropped packet: whatever answers are late, doubled or lost*)
(* (drain_deep_results compares both numbers), and however the store grows.*)
THEOREM DetailIsOfSelected == Spec => []DetailOfSelected
  BY BaseInvariant, DetailInitially, DetailOfSelectedStep, PTL DEF Spec

(***************************************************************************)
(* A deep result reaches the screen only for the packet selected at that   *)
(* moment, in the document open at that moment (drain_deep_results): no    *)
(* other step makes the detail deep, and what is collected is about the    *)
(* document shown because a replaced worker's channel goes with it.        *)
(***************************************************************************)
LEMMA DeepStep ==
  ASSUME Base, [Next]_vars, detail' # detail, detail' # None, detail'.deep
  PROVE  /\ selected # None /\ selected < length
         /\ detail'.index = selected /\ detail'.doc = doc
<1>1. WorkerNext \/ HelperReturns \/ UNCHANGED vars => detail' = detail
  BY DEF WorkerNext, Take, Finish, TimeOut, GiveUp, Restart, Leave, HelperReturns, vars, viewVars
<1>2. CollectOne \/ CollectEnd \/ CollectNothing \/ Idle \/ ClearFilter
        \/ (\E n \in 0..(MaxNumber - 1) : Receive(n)) \/ (\E started \in BOOLEAN : StartCapture(started))
        => detail' = detail
  BY DEF CollectOne, CollectEnd, CollectNothing, Idle, ClearFilter, Receive, StartCapture, viewVars
<1>3. ASSUME Move \/ ApplyFilter \/ DrainEnd PROVE FALSE
  <2>1. ASSUME NEW i \in 0..(length - 1), SelectPacket(i, doc) PROVE FALSE
    BY <2>1 DEF SelectPacket
  <2>2. CASE Leaves
    BY <2>2 DEF Leaves
  <2> QED
    BY <1>3, <2>1, <2>2, Selection
<1>4. ASSUME NEW started \in BOOLEAN, NEW n \in FileLengths, OpenFile(n, started) PROVE FALSE
  BY <1>4 DEF OpenFile
<1>5. Apply
  BY <1>1, <1>2, <1>3, <1>4 DEF Next, UiNext
<1>6. PICK k \in DOMAIN collected :
        IsCurrent(collected[k])
        /\ detail' = [index |-> collected[k].index, doc |-> collected[k].doc, deep |-> TRUE]
  BY <1>5 DEF Apply
<1>7. collected[k] \in Says(doc, length) /\ length \in Nat
  BY DEF Base, UnderWay, Kept
<1>8. collected[k].index \in Nat /\ collected[k].index < length /\ collected[k].doc = doc
  BY <1>7 DEF Says
<1> QED
  BY <1>6, <1>8, Numbers DEF IsCurrent

(* A deep detail replaces a fast one only for the packet selected at that  *)
(* moment (drain_deep_results).                                            *)
THEOREM DeepIsForSelection == Spec => DeepOnlyForSelection
<1>1. Base /\ [Next]_vars =>
        [detail' # detail /\ detail' # None /\ detail'.deep =>
           /\ selected # None /\ selected < length
           /\ detail'.index = selected /\ detail'.doc = doc]_vars
  BY DeepStep
<1> QED
  BY <1>1, BaseInvariant, PTL DEF Spec, DeepOnlyForSelection

(* Type correctness, from the bounds on what is under way.                 *)
THEOREM TypeCorrect == Spec => []TypeOK
<1>1. Base => TypeOK
  <2> SUFFICES ASSUME Base PROVE TypeOK
    OBVIOUS
  <2>1. Asks(doc, length) \subseteq Request /\ Says(doc, length) \subseteq Result
    BY DEF Base, Kept, Asks, Says, Request, Result
  <2>2. requests \in Seq(Request) /\ current \in Seq(Request)
        /\ results \in Seq(Result) /\ collected \in Seq(Result)
    BY <2>1 DEF Base, UnderWay
  <2>3. asked = None \/ asked \in [index : Nat, seq : Nat, spawn : Nat]
    BY DEF Base, Kept
  <2> QED
    BY <2>2, <2>3 DEF TypeOK, Base, Kept, Working
<1> QED
  BY <1>1, BaseInvariant, PTL
-----------------------------------------------------------------------------
(***************************************************************************)
(* While the request for the selected packet is queued or in work, the     *)
(* state says so: an answer to an earlier request does not end the wait.   *)
(* The argument: requests are served in the order of their numbers, so no  *)
(* answer on its way has the number of a request still waiting.            *)
(***************************************************************************)
Before(s, n) == \A k \in DOMAIN s : s[k].seq < n

AllBefore(n) ==
  Before(requests, n) /\ Before(current, n) /\ Before(results, n) /\ Before(collected, n)

Serial ==
  /\ AllBefore(nextSeq)
  /\ \A k \in DOMAIN requests :
       /\ Before(current, requests[k].seq)
       /\ Before(results, requests[k].seq) /\ Before(collected, requests[k].seq)
       /\ \A j \in DOMAIN requests : j < k => requests[j].seq < requests[k].seq
  /\ worker = "busy" => Before(results, current[1].seq) /\ Before(collected, current[1].seq)

(* The request whose answer is awaited is the one last made, and is about a*)
(* packet in the store.                                                    *)
LastAsked ==
  asked # None =>
    /\ asked.spawn <= spawns
    /\ asked.spawn = spawns => asked.seq = dissectSeq /\ asked.index < length

(* Number n is queued, or in work and not yet answered.                    *)
Waits(n) ==
  \/ \E k \in DOMAIN requests : requests[k].seq = n
  \/ worker = "busy" /\ current[1].seq = n

WaitShown ==
  AskedForThis /\ Waits(asked.seq) /\ worker \in {"idle", "busy", "timedOut"}
    => state = "DeepPending"

LEMMA BeforeAppend ==
  ASSUME NEW S, NEW s \in Seq(S), NEW e \in S, NEW n \in Nat, Before(s, n), e.seq < n
  PROVE  Before(Append(s, e), n)
BY AppendProperties DEF Before

LEMMA BeforeTail ==
  ASSUME NEW S, NEW s \in Seq(S), s # <<>>, NEW n \in Nat, Before(s, n)
  PROVE  Before(Tail(s), n) /\ Head(s).seq < n
<1>1. \A k \in DOMAIN Tail(s) : k + 1 \in DOMAIN s /\ Tail(s)[k] = s[k + 1]
  BY HeadTailProperties
<1>2. 1 \in DOMAIN s /\ Head(s) = s[1]
  BY HeadTailProperties
<1> QED
  BY <1>1, <1>2 DEF Before

LEMMA SerialInitially == Init => Serial /\ LastAsked /\ WaitShown
  BY DEF Init, Serial, AllBefore, Before, LastAsked, WaitShown, AskedForThis

(* The sequences the order is about, with the types of their elements.     *)
LEMMA Sequences ==
  ASSUME Base
  PROVE  /\ requests \in Seq(Asks(doc, length)) /\ current \in Seq(Asks(doc, length))
         /\ results \in Seq(Says(doc, length)) /\ collected \in Seq(Says(doc, length))
         /\ nextSeq \in Nat
         /\ \A q \in Asks(doc, length) : q.seq \in Nat
         /\ \A k \in DOMAIN requests : requests[k] \in Asks(doc, length)
         /\ worker \in {"busy", "timedOut"} =>
              Len(current) = 1 /\ DOMAIN current = {1} /\ current[1] \in Asks(doc, length)
<1>1. worker \in {"busy", "timedOut"} => Len(current) = 1 /\ current \in Seq(Asks(doc, length))
  BY DEF Base, Working, UnderWay
<1>2. worker \in {"busy", "timedOut"} => DOMAIN current = {1} /\ current[1] \in Asks(doc, length)
  BY <1>1
<1>3. /\ requests \in Seq(Asks(doc, length)) /\ current \in Seq(Asks(doc, length))
      /\ results \in Seq(Says(doc, length)) /\ collected \in Seq(Says(doc, length)) /\ nextSeq \in Nat
  BY DEF Base, Kept, UnderWay
<1>4. \A q \in Asks(doc, length) : q.seq \in Nat
  BY DEF Asks
<1>5. \A k \in DOMAIN requests : requests[k] \in Asks(doc, length)
  BY <1>3
<1> QED
  BY <1>1, <1>2, <1>3, <1>4, <1>5

LEMMA SequenceNumbers ==
  ASSUME Base
  PROVE  /\ \A k \in DOMAIN requests : requests[k].seq \in Nat
         /\ \A k \in DOMAIN current : current[k].seq \in Nat
         /\ \A k \in DOMAIN results : results[k].seq \in Nat
         /\ \A k \in DOMAIN collected : collected[k].seq \in Nat
<1>1. /\ \A k \in DOMAIN requests : requests[k] \in Asks(doc, length)
      /\ \A k \in DOMAIN current : current[k] \in Asks(doc, length)
  BY Sequences
<1>2. /\ \A k \in DOMAIN results : results[k] \in Says(doc, length)
      /\ \A k \in DOMAIN collected : collected[k] \in Says(doc, length)
  BY Sequences
<1>3. (\A q \in Asks(doc, length) : q.seq \in Nat) /\ (\A r \in Says(doc, length) : r.seq \in Nat)
  BY DEF Asks, Says
<1> QED
  BY <1>1, <1>2, <1>3

(* A step that leaves the numbers where they are.                          *)
LEMMA SerialStays ==
  ASSUME Serial, UNCHANGED <<requests, current, results, collected, nextSeq>>,
         worker' = "busy" => worker = "busy"
  PROVE  Serial'
BY DEF Serial, AllBefore, Before

(* The worker answers the request in work, or drops it.                    *)
LEMMA SerialAnswer ==
  ASSUME Base, Serial, worker \in {"busy", "timedOut"}, worker' # "busy",
         UNCHANGED <<requests, collected, nextSeq>>,
         current' \in {current, <<>>},
         NEW good \in BOOLEAN, results' \in {results, Append(results, Answer(current[1], good))}
  PROVE  Serial'
<1> DEFINE a == Answer(current[1], good)
<1>1. a \in Says(doc, length) /\ a.seq = current[1].seq
  BY AnswerSays DEF Answer
<1>2. ASSUME NEW n \in Nat, Before(results, n), Before(current, n) PROVE Before(results', n)
  <2>1. current[1].seq < n
    BY <1>2, Sequences DEF Before
  <2>2. Before(Append(results, a), n)
    BY <1>1, <1>2, <2>1, Sequences, BeforeAppend
  <2> QED
    BY <1>2, <2>2
<1>3. \A n \in Nat : Before(current, n) => Before(current', n)
  BY DEF Before
<1>4. AllBefore(nextSeq)'
  BY <1>2, <1>3, Sequences DEF Serial, AllBefore, Before
<1>5. ASSUME NEW k \in DOMAIN requests
      PROVE  Before(results', requests[k].seq) /\ Before(current', requests[k].seq)
  BY <1>2, <1>3, Sequences DEF Serial
<1> QED
  BY <1>4, <1>5 DEF Serial, Before

LEMMA SerialTake ==
  ASSUME Base, Serial, Take
  PROVE  Serial'
<1>1. requests \in Seq(Asks(doc, length)) /\ requests # <<>> /\ requests' = Tail(requests)
  BY Sequences DEF Take
<1>2. \A k \in DOMAIN requests' : k + 1 \in DOMAIN requests /\ requests'[k] = requests[k + 1]
  BY <1>1, HeadTailProperties
<1>3. 1 \in DOMAIN requests /\ Head(requests) = requests[1] /\ Head(requests) \in Asks(doc, length)
  BY <1>1, HeadTailProperties
<1>4. UNCHANGED <<results, collected, nextSeq>>
  BY DEF Take, drainVars
<1>5. Before(requests', nextSeq) /\ Head(requests).seq < nextSeq
  BY <1>1, Sequences, BeforeTail DEF Serial, AllBefore
<1>6. \A k \in DOMAIN requests' : Head(requests).seq < requests'[k].seq
  <2>1. \A k \in DOMAIN requests' : k \in Nat \ {0}
    BY <1>1, HeadTailProperties
  <2> QED
    BY <1>2, <1>3, <2>1 DEF Serial
<1>7. \A j, k \in DOMAIN requests' : j < k => requests'[j].seq < requests'[k].seq
  <2>1. \A k \in DOMAIN requests' : k \in Nat \ {0}
    BY <1>1, HeadTailProperties
  <2> QED
    BY <1>2, <2>1 DEF Serial
<1>8. CASE Outdated(Head(requests))
  <2>1. UNCHANGED <<worker, current>> /\ worker # "busy"
    BY <1>8 DEF Take
  <2> QED
    BY <1>2, <1>4, <1>5, <1>7, <2>1 DEF Serial, AllBefore, Before
<1>9. CASE ~Outdated(Head(requests))
  <2>1. current' = <<Head(requests)>> /\ DOMAIN current' = {1} /\ current'[1] = requests[1]
    BY <1>3, <1>9 DEF Take
  <2>2. Before(current', nextSeq) /\ \A k \in DOMAIN requests' : Before(current', requests'[k].seq)
    BY <1>3, <1>5, <1>6, <2>1 DEF Before
  <2>3. Before(results', current'[1].seq) /\ Before(collected', current'[1].seq)
    BY <1>3, <1>4, <2>1 DEF Serial, Before
  <2>4. \A k \in DOMAIN requests' :
          Before(results', requests'[k].seq) /\ Before(collected', requests'[k].seq)
    BY <1>2, <1>4 DEF Serial, Before
  <2>5. AllBefore(nextSeq)'
    BY <1>4, <1>5, <2>2 DEF Serial, AllBefore, Before
  <2> QED
    BY <1>7, <2>2, <2>3, <2>4, <2>5 DEF Serial, Before
<1> QED
  BY <1>8, <1>9

LEMMA SerialCollect ==
  ASSUME Base, Serial, CollectOne
  PROVE  Serial'
<1>1. /\ UNCHANGED <<requests, current, nextSeq, worker>> /\ results # <<>>
      /\ results' = Tail(results) /\ collected' = Append(collected, Head(results))
  BY DEF CollectOne, workVars
<1>2. Head(results) \in Says(doc, length)
  BY <1>1, Sequences, HeadTailProperties
<1>3. ASSUME NEW n \in Nat, Before(results, n), Before(collected, n)
      PROVE  Before(results', n) /\ Before(collected', n)
  BY <1>1, <1>2, <1>3, Sequences, BeforeTail, BeforeAppend
<1>4. AllBefore(nextSeq)'
  BY <1>1, <1>3, Sequences DEF Serial, AllBefore, Before
<1>5. ASSUME NEW k \in DOMAIN requests
      PROVE  Before(results', requests[k].seq) /\ Before(collected', requests[k].seq)
  BY <1>3, Sequences DEF Serial
<1>6. worker = "busy" => Before(results', current[1].seq) /\ Before(collected', current[1].seq)
  BY <1>3, Sequences DEF Serial
<1> QED
  BY <1>1, <1>4, <1>5, <1>6 DEF Serial, Before

LEMMA SerialKeys ==
  ASSUME Base, Serial,
         \/ Move \/ ApplyFilter \/ DrainEnd
         \/ \E started \in BOOLEAN : StartCapture(started)
         \/ \E started \in BOOLEAN, n \in FileLengths : OpenFile(n, started)
  PROVE  Serial'
<1>1. ASSUME Move \/ ApplyFilter \/ DrainEnd, NEW i \in 0..(length - 1), SelectPacket(i, doc)
      PROVE  Serial'
  <2> DEFINE q == [index |-> i, seq |-> nextSeq, doc |-> doc]
  <2>1. UNCHANGED <<collected, results, current, worker>>
    BY <1>1, Selection DEF SelectionKeeps, workVars
  <2>2. q \in Asks(doc, length) /\ q.seq = nextSeq
    BY Sequences DEF Asks
  <2>3. CASE requests' = requests
    <3>1. nextSeq' \in {nextSeq, nextSeq + 1}
      BY <1>1 DEF SelectPacket
    <3>2. AllBefore(nextSeq)'
      <4>1. \A n \in Nat : n < nextSeq => n < nextSeq'
        BY <3>1, Sequences
      <4> QED
        BY <2>1, <2>3, <4>1, SequenceNumbers DEF Serial, AllBefore, Before
    <3> QED
      BY <2>1, <2>3, <3>2 DEF Serial, Before
  <2>4. CASE requests' = Append(requests, q) /\ nextSeq' = nextSeq + 1
    <3>1. /\ DOMAIN requests' = 1..(Len(requests) + 1) /\ DOMAIN requests = 1..Len(requests)
          /\ Len(requests) \in Nat
          /\ \A k \in DOMAIN requests : requests'[k] = requests[k]
          /\ requests'[Len(requests) + 1] = q
      BY <2>2, <2>4, Sequences, AppendProperties
    <3>2. ASSUME NEW k \in DOMAIN requests'
          PROVE  k \in DOMAIN requests \/ k = Len(requests) + 1
      BY <3>1
    <3>4. AllBefore(nextSeq)'
      <4>1. \A n \in Nat : n < nextSeq => n < nextSeq'
        BY <2>4, Sequences
      <4>2. Before(requests', nextSeq')
        BY <2>2, <2>4, <3>1, <3>2, <4>1, SequenceNumbers, Sequences DEF Serial, AllBefore, Before
      <4> QED
        BY <2>1, <4>1, <4>2, SequenceNumbers DEF Serial, AllBefore, Before
    <3>5. ASSUME NEW k \in DOMAIN requests'
          PROVE  /\ Before(current', requests'[k].seq)
                 /\ Before(results', requests'[k].seq) /\ Before(collected', requests'[k].seq)
                 /\ \A j \in DOMAIN requests' : j < k => requests'[j].seq < requests'[k].seq
      <4>1. CASE k \in DOMAIN requests
        <5>1. \A j \in DOMAIN requests' : j < k => j \in DOMAIN requests
          BY <3>1, <4>1
        <5> QED
          BY <2>1, <3>1, <4>1, <5>1 DEF Serial, Before
      <4>2. CASE k = Len(requests) + 1
        <5>1. \A j \in DOMAIN requests' : j < k => j \in DOMAIN requests
          BY <3>1, <4>2
        <5>2. requests'[k].seq = nextSeq
          BY <2>2, <3>1, <4>2
        <5> QED
          BY <2>1, <3>1, <5>1, <5>2 DEF Serial, AllBefore, Before
      <4> QED
        BY <3>2, <4>1, <4>2
    <3> QED
      BY <2>1, <3>4, <3>5 DEF Serial, Before
  <2> QED
    BY <1>1, <2>3, <2>4 DEF SelectPacket
<1>2. ASSUME NEW started \in BOOLEAN, StartCapture(started) PROVE Serial'
  <2>1. /\ requests' = <<>> /\ current' = <<>> /\ results' = <<>> /\ collected' = <<>>
        /\ worker' # "busy"
    BY <1>2 DEF StartCapture, Spawn, Base, Collecting
  <2> QED
    BY <2>1 DEF Serial, AllBefore, Before
<1>3. ASSUME NEW started \in BOOLEAN, NEW n \in FileLengths, OpenFile(n, started) PROVE Serial'
  <2>1. current' = <<>> /\ results' = <<>> /\ collected' = <<>> /\ worker' # "busy"
    BY <1>3 DEF OpenFile, Spawn, Base, Collecting
  <2>2. \/ requests' = <<>>
        \/ /\ requests' = <<[index |-> 0, seq |-> nextSeq, doc |-> doc']>>
           /\ nextSeq' = nextSeq + 1
    BY <1>3 DEF OpenFile
  <2> QED
    BY <2>1, <2>2, Sequences DEF Serial, AllBefore, Before
<1>4. CASE (Move \/ ApplyFilter \/ DrainEnd) /\ Leaves
  <2>1. UNCHANGED <<collected, results, current, worker, requests, nextSeq>>
    BY <1>4, Selection DEF SelectionKeeps, workVars, Leaves
  <2> QED
    BY <2>1, SerialStays
<1> QED
  BY <1>1, <1>2, <1>3, <1>4, Selection

LEMMA SerialStep ==
  ASSUME Base, Serial, [Next]_vars
  PROVE  Serial'
<1>1. CASE Take
  BY <1>1, SerialTake
<1>2. ASSUME NEW good \in BOOLEAN, Finish(good) PROVE Serial'
  BY <1>2, SerialAnswer DEF Finish, drainVars
<1>3. CASE TimeOut \/ GiveUp \/ Restart
  <2>1. /\ UNCHANGED <<requests, collected, nextSeq>> /\ current' \in {current, <<>>}
        /\ results' \in {results, Append(results, Answer(current[1], FALSE))}
        /\ worker \in {"busy", "timedOut"} /\ worker' # "busy"
    BY <1>3 DEF TimeOut, GiveUp, Restart, drainVars
  <2> QED
    BY <2>1, SerialAnswer
<1>4. CASE Leave \/ CollectEnd \/ CollectNothing \/ Idle \/ ClearFilter \/ HelperReturns
  BY <1>4, SerialStays DEF Leave, CollectEnd, CollectNothing, Idle, ClearFilter, HelperReturns,
                           drainVars, channelVars, workVars
<1>5. CASE (\E n \in 0..(MaxNumber - 1) : Receive(n)) \/ UNCHANGED vars
  BY <1>5, SerialStays DEF Receive, vars, drainVars, channelVars, workVars
<1>6. CASE CollectOne
  BY <1>6, SerialCollect
<1>7. CASE Apply
  BY <1>7 DEF Apply, Serial, AllBefore, Before, channelVars, workVars
<1> QED
  BY <1>1, <1>2, <1>3, <1>4, <1>5, <1>6, <1>7, SerialKeys DEF Next, WorkerNext, UiNext

LEMMA LastAskedStep ==
  ASSUME Base, LastAsked, [Next]_vars
  PROVE  LastAsked'
<1>1. /\ spawns \in Nat /\ length \in Nat
      /\ asked # None => asked \in [index : Nat, seq : Nat, spawn : Nat]
  BY DEF Base, Kept
<1>2. CASE UNCHANGED <<asked, spawns, dissectSeq, length>>
  BY <1>2 DEF LastAsked
<1>3. WorkerNext \/ HelperReturns \/ UNCHANGED vars => UNCHANGED <<asked, spawns, dissectSeq, length>>
  BY DEF WorkerNext, Take, Finish, TimeOut, GiveUp, Restart, Leave, HelperReturns,
         vars, captureVars, viewVars, historyVars
<1>4. CollectOne \/ CollectEnd \/ CollectNothing \/ Apply \/ Idle \/ ClearFilter
        => UNCHANGED <<asked, spawns, dissectSeq, length>>
  BY DEF CollectOne, CollectEnd, CollectNothing, Apply, Idle, ClearFilter,
         captureVars, viewVars, historyVars
<1>5. ASSUME NEW n \in 0..(MaxNumber - 1), Receive(n) PROVE LastAsked'
  BY <1>1, <1>5 DEF Receive, LastAsked, viewVars, historyVars
<1>6. ASSUME Move \/ ApplyFilter \/ DrainEnd, NEW i \in 0..(length - 1), SelectPacket(i, doc)
      PROVE  LastAsked'
  <2>1. spawns' = spawns /\ length' = length
    BY <1>6, Selection DEF SelectionKeeps
  <2>2. \/ UNCHANGED <<asked, dissectSeq>>
        \/ /\ asked' = [index |-> i, seq |-> nextSeq, spawn |-> spawns]
           /\ dissectSeq' = nextSeq
    BY <1>6 DEF SelectPacket
  <2> QED
    BY <1>1, <2>1, <2>2 DEF LastAsked
<1>7. CASE (Move \/ ApplyFilter \/ DrainEnd) /\ Leaves
  BY <1>2, <1>7, Selection DEF SelectionKeeps, Leaves
<1>8. ASSUME NEW started \in BOOLEAN, StartCapture(started) PROVE LastAsked'
  BY <1>1, <1>8 DEF StartCapture, Spawn, LastAsked
<1>9. ASSUME NEW started \in BOOLEAN, NEW n \in FileLengths, OpenFile(n, started) PROVE LastAsked'
  <2>1. spawns' = spawns + 1 /\ length' = n
    BY <1>9 DEF OpenFile, Spawn
  <2>2. \/ UNCHANGED asked
        \/ /\ asked' = [index |-> 0, seq |-> nextSeq, spawn |-> spawns']
           /\ dissectSeq' = nextSeq /\ n > 0
    BY <1>9 DEF OpenFile
  <2> QED
    BY <1>1, <2>1, <2>2, LengthAssumption DEF LastAsked
<1> QED
  BY <1>2, <1>3, <1>4, <1>5, <1>6, <1>7, <1>8, <1>9, Selection DEF Next, UiNext

LEMMA WaitShownStep ==
  ASSUME Base, Serial, LastAsked, WaitShown, [Next]_vars
  PROVE  WaitShown'
<1> SUFFICES ASSUME AskedForThis', Waits(asked.seq)', worker' \in {"idle", "busy", "timedOut"}
             PROVE  state' = "DeepPending"
  BY DEF WaitShown
<1>1. ASSUME Move \/ ApplyFilter \/ DrainEnd, NEW i \in 0..(length - 1), SelectPacket(i, doc)
      PROVE  state' = "DeepPending"
  <2>1. worker' = worker
    BY <1>1, Selection DEF SelectionKeeps, workVars
  <2>2. alive
    BY <2>1 DEF Base, Working
  <2> QED
    BY <1>1, <2>1, <2>2 DEF SelectPacket, CanAsk
<1>2. ASSUME NEW started \in BOOLEAN, StartCapture(started) PROVE FALSE
  <2>1. asked' = asked /\ spawns' = spawns + 1 /\ spawns \in Nat
    BY <1>2 DEF StartCapture, Spawn, Base, Kept
  <2>2. asked # None /\ asked.spawn = spawns + 1
    BY <2>1 DEF AskedForThis
  <2>3. asked.spawn <= spawns
    BY <2>2 DEF LastAsked
  <2> QED
    BY <2>1, <2>2, <2>3
<1>3. ASSUME NEW started \in BOOLEAN, NEW n \in FileLengths, OpenFile(n, started)
      PROVE  state' = "DeepPending"
  <2>1. CASE started /\ n > 0
    BY <1>3, <2>1 DEF OpenFile
  <2>2. CASE ~(started /\ n > 0)
    <3>1. requests' = <<>> /\ worker' # "busy"
      BY <1>3, <2>2 DEF OpenFile, Spawn
    <3> QED
      BY <3>1 DEF Waits
  <2> QED
    BY <2>1, <2>2
(* Every other step keeps the request awaited or ends the wait.            *)
<1>4. CASE WorkerNext
  <2>1. UNCHANGED <<selected, state, asked, spawns>>
    BY <1>4 DEF WorkerNext, Take, Finish, TimeOut, GiveUp, Restart, Leave, viewVars, historyVars
  <2>2. worker \in {"idle", "busy", "timedOut"}
    BY <1>4 DEF WorkerNext, Take, Finish, TimeOut, GiveUp, Restart, Leave
  <2>3. Waits(asked.seq)
    <3>1. CASE Take
      <4>1. requests \in Seq(Asks(doc, length)) /\ requests # <<>> /\ requests' = Tail(requests)
        BY <3>1, Sequences DEF Take
      <4>2. \A k \in DOMAIN requests' : k + 1 \in DOMAIN requests /\ requests'[k] = requests[k + 1]
        BY <4>1, HeadTailProperties
      <4>3. 1 \in DOMAIN requests /\ Head(requests) = requests[1]
        BY <4>1, HeadTailProperties
      <4>4. worker' = "busy" => current'[1] = requests[1]
        BY <3>1, <4>3 DEF Take
      <4> QED
        BY <2>1, <4>2, <4>3, <4>4 DEF Waits
    <3>2. CASE ~Take
      <4>1. requests' = requests /\ worker' # "busy"
        BY <1>4, <3>2 DEF WorkerNext, Finish, TimeOut, GiveUp, Restart, Leave
      <4> QED
        BY <2>1, <4>1 DEF Waits
    <3> QED
      BY <3>1, <3>2
  <2> QED
    BY <2>1, <2>2, <2>3 DEF WaitShown, AskedForThis
<1>5. CASE Apply
  <2>1. UNCHANGED <<selected, asked, spawns, requests, worker, current, alive>>
    BY <1>5 DEF Apply, historyVars, channelVars, workVars
  <2>2. Waits(asked.seq) /\ AskedForThis
    BY <2>1 DEF Waits, AskedForThis
  <2>3. state = "DeepPending" /\ alive
    BY <2>1, <2>2 DEF WaitShown, Base, Working
  <2>4. asked.seq = dissectSeq
    BY <2>2 DEF LastAsked, AskedForThis
  <2>5. ASSUME NEW k \in DOMAIN collected PROVE ~IsCurrent(collected[k])
    <3>1. collected[k].seq \in Nat
      BY SequenceNumbers
    <3>2. collected[k].seq < asked.seq
      <4>1. CASE \E j \in DOMAIN requests : requests[j].seq = asked.seq
        BY <4>1 DEF Serial, Before
      <4>2. CASE worker = "busy" /\ current[1].seq = asked.seq
        BY <4>2 DEF Serial, Before
      <4> QED
        BY <2>2, <4>1, <4>2 DEF Waits
    <3> QED
      BY <2>4, <3>1, <3>2 DEF IsCurrent
  <2> QED
    BY <1>5, <2>3, <2>5 DEF Apply, LooksDead
<1>6. CASE CollectOne \/ CollectEnd \/ CollectNothing \/ Idle \/ ClearFilter \/ HelperReturns
           \/ (\E n \in 0..(MaxNumber - 1) : Receive(n)) \/ UNCHANGED vars
  BY <1>6 DEF CollectOne, CollectEnd, CollectNothing, Idle, ClearFilter, HelperReturns, Receive, vars,
              viewVars, channelVars, workVars, historyVars, WaitShown, Waits, AskedForThis
<1>7. CASE (Move \/ ApplyFilter \/ DrainEnd) /\ Leaves
  <2>1. UNCHANGED <<asked, spawns, state, requests, worker, current, length>>
    BY <1>7, Selection DEF Leaves, SelectionKeeps, workVars
  <2>2. asked # None /\ asked.spawn = spawns /\ asked.index = selected'
    BY <2>1 DEF AskedForThis
  <2>3. asked.index \in Nat /\ asked.index < length /\ length \in Nat
    BY <2>2 DEF LastAsked, Base, Kept
  <2>4. selected' # None /\ selected' \notin ahead
    BY <2>2, <2>3, Numbers DEF Base, Listed
  <2>5. selected' = selected
    BY <1>7, <2>4 DEF Leaves
  <2> QED
    BY <2>1, <2>5 DEF WaitShown, Waits, AskedForThis
<1> QED
  BY <1>1, <1>2, <1>3, <1>4, <1>5, <1>6, <1>7, Selection DEF Next, UiNext

(* While the request for the packet on the screen is still to be answered  *)
(* by a worker that runs, the screen says so (select_packet,               *)
(* drain_deep_results, the worker's latest_seq).                           *)
THEOREM WaitIsShown == Spec => []InProgressShown
<1>1. Init => Base /\ Serial /\ LastAsked /\ WaitShown
  BY BaseInitially, SerialInitially
<1>2. Base /\ Serial /\ LastAsked /\ WaitShown /\ [Next]_vars
        => (Base /\ Serial /\ LastAsked /\ WaitShown)'
  BY BaseStep, SerialStep, LastAskedStep, WaitShownStep
<1>3. Base /\ WaitShown => InProgressShown
  <2> SUFFICES ASSUME Base, WaitShown, AskedForThis, InWork(asked.seq), worker \in {"idle", "busy"}
               PROVE  state = "DeepPending"
    BY DEF InProgressShown
  <2>1. DOMAIN requests = 1..Len(requests)
    BY Sequences
  <2>2. worker = "idle" => Len(current) = 0
    BY DEF Base, Working
  <2>3. worker = "busy" => Len(current) = 1
    BY DEF Base, Working
  <2>4. Waits(asked.seq)
    BY <2>1, <2>2, <2>3 DEF InWork, Waits
  <2> QED
    BY <2>4 DEF WaitShown
<1> QED
  BY <1>1, <1>2, <1>3, PTL DEF Spec

-----------------------------------------------------------------------------
(* The dissectors.                                                         *)

(* What is under way in a dissector: nothing, or one frame, which is in    *)
(* the FIFO or answered.  A frame that tshark did not live to read stays.  *)
AtRest(d) == call[d] = <<>> /\ inPipe[d] = <<>> /\ (inFifo[d] = <<>> \/ tshark[d] = "dead")
Asked(d, f) == call[d] = <<f>> /\ inFifo[d] = <<f>> /\ inPipe[d] = <<>>
Answered(d, f) == call[d] = <<f>> /\ inFifo[d] = <<>> /\ inPipe[d] = <<f>>

OneUnderWay == \A d \in Instance : AtRest(d) \/ \E f \in Frames : Asked(d, f) \/ Answered(d, f)

PipeTypes ==
  /\ used \in 0..MaxInstances /\ instances \in 0..MaxInstances
  /\ writer \in [Instance -> BOOLEAN]
  /\ tshark \in [Instance -> {"off", "up", "stuck", "dead"}]
  /\ inFifo \in [Instance -> Seq(Frames)] /\ inPipe \in [Instance -> Seq(Frames)]
  /\ call \in [Instance -> Seq(Frames)]
  /\ replies \subseteq Frames \X Frames

(* Dissectors that are not made yet are untouched.                         *)
Fresh ==
  /\ used <= instances
  /\ \A d \in Instance : d > instances => tshark[d] = "off" /\ call[d] = <<>>

PipeInv == PipeTypes /\ OneUnderWay /\ Fresh /\ AnswersItsFrame /\ NoneIdlesOn

(* A queue of one: what is put in is what comes out.                       *)
LEMMA QueueOfOne ==
  ASSUME NEW S, NEW x \in S
  PROVE  /\ <<>> \in Seq(S) /\ <<x>> \in Seq(S) /\ <<x>> # <<>>
         /\ Append(<<>>, x) = <<x>> /\ Head(<<x>>) = x /\ Tail(<<x>>) = <<>> /\ <<x>>[1] = x
  OBVIOUS

LEMMA PipeInitially == PipeInit => PipeInv
  BY PipeAssumption
  DEF PipeInit, PipeInv, PipeTypes, OneUnderWay, AtRest, AnswersItsFrame, NoneIdlesOn, Fresh, Instance

(* A frame is written only where nothing is under way.                     *)
LEMMA WriteStep ==
  ASSUME PipeInv, NEW f \in Frames, WriteFrame(f)
  PROVE  PipeInv'
<1> USE PipeAssumption
<1>1. PICK d \in Instance : d = used
  BY DEF PipeInv, PipeTypes, WriteFrame, Free, Instance
<1>2. AtRest(d) /\ inFifo[d] = <<>>
  <2>1. ~ \E g \in Frames : Asked(d, g) \/ Answered(d, g)
    BY <1>1, QueueOfOne DEF WriteFrame, Free, Asked, Answered
  <2> QED
    BY <1>1, <2>1 DEF PipeInv, OneUnderWay, AtRest, WriteFrame
<1>3. Asked(d, f)'
  BY <1>1, <1>2, QueueOfOne DEF PipeInv, PipeTypes, Asked, AtRest, WriteFrame
<1>4. PipeTypes'
  BY <1>1 DEF PipeInv, PipeTypes, WriteFrame
<1>5. OneUnderWay'
  <2> SUFFICES ASSUME NEW e \in Instance, e # d
               PROVE  (AtRest(e) \/ \E g \in Frames : Asked(e, g) \/ Answered(e, g))'
    BY <1>3 DEF OneUnderWay
  <2> QED
    BY <1>1 DEF PipeInv, PipeTypes, OneUnderWay, AtRest, Asked, Answered, WriteFrame
<1>6. AnswersItsFrame' /\ NoneIdlesOn' /\ Fresh'
  <2>1. /\ UNCHANGED <<used, instances, writer, tshark, replies>>
        /\ \A e \in Instance : e # d => call'[e] = call[e]
    BY <1>1 DEF PipeInv, PipeTypes, WriteFrame
  <2>2. d <= instances
    BY <1>1 DEF PipeInv, Fresh
  <2>3. AnswersItsFrame' /\ NoneIdlesOn'
    BY <1>1, <2>1 DEF PipeInv, AnswersItsFrame, NoneIdlesOn
  <2>4. \A e \in Instance : e > instances => e # d
    BY <2>2 DEF PipeInv, PipeTypes, Instance
  <2> QED
    BY <2>1, <2>3, <2>4 DEF PipeInv, Fresh
<1> QED
  BY <1>4, <1>5, <1>6 DEF PipeInv

(* The answer that is read is the only one there, to the frame of the call.*)
LEMMA ReadStep ==
  ASSUME PipeInv, NEW d \in Instance, ReadAnswer(d)
  PROVE  PipeInv'
<1>1. PICK f \in Frames : Answered(d, f)
  BY QueueOfOne DEF PipeInv, OneUnderWay, AtRest, Asked, ReadAnswer
<1>2. AtRest(d)'
  BY <1>1, QueueOfOne DEF PipeInv, PipeTypes, Answered, AtRest, ReadAnswer
<1>3. PipeTypes'
  BY <1>1, QueueOfOne DEF PipeInv, PipeTypes, ReadAnswer, Released, Answered
<1>4. OneUnderWay'
  <2> SUFFICES ASSUME NEW e \in Instance, e # d
               PROVE  (AtRest(e) \/ \E g \in Frames : Asked(e, g) \/ Answered(e, g))'
    BY <1>2 DEF OneUnderWay
  <2> QED
    BY DEF PipeInv, PipeTypes, OneUnderWay, AtRest, Asked, Answered, ReadAnswer, Released
<1>5. AnswersItsFrame'
  BY <1>1, QueueOfOne DEF PipeInv, AnswersItsFrame, Answered, ReadAnswer
<1>6. NoneIdlesOn' /\ Fresh'
  BY <1>1, QueueOfOne DEF PipeInv, PipeTypes, NoneIdlesOn, Fresh, Answered, ReadAnswer, Released, Instance
<1> QED
  BY <1>3, <1>4, <1>5, <1>6 DEF PipeInv

LEMMA ReadEndStep ==
  ASSUME PipeInv, NEW d \in Instance, ReadEnd(d)
  PROVE  PipeInv'
<1>1. PipeTypes'
  BY QueueOfOne DEF PipeInv, PipeTypes, ReadEnd, Released
<1>2. OneUnderWay'
  BY DEF PipeInv, PipeTypes, OneUnderWay, AtRest, Asked, Answered, ReadEnd, Released
<1>3. AnswersItsFrame' /\ NoneIdlesOn' /\ Fresh'
  BY DEF PipeInv, PipeTypes, AnswersItsFrame, NoneIdlesOn, Fresh, ReadEnd, Released, Instance
<1> QED
  BY <1>1, <1>2, <1>3 DEF PipeInv

LEMMA AnswerStep ==
  ASSUME PipeInv, NEW d \in Instance, Answers(d)
  PROVE  PipeInv'
<1>1. PICK f \in Frames : Asked(d, f)
  BY DEF PipeInv, OneUnderWay, AtRest, Answered, Answers
<1>2. Answered(d, f)'
  BY <1>1, QueueOfOne DEF PipeInv, PipeTypes, Asked, Answered, Answers
<1>3. PipeTypes'
  BY <1>1, QueueOfOne DEF PipeInv, PipeTypes, Asked, Answers
<1>4. OneUnderWay'
  <2> SUFFICES ASSUME NEW e \in Instance, e # d
               PROVE  (AtRest(e) \/ \E g \in Frames : Asked(e, g) \/ Answered(e, g))'
    BY <1>2 DEF OneUnderWay
  <2> QED
    BY DEF PipeInv, PipeTypes, OneUnderWay, AtRest, Asked, Answered, Answers
<1>5. AnswersItsFrame' /\ NoneIdlesOn' /\ Fresh'
  BY DEF PipeInv, PipeTypes, AnswersItsFrame, NoneIdlesOn, Fresh, Answers, Instance
<1> QED
  BY <1>3, <1>4, <1>5 DEF PipeInv

LEMMA PipeStep == PipeInv /\ [PipeNext]_pipeVars => PipeInv'
<1> SUFFICES ASSUME PipeInv, [PipeNext]_pipeVars PROVE PipeInv'
  OBVIOUS
<1> USE PipeAssumption
<1>1. CASE New
  <2>1. PICK d \in Instance : d = instances + 1
    BY <1>1 DEF PipeInv, PipeTypes, New, Instance
  <2>2. /\ used = 0 /\ instances' = d
        /\ UNCHANGED <<inFifo, inPipe, call, replies>>
        /\ \/ /\ used' = d /\ writer' = [writer EXCEPT ![d] = TRUE]
              /\ tshark' = [tshark EXCEPT ![d] = "up"]
           \/ UNCHANGED <<used, writer, tshark>>
    BY <1>1, <2>1 DEF New
  <2>3. PipeTypes'
    <3>1. d \in 1..MaxInstances
      BY DEF Instance
    <3>2. used' \in 0..MaxInstances /\ instances' \in 0..MaxInstances
      BY <2>2, <3>1
    <3>3. writer' \in [Instance -> BOOLEAN] /\ tshark' \in [Instance -> {"off", "up", "stuck", "dead"}]
      BY <2>2 DEF PipeInv, PipeTypes
    <3> QED
      BY <2>2, <3>2, <3>3 DEF PipeInv, PipeTypes
  <2>4. tshark[d] = "off" /\ call[d] = <<>>
    BY <2>1 DEF PipeInv, PipeTypes, Fresh
  <2>5. AnswersItsFrame' /\ NoneIdlesOn'
    <3>1. CASE UNCHANGED <<used, writer, tshark>>
      BY <2>2, <3>1 DEF PipeInv, AnswersItsFrame, NoneIdlesOn
    <3>2. CASE /\ used' = d /\ writer' = [writer EXCEPT ![d] = TRUE]
               /\ tshark' = [tshark EXCEPT ![d] = "up"]
      <4>1. \A e \in Instance : e # d => writer'[e] = writer[e] /\ tshark'[e] = tshark[e]
        BY <3>2 DEF PipeInv, PipeTypes
      <4>2. \A e \in Instance : e # used
        BY <2>2 DEF Instance
      <4>3. NoneIdlesOn'
        BY <2>2, <3>2, <4>1, <4>2 DEF PipeInv, NoneIdlesOn
      <4> QED
        BY <2>2, <4>3 DEF PipeInv, AnswersItsFrame
    <3> QED
      BY <2>2, <3>1, <3>2
  <2>6. Fresh'
    <3>1. used' <= instances'
      <4>1. used \in 0..MaxInstances /\ instances \in 0..MaxInstances /\ used <= instances
        BY DEF PipeInv, PipeTypes, Fresh
      <4>2. used' = d \/ used' = used
        BY <2>2
      <4> QED
        BY <2>1, <2>2, <4>1, <4>2, PipeAssumption
    <3>2. ASSUME NEW e \in Instance, e > instances'
          PROVE  tshark'[e] = "off" /\ call'[e] = <<>>
      <4>1. e # d /\ e > instances
        BY <2>1, <2>2, <3>2 DEF PipeInv, PipeTypes, Instance
      <4> QED
        BY <2>2, <4>1 DEF PipeInv, PipeTypes, Fresh
    <3> QED
      BY <3>1, <3>2 DEF Fresh
  <2>7. OneUnderWay'
    <3> SUFFICES ASSUME NEW e \in Instance
                 PROVE  (AtRest(e) \/ \E g \in Frames : Asked(e, g) \/ Answered(e, g))'
      BY DEF OneUnderWay
    <3>1. tshark'[e] = tshark[e] \/ (e = d /\ inFifo[d] = <<>> /\ inPipe[d] = <<>>)
      BY <2>2, <2>4, QueueOfOne DEF PipeInv, PipeTypes, OneUnderWay, AtRest, Asked, Answered
    <3> QED
      BY <2>2, <2>4, <3>1 DEF PipeInv, OneUnderWay, AtRest, Asked, Answered
  <2> QED
    BY <2>3, <2>5, <2>6, <2>7 DEF PipeInv
<1>2. CASE Late
  <2>1. /\ used' = 0 /\ call[used] # <<>>
        /\ UNCHANGED <<call, instances, writer, tshark, inFifo, inPipe, replies>>
    BY <1>2 DEF Late, GiveUpLate
  <2>2. PipeTypes'
    BY <2>1 DEF PipeInv, PipeTypes
  <2>3. OneUnderWay' /\ AnswersItsFrame'
    BY <2>1 DEF PipeInv, OneUnderWay, AtRest, Asked, Answered, AnswersItsFrame
  <2>4. NoneIdlesOn'
    BY <2>1 DEF PipeInv, NoneIdlesOn
  <2>5. Fresh'
    BY <2>1 DEF PipeInv, PipeTypes, Fresh
  <2> QED
    BY <2>2, <2>3, <2>4, <2>5 DEF PipeInv
<1>3. CASE EndWorker
  <2>1. used \in Instance
    BY <1>3 DEF PipeInv, PipeTypes, EndWorker, Free, Instance
  <2>2. PipeTypes'
    BY <1>3, <2>1 DEF PipeInv, PipeTypes, EndWorker
  <2>3. OneUnderWay'
    BY <1>3, <2>1 DEF PipeInv, PipeTypes, OneUnderWay, AtRest, Asked, Answered, EndWorker
  <2>4. AnswersItsFrame' /\ NoneIdlesOn'
    BY <1>3, <2>1 DEF PipeInv, PipeTypes, AnswersItsFrame, NoneIdlesOn, EndWorker
  <2>5. Fresh'
    BY <1>3, <2>1 DEF PipeInv, PipeTypes, Fresh, EndWorker, Instance
  <2> QED
    BY <2>2, <2>3, <2>4, <2>5 DEF PipeInv
<1>4. CASE \E f \in Frames : WriteFrame(f)
  BY <1>4, WriteStep
<1>5. ASSUME NEW d \in Instance, ReadAnswer(d) \/ ReadEnd(d) \/ Answers(d)
      PROVE  PipeInv'
  BY <1>5, ReadStep, ReadEndStep, AnswerStep
<1>6. ASSUME NEW d \in Instance, Behaves(d)
      PROVE  PipeInv'
  <2>1. PipeTypes'
    BY <1>6 DEF PipeInv, PipeTypes, Behaves
  <2>2. OneUnderWay'
    BY <1>6 DEF PipeInv, PipeTypes, OneUnderWay, AtRest, Asked, Answered, Behaves
  <2>3. AnswersItsFrame' /\ NoneIdlesOn' /\ Fresh'
    BY <1>6 DEF PipeInv, PipeTypes, AnswersItsFrame, NoneIdlesOn, Fresh, Behaves, Instance
  <2> QED
    BY <2>1, <2>2, <2>3 DEF PipeInv
<1>7. CASE UNCHANGED pipeVars
  BY <1>7 DEF pipeVars, PipeInv, PipeTypes, OneUnderWay, AtRest, Asked, Answered, AnswersItsFrame, NoneIdlesOn, Fresh
<1> QED
  BY <1>1, <1>2, <1>3, <1>4, <1>5, <1>6, <1>7 DEF PipeNext

LEMMA PipeInvariant == PipeSpec => []PipeInv
  BY PipeInitially, PipeStep, PTL DEF PipeSpec

(* An answer that reaches the worker is tshark's answer to the frame it    *)
(* asked about (dissect_packet of deep.rs), whatever tshark does; a        *)
(* dissector that is not the worker's is in a call, or its process has     *)
(* ended and its FIFO is closed (drop of DeepDissector); and no dissector  *)
(* has more than one frame under way.                                      *)
THEOREM OneAnswerOneOwner == PipeSpec => []PipeSound
<1>1. ASSUME PipeInv, NEW d \in Instance PROVE Len(call[d]) <= 1
  <2>1. call[d] = <<>> \/ \E f \in Frames : call[d] = <<f>>
    BY <1>1 DEF PipeInv, OneUnderWay, AtRest, Asked, Answered
  <2>2. CASE call[d] = <<>>
    BY <2>2, EmptySeq
  <2>3. ASSUME NEW f \in Frames, call[d] = <<f>> PROVE Len(call[d]) <= 1
    <3>1. Len(<<f>>) = 1
      OBVIOUS
    <3> QED
      BY <2>3, <3>1
  <2> QED
    BY <2>1, <2>2, <2>3
<1>2. PipeInv => PipeSound
  BY <1>1 DEF PipeInv, PipeTypes, PipeSound, PipeTypeOK
<1> QED
  BY <1>2, PipeInvariant, PTL
=============================================================================
