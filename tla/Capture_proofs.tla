--------------------------- MODULE Capture_proofs ---------------------------
(***************************************************************************)
(* Proofs about Capture, for every capacity, drain limit, set of kinds,    *)
(* filters and files, and every bound on arrivals and starts.              *)
(*                                                                         *)
(* The argument: ModeStep, CountStep, QueueStep and ControlStep give the   *)
(* types and the protocol between the UI thread and the capture thread,    *)
(* together the inductive invariant BaseInv.  PipelineStep then says       *)
(* what any step does to the pipeline, the sequence of packets stored,     *)
(* waiting and in hand: a packet joins its end, packets leave its end, a   *)
(* file replaces it, or it stays as it is, wherever in it a packet moves.  *)
(* Order and numbering follow from that lemma alone.                       *)
(*                                                                         *)
(* What becomes of the packets rests on that order: every packet that      *)
(* arrived is accounted for, the packet list implements the log of         *)
(* PacketLog, what was captured can be saved with the times at which it    *)
(* arrived, and the filtered view is that of the store.  PhaseInv adds     *)
(* which keys are possible in which phase: the picker is open only while   *)
(* nothing is captured or loaded, and a file is shown only without a       *)
(* capture.                                                                *)
(***************************************************************************)
EXTENDS Capture, SequenceTheorems, WellFoundedInduction, TLAPS

-----------------------------------------------------------------------------
(* Sequences of packets.                                                   *)

LEMMA Bounds ==
  /\ ChannelCapacity \in Nat /\ ChannelCapacity > 0
  /\ DrainLimit \in Nat /\ DrainLimit > 0
  BY CapacityAssumption, LimitAssumption

LEMMA IdsNat == ASSUME NEW s \in Seq(Packet) PROVE Ids(s) \subseteq Nat \ {0}
<1>1. ASSUME NEW i \in 1..Len(s) PROVE s[i].id \in Nat \ {0}
  <2>1. s[i] \in Packet
    OBVIOUS
  <2> QED
    BY <2>1 DEF Packet
<1> QED
  BY <1>1 DEF Ids

LEMMA LoadedTyped == ASSUME NEW f \in Files PROVE LoadPcap(f) \in Seq(Packet)
<1>1. f \in Seq(Kinds)
  BY KindAssumption
<1>2. /\ Len(f) \in Nat
      /\ \A i \in 1..Len(f) : f[i] \in Kinds
  BY <1>1
<1>3. \A i \in 1..Len(f) :
        [id |-> i, index |-> i - 1, ts |-> i - 1, kind |-> f[i]] \in Packet
  BY <1>2 DEF Packet
<1>4. LoadPcap(f) \in [1..Len(f) -> Packet]
  BY <1>3 DEF LoadPcap
<1> QED
  BY <1>2, <1>4, SeqDef

(* Moving the head of the channel to the end of the store.                 *)
LEMMA MoveHead ==
  ASSUME NEW s \in Seq(Packet), NEW c \in Seq(Packet), NEW h \in Seq(Packet), c # <<>>
  PROVE  Append(s, Head(c)) \o Tail(c) \o h = s \o c \o h
<1>1. Head(c) \in Packet /\ Tail(c) \in Seq(Packet)
  OBVIOUS
<1>2. c = <<Head(c)>> \o Tail(c)
  OBVIOUS
<1>3. Append(s, Head(c)) = s \o <<Head(c)>>
  BY <1>1, AppendIsConcat
<1>4. (s \o <<Head(c)>>) \o Tail(c) = s \o (<<Head(c)>> \o Tail(c))
  BY <1>1, ConcatAssociative
<1> QED
  BY <1>2, <1>3, <1>4

-----------------------------------------------------------------------------
(* Modes: where the two threads are.                                       *)

LEMMA ModeInit == Init => ModeTypeOK
  BY KindAssumption DEF Init, ModeTypeOK

LEMMA ModeStep ==
  ASSUME ModeTypeOK
  PROVE  [Next]_vars => ModeTypeOK'
<1> USE DEF ModeTypeOK, storeVars, viewVars, appVars, threadVars, drainVars, historyVars
<1>1. ASSUME ThreadNext PROVE ModeTypeOK'
  BY <1>1 DEF ThreadNext, CheckStop, Arrive, PollTimeout, PollError, TrySend
<1>2. ASSUME BeginDrain PROVE ModeTypeOK'
  BY <1>2 DEF BeginDrain
<1>3. ASSUME Receive \/ EndReceive PROVE ModeTypeOK'
  BY <1>3 DEF Receive, EndReceive
<1>4. ASSUME EndDrain PROVE ModeTypeOK'
  BY <1>4 DEF EndDrain
<1>5. ASSUME EndStop PROVE ModeTypeOK'
  BY <1>5 DEF EndStop, DropCapture
<1>6. ASSUME Tick \/ OpenPicker \/ ClosePicker PROVE ModeTypeOK'
  BY <1>6 DEF Tick, OpenPicker, ClosePicker
<1>7. ASSUME QuitPicker \/ ForceQuit PROVE ModeTypeOK'
  BY <1>7 DEF QuitPicker, ForceQuit, Quit
<1>8. ASSUME Stop PROVE ModeTypeOK'
  BY <1>8 DEF Stop, RequestStop
<1>9. ASSUME OpenFile PROVE ModeTypeOK'
  BY <1>9 DEF OpenFile, RequestStop
<1>10. ASSUME Start PROVE ModeTypeOK'
  BY <1>10, KindAssumption DEF Start
<1>11. ASSUME ToggleAutoScroll \/ ClearFilter PROVE ModeTypeOK'
  BY <1>11 DEF ToggleAutoScroll, ClearFilter
<1>12. ASSUME NEW r \in 0..(FilteredLen - 1), Navigate(r) PROVE ModeTypeOK'
  BY <1>12 DEF Navigate
<1>13. ASSUME NEW f \in Filters, ApplyFilter(f) PROVE ModeTypeOK'
  BY <1>13 DEF ApplyFilter
<1>14. ASSUME Joined \/ LoadFailed PROVE ModeTypeOK'
  BY <1>14 DEF Joined, LoadFailed
<1>15. ASSUME NEW f \in Files, LoadFile(f) PROVE ModeTypeOK'
  BY <1>15 DEF LoadFile, DropCapture
<1>16. ASSUME DropApp \/ Halt PROVE ModeTypeOK'
  BY <1>16 DEF DropApp, Halt, DropCapture
<1>17. ASSUME Terminated \/ UNCHANGED vars PROVE ModeTypeOK'
  BY <1>17 DEF Terminated, vars
<1> HIDE DEF ModeTypeOK
<1> QED
  BY <1>1, <1>2, <1>3, <1>4, <1>5, <1>6, <1>7, <1>8, <1>9, <1>10, <1>11, <1>12, <1>13,
     <1>14, <1>15, <1>16, <1>17
  DEF Next, UiNext, KeyNext

-----------------------------------------------------------------------------
(* Control: who called the drain the UI thread is in, and what the capture *)
(* thread is doing meanwhile.  Once stop_capture has joined the thread it  *)
(* stays dead until the capture is dropped.                                *)

Reaping == caller \in {"stop", "open"} /\ uiPc # "join"

ControlInv ==
  /\ caller \in {"stop", "open"} => uiPc \in {"join", "drain", "recv", "finish"}
  /\ Reaping => thread = "done"
  /\ uiPc = "join" => caller \in {"stop", "open"}
  /\ uiPc \in {"recv", "finish", "join"} => thread # "none"
  /\ uiPc = "load" => capState # "Capturing"
  /\ capState = "Capturing" /\ uiPc # "halted" => thread # "none"
  /\ NoOrphanThread

LEMMA ControlInit == Init => ControlInv
  BY DEF Init, ControlInv, Reaping, NoOrphanThread

LEMMA ControlStep ==
  ASSUME ModeTypeOK, ControlInv
  PROVE  [Next]_vars => ControlInv'
<1> USE DEF ModeTypeOK, ControlInv, Reaping, NoOrphanThread,
            storeVars, viewVars, appVars, threadVars, drainVars, historyVars
<1>1. ASSUME ThreadNext PROVE ControlInv'
  BY <1>1 DEF ThreadNext, CheckStop, Arrive, PollTimeout, PollError, TrySend
<1>2. ASSUME BeginDrain PROVE ControlInv'
  BY <1>2 DEF BeginDrain, NoLiveCapture
<1>3. ASSUME Receive \/ EndReceive PROVE ControlInv'
  BY <1>3 DEF Receive, EndReceive
<1>4. ASSUME EndDrain PROVE ControlInv'
  BY <1>4 DEF EndDrain, IsFinished
<1>5. ASSUME EndStop PROVE ControlInv'
  BY <1>5 DEF EndStop, DropCapture
<1>6. ASSUME Tick \/ OpenPicker \/ ClosePicker PROVE ControlInv'
  BY <1>6 DEF Tick, OpenPicker, ClosePicker
<1>7. ASSUME QuitPicker \/ ForceQuit PROVE ControlInv'
  BY <1>7 DEF QuitPicker, ForceQuit, Quit
<1>8. ASSUME Stop PROVE ControlInv'
  BY <1>8 DEF Stop, RequestStop
<1>9. ASSUME OpenFile PROVE ControlInv'
  BY <1>9 DEF OpenFile, RequestStop
<1>10. ASSUME Start PROVE ControlInv'
  BY <1>10 DEF Start
<1>11. ASSUME ToggleAutoScroll \/ ClearFilter PROVE ControlInv'
  BY <1>11 DEF ToggleAutoScroll, ClearFilter
<1>12. ASSUME NEW r \in 0..(FilteredLen - 1), Navigate(r) PROVE ControlInv'
  BY <1>12 DEF Navigate
<1>13. ASSUME NEW f \in Filters, ApplyFilter(f) PROVE ControlInv'
  BY <1>13 DEF ApplyFilter
<1>14. ASSUME Joined \/ LoadFailed PROVE ControlInv'
  BY <1>14 DEF Joined, JoinReturns, LoadFailed
<1>15. ASSUME NEW f \in Files, LoadFile(f) PROVE ControlInv'
  BY <1>15 DEF LoadFile, DropCapture
<1>16. ASSUME DropApp \/ Halt PROVE ControlInv'
  BY <1>16 DEF DropApp, Halt, DropCapture
<1>17. ASSUME Terminated \/ UNCHANGED vars PROVE ControlInv'
  BY <1>17 DEF Terminated, vars
<1> HIDE DEF ModeTypeOK, ControlInv
<1> QED
  BY <1>1, <1>2, <1>3, <1>4, <1>5, <1>6, <1>7, <1>8, <1>9, <1>10, <1>11, <1>12, <1>13,
     <1>14, <1>15, <1>16, <1>17
  DEF Next, UiNext, KeyNext

-----------------------------------------------------------------------------
(* What a step does to the queues and counters.  Most steps leave them as  *)
(* they are; the others are looked at one by one below.                    *)

Quiet ==
  /\ UNCHANGED <<held, chan, store, nextIndex, clock, dropped, lost, fileOpen>>
  /\ (thread = "send") = (thread' = "send")
  /\ (thread = "none") = (thread' = "none")

LEMMA QuietStep ==
  [Next]_vars =>
    \/ Quiet
    \/ \E k \in Kinds : Arrive(k)
    \/ TrySend \/ Receive \/ EndStop \/ Start \/ Halt
    \/ \E f \in Files : LoadFile(f)
<1> USE DEF Quiet, storeVars, viewVars, appVars, threadVars, drainVars, historyVars
<1>1. ASSUME CheckStop \/ PollTimeout \/ PollError PROVE Quiet
  BY <1>1 DEF CheckStop, PollTimeout, PollError
<1>2. ASSUME BeginDrain PROVE Quiet
  BY <1>2 DEF BeginDrain
<1>3. ASSUME EndReceive \/ EndDrain PROVE Quiet
  BY <1>3 DEF EndReceive, EndDrain
<1>4. ASSUME Tick \/ OpenPicker \/ ClosePicker PROVE Quiet
  BY <1>4 DEF Tick, OpenPicker, ClosePicker
<1>5. ASSUME QuitPicker \/ ForceQuit PROVE Quiet
  BY <1>5 DEF QuitPicker, ForceQuit, Quit
<1>6. ASSUME Stop PROVE Quiet
  BY <1>6 DEF Stop, RequestStop
<1>7. ASSUME OpenFile PROVE Quiet
  BY <1>7 DEF OpenFile, RequestStop
<1>8. ASSUME ToggleAutoScroll \/ ClearFilter PROVE Quiet
  BY <1>8 DEF ToggleAutoScroll, ClearFilter
<1>9. ASSUME NEW r \in 0..(FilteredLen - 1), Navigate(r) PROVE Quiet
  BY <1>9 DEF Navigate
<1>10. ASSUME NEW f \in Filters, ApplyFilter(f) PROVE Quiet
  BY <1>10 DEF ApplyFilter
<1>11. ASSUME Joined \/ LoadFailed PROVE Quiet
  BY <1>11 DEF Joined, LoadFailed
<1>12. ASSUME DropApp PROVE Quiet
  BY <1>12 DEF DropApp
<1>13. ASSUME Terminated \/ UNCHANGED vars PROVE Quiet
  BY <1>13 DEF Terminated, vars
<1> HIDE DEF Quiet
<1> QED
  BY <1>1, <1>2, <1>3, <1>4, <1>5, <1>6, <1>7, <1>8, <1>9, <1>10, <1>11, <1>12, <1>13
  DEF Next, ThreadNext, UiNext, KeyNext

-----------------------------------------------------------------------------
(* Counters and queues.                                                    *)

LEMMA CountInit == Init => CountTypeOK
  BY Bounds DEF Init, CountTypeOK, NoTs

LEMMA CountStep ==
  ASSUME CountTypeOK, QueueTypeOK
  PROVE  [Next]_vars => CountTypeOK'
<1> USE DEF CountTypeOK, storeVars, viewVars, appVars, threadVars, drainVars, historyVars
<1>1. ASSUME CheckStop \/ PollTimeout \/ PollError \/ TrySend PROVE CountTypeOK'
  BY <1>1 DEF CheckStop, PollTimeout, PollError, TrySend
<1>2. ASSUME NEW k \in Kinds, Arrive(k) PROVE CountTypeOK'
  BY <1>2 DEF Arrive, NoTs
<1>3. ASSUME BeginDrain PROVE CountTypeOK'
  BY <1>3, Bounds DEF BeginDrain, BaseTs
<1>4. ASSUME Receive PROVE CountTypeOK'
  BY <1>4, Bounds DEF Receive
<1>5. ASSUME EndReceive \/ EndDrain PROVE CountTypeOK'
  BY <1>5 DEF EndReceive, EndDrain
<1>6. ASSUME EndStop PROVE CountTypeOK'
  BY <1>6 DEF EndStop, DropCapture
<1>7. ASSUME Tick \/ OpenPicker \/ ClosePicker PROVE CountTypeOK'
  BY <1>7 DEF Tick, OpenPicker, ClosePicker
<1>8. ASSUME QuitPicker \/ ForceQuit PROVE CountTypeOK'
  BY <1>8 DEF QuitPicker, ForceQuit, Quit
<1>9. ASSUME Stop PROVE CountTypeOK'
  BY <1>9 DEF Stop, RequestStop
<1>10. ASSUME OpenFile PROVE CountTypeOK'
  BY <1>10 DEF OpenFile, RequestStop
<1>11. ASSUME Start PROVE CountTypeOK'
  <2>1. Len(store) \in Nat
    BY DEF QueueTypeOK
  <2> QED
    BY <1>11, <2>1 DEF Start, StartIndex, NoTs
<1>12. ASSUME ToggleAutoScroll \/ ClearFilter PROVE CountTypeOK'
  BY <1>12 DEF ToggleAutoScroll, ClearFilter
<1>13. ASSUME NEW r \in 0..(FilteredLen - 1), Navigate(r) PROVE CountTypeOK'
  BY <1>13 DEF Navigate
<1>14. ASSUME NEW f \in Filters, ApplyFilter(f) PROVE CountTypeOK'
  BY <1>14 DEF ApplyFilter
<1>15. ASSUME Joined \/ LoadFailed PROVE CountTypeOK'
  BY <1>15 DEF Joined, LoadFailed
<1>16. ASSUME NEW f \in Files, LoadFile(f) PROVE CountTypeOK'
  BY <1>16 DEF LoadFile, DropCapture, NoTs
<1>17. ASSUME DropApp \/ Halt PROVE CountTypeOK'
  BY <1>17 DEF DropApp, Halt, DropCapture
<1>18. ASSUME Terminated \/ UNCHANGED vars PROVE CountTypeOK'
  BY <1>18 DEF Terminated, vars
<1> HIDE DEF CountTypeOK
<1> QED
  BY <1>1, <1>2, <1>3, <1>4, <1>5, <1>6, <1>7, <1>8, <1>9, <1>10, <1>11, <1>12, <1>13,
     <1>14, <1>15, <1>16, <1>17, <1>18
  DEF Next, ThreadNext, UiNext, KeyNext

LEMMA QueueInit == Init => QueueTypeOK /\ HistoryTypeOK
  BY Bounds DEF Init, QueueTypeOK, HistoryTypeOK

(* A capture that is dropped has no packet in hand.                        *)
LEMMA QueueStep ==
  ASSUME CountTypeOK, QueueTypeOK, HistoryTypeOK, ControlInv
  PROVE  [Next]_vars => QueueTypeOK' /\ HistoryTypeOK'
<1>1. Ids(chan) \subseteq Nat /\ Ids(held) \subseteq Nat
  BY IdsNat DEF QueueTypeOK
<1>2. ASSUME Quiet PROVE QueueTypeOK' /\ HistoryTypeOK'
  BY <1>2 DEF Quiet, QueueTypeOK, HistoryTypeOK
<1>3. ASSUME NEW k \in Kinds, Arrive(k) PROVE QueueTypeOK' /\ HistoryTypeOK'
  <2>1. [id |-> clock', index |-> nextIndex, ts |-> clock' - firstTs', kind |-> k] \in Packet
    BY <1>3 DEF Arrive, Packet, CountTypeOK, NoTs
  <2>2. held' \in Seq(Packet) /\ Len(held') = 1 /\ thread' = "send"
    BY <1>3, <2>1 DEF Arrive
  <2> QED
    BY <1>3, <2>2 DEF Arrive, storeVars, QueueTypeOK, HistoryTypeOK
<1>4. ASSUME TrySend PROVE QueueTypeOK' /\ HistoryTypeOK'
  <2>1. held' \in Seq(Packet) /\ Len(held') = 0 /\ thread' = "check"
    BY <1>4 DEF TrySend
  <2>2. chan' \in Seq(Packet) /\ Len(chan') <= ChannelCapacity
    <3>1. chan \o held \in Seq(Packet) /\ Len(chan \o held) = Len(chan) + Len(held)
      BY ConcatProperties DEF QueueTypeOK
    <3>2. Len(held) = 1 /\ Len(chan) \in Nat
      BY <1>4 DEF TrySend, QueueTypeOK
    <3>3. CASE HasRoom
      BY <1>4, <3>1, <3>2, <3>3, Bounds DEF TrySend, HasRoom
    <3>4. CASE ~HasRoom
      BY <1>4, <3>4 DEF TrySend, QueueTypeOK
    <3> QED
      BY <3>3, <3>4
  <2>3. dropped' \subseteq Nat /\ lost' = lost
    BY <1>1, <1>4 DEF TrySend, HistoryTypeOK
  <2> QED
    BY <1>4, <2>1, <2>2, <2>3 DEF TrySend, storeVars, QueueTypeOK, HistoryTypeOK
<1>5. ASSUME Receive PROVE QueueTypeOK' /\ HistoryTypeOK'
  <2>1. Head(chan) \in Packet /\ Tail(chan) \in Seq(Packet) /\ Len(Tail(chan)) = Len(chan) - 1
    BY <1>5, HeadTailProperties DEF Receive, QueueTypeOK
  <2>2. store' \in Seq(Packet)
    BY <1>5, <2>1 DEF Receive, StoreAdd, QueueTypeOK
  <2>3. chan' \in Seq(Packet) /\ Len(chan') <= ChannelCapacity
    BY <1>5, <2>1, Bounds DEF Receive, Remaining, QueueTypeOK
  <2> QED
    BY <1>5, <2>2, <2>3 DEF Receive, threadVars, historyVars, QueueTypeOK, HistoryTypeOK
<1>6. ASSUME DropCapture, thread # "send", store' \in Seq(Packet), dropped' = dropped
      PROVE  QueueTypeOK' /\ HistoryTypeOK'
  <2>1. chan' \in Seq(Packet) /\ Len(chan') <= ChannelCapacity
    BY <1>6, Bounds DEF DropCapture
  <2>2. lost' \subseteq Nat
    BY <1>1, <1>6 DEF DropCapture, HistoryTypeOK
  <2> QED
    BY <1>6, <2>1, <2>2 DEF DropCapture, QueueTypeOK, HistoryTypeOK
<1>7. ASSUME EndStop PROVE QueueTypeOK' /\ HistoryTypeOK'
  <2>1. DropCapture /\ thread # "send" /\ store' = store /\ dropped' = dropped
    BY <1>7 DEF EndStop, ControlInv, Reaping, storeVars
  <2> QED
    BY <1>6, <2>1 DEF QueueTypeOK
<1>8. ASSUME Halt PROVE QueueTypeOK' /\ HistoryTypeOK'
  <2>1. DropCapture /\ thread # "send" /\ store' = store /\ dropped' = dropped
    BY <1>8 DEF Halt, storeVars
  <2> QED
    BY <1>6, <2>1 DEF QueueTypeOK
<1>9. ASSUME NEW f \in Files, LoadFile(f) PROVE QueueTypeOK' /\ HistoryTypeOK'
  <2>1. DropCapture /\ thread # "send" /\ dropped' = dropped
    BY <1>9 DEF LoadFile, ControlInv, NoOrphanThread
  <2>2. store' \in Seq(Packet)
    BY <1>9, LoadedTyped DEF LoadFile
  <2> QED
    BY <1>6, <2>1, <2>2
<1>10. ASSUME Start PROVE QueueTypeOK' /\ HistoryTypeOK'
  <2>1. /\ chan' \in Seq(Packet) /\ Len(chan') <= ChannelCapacity
        /\ held' \in Seq(Packet) /\ Len(held') = 0 /\ thread' = "check"
    BY <1>10, Bounds DEF Start
  <2>2. lost' \subseteq Nat
    BY <1>1, <1>10 DEF Start, HistoryTypeOK
  <2> QED
    BY <1>10, <2>1, <2>2 DEF Start, storeVars, QueueTypeOK, HistoryTypeOK
<1> QED
  BY QuietStep, <1>2, <1>3, <1>4, <1>5, <1>7, <1>8, <1>9, <1>10

(* What every later argument starts from.                                  *)
BaseInv == ModeTypeOK /\ CountTypeOK /\ QueueTypeOK /\ HistoryTypeOK /\ ControlInv

LEMMA BaseInit == Init => BaseInv
  BY ModeInit, CountInit, QueueInit, ControlInit DEF BaseInv

LEMMA BaseStep == BaseInv /\ [Next]_vars => BaseInv'
  BY ModeStep, CountStep, QueueStep, ControlStep DEF BaseInv

-----------------------------------------------------------------------------
(* The pipeline.                                                           *)

Stays ==
  /\ Pipeline' = Pipeline
  /\ UNCHANGED <<nextIndex, clock, dropped, fileOpen>>
  /\ (thread = "none") = (thread' = "none")

Joins(p) ==
  /\ Pipeline' = Append(Pipeline, p)
  /\ clock' = clock + 1 /\ p.id = clock + 1
  /\ nextIndex' = nextIndex + 1 /\ p.index = nextIndex
  /\ UNCHANGED <<dropped, fileOpen>>
  /\ thread # "none"

(* Packets behind some point are gone: the one in hand was dropped, or the *)
(* channel was, after which numbers are only given after a Start.          *)
Leaves(t) ==
  /\ Pipeline = Pipeline' \o t
  /\ UNCHANGED <<clock, fileOpen>>
  /\ \/ dropped' # {} /\ nextIndex' = nextIndex /\ thread # "none"
     \/ dropped' = dropped /\ thread' = "none"
     \/ dropped' = dropped /\ nextIndex' = Len(Pipeline')

Loaded(f) ==
  /\ Pipeline' = LoadPcap(f)
  /\ thread' = "none" /\ fileOpen'
  /\ UNCHANGED <<dropped, clock>>

LEMMA PipelineTyped ==
  ASSUME QueueTypeOK
  PROVE  /\ Pipeline \in Seq(Packet)
         /\ Len(Pipeline) = Len(store) + Len(chan) + Len(held)
         /\ \A i \in 1..Len(store) : Pipeline[i] = store[i]
<1>1. /\ store \o chan \in Seq(Packet)
      /\ Len(store \o chan) = Len(store) + Len(chan)
      /\ \A i \in 1..(Len(store) + Len(chan)) :
           (store \o chan)[i] = IF i <= Len(store) THEN store[i] ELSE chan[i - Len(store)]
  BY ConcatProperties DEF QueueTypeOK
<1>2. /\ Pipeline \in Seq(Packet)
      /\ Len(Pipeline) = Len(store \o chan) + Len(held)
      /\ \A i \in 1..(Len(store \o chan) + Len(held)) :
           Pipeline[i] = IF i <= Len(store \o chan) THEN (store \o chan)[i]
                         ELSE held[i - Len(store \o chan)]
  BY <1>1, ConcatProperties DEF Pipeline, QueueTypeOK
<1>3. Len(store) \in Nat /\ Len(chan) \in Nat /\ Len(held) \in Nat
  BY DEF QueueTypeOK
<1> QED
  BY <1>1, <1>2, <1>3

(* Dropping the channel when no packet is in hand.                         *)
LEMMA ChannelDropped ==
  ASSUME QueueTypeOK, QueueTypeOK', thread # "send", held' = held, chan' = <<>>, store' = store
  PROVE  Pipeline = Pipeline' \o chan
<1>1. held = <<>>
  BY DEF QueueTypeOK
<1>2. Pipeline = store \o chan
  <2>1. store \o chan \in Seq(Packet)
    BY ConcatProperties DEF QueueTypeOK
  <2> QED
    BY <1>1, <2>1, ConcatEmptySeq DEF Pipeline
<1>3. Pipeline' = store
  BY <1>1, ConcatEmptySeq DEF Pipeline, QueueTypeOK
<1> QED
  BY <1>2, <1>3

LEMMA PipelineTypedNext ==
  ASSUME BaseInv, [Next]_vars
  PROVE  Pipeline' \in Seq(Packet)
<1>1. QueueTypeOK'
  BY BaseStep DEF BaseInv
<1>2. store' \o chan' \in Seq(Packet)
  BY <1>1, ConcatProperties DEF QueueTypeOK
<1> QED
  BY <1>1, <1>2, ConcatProperties DEF Pipeline, QueueTypeOK

(* Three parts of the pipeline, whichever way they are put together.       *)
LEMMA ThreeParts ==
  ASSUME NEW s \in Seq(Packet), NEW c \in Seq(Packet), NEW h \in Seq(Packet)
  PROVE  (s \o c) \o h = s \o (c \o h) /\ c \o h \in Seq(Packet)
  BY ConcatAssociative, ConcatProperties

LEMMA PipelineStep ==
  ASSUME BaseInv, [Next]_vars
  PROVE  \/ Stays
         \/ \E p \in Packet : Joins(p)
         \/ \E t \in Seq(Packet) : Leaves(t)
         \/ \E f \in Files : Loaded(f)
<1>1. QueueTypeOK /\ QueueTypeOK'
  BY BaseStep DEF BaseInv
<1>0. store \in Seq(Packet) /\ chan \in Seq(Packet) /\ held \in Seq(Packet)
  BY <1>1 DEF QueueTypeOK
<1>2. ASSUME Quiet PROVE Stays
  BY <1>2 DEF Quiet, Stays, Pipeline
<1>3. ASSUME NEW k \in Kinds, Arrive(k) PROVE \E p \in Packet : Joins(p)
  <2> DEFINE p == [id |-> clock', index |-> nextIndex, ts |-> clock' - firstTs', kind |-> k]
  <2>1. held = <<>> /\ held' = <<p>> /\ UNCHANGED <<chan, store, dropped, fileOpen>>
    BY <1>1, <1>3 DEF Arrive, QueueTypeOK, storeVars, appVars
  <2>2. p \in Packet
    BY <1>3 DEF Arrive, Packet, BaseInv, CountTypeOK, NoTs
  <2>3. store \o chan \in Seq(Packet)
    BY <1>1, ConcatProperties DEF QueueTypeOK
  <2>4. Pipeline = store \o chan
    BY <2>1, <2>3, ConcatEmptySeq DEF Pipeline
  <2>5. Pipeline' = Append(Pipeline, p)
    BY <2>1, <2>2, <2>3, <2>4, AppendIsConcat DEF Pipeline
  <2> QED
    BY <1>3, <2>1, <2>2, <2>5 DEF Arrive, Joins
<1>4. ASSUME TrySend, HasRoom PROVE Stays
  <2>1. /\ chan' = chan \o held /\ held' = <<>>
        /\ UNCHANGED <<store, nextIndex, clock, dropped, fileOpen>>
        /\ thread # "none" /\ thread' # "none"
    BY <1>4 DEF TrySend, storeVars, appVars
  <2>2. (store \o chan) \o held = store \o (chan \o held)
    BY <1>0, ThreeParts
  <2>3. store \o (chan \o held) \in Seq(Packet)
    BY <1>0, ThreeParts, ConcatProperties
  <2>4. Pipeline' = Pipeline
    BY <2>1, <2>2, <2>3, ConcatEmptySeq DEF Pipeline
  <2> QED
    BY <2>1, <2>4 DEF Stays
<1>5. ASSUME TrySend, ~HasRoom PROVE \E t \in Seq(Packet) : Leaves(t)
  <2>1. /\ dropped' = dropped \cup Ids(held) /\ held' = <<>>
        /\ UNCHANGED <<chan, store, nextIndex, clock, fileOpen>>
        /\ thread = "send"
    BY <1>5 DEF TrySend, storeVars, appVars
  <2>2. held[1].id \in dropped'
    <3>1. Len(held) = 1
      BY <1>1, <2>1 DEF QueueTypeOK
    <3> QED
      BY <2>1, <3>1 DEF Ids
  <2>3. store \o chan \in Seq(Packet)
    BY <1>1, ConcatProperties DEF QueueTypeOK
  <2>4. Pipeline' = store \o chan
    BY <2>1, <2>3, ConcatEmptySeq DEF Pipeline
  <2>5. Pipeline = Pipeline' \o held
    BY <2>4 DEF Pipeline
  <2>6. Leaves(held)
    BY <2>1, <2>2, <2>5 DEF Leaves
  <2> QED
    BY <1>1, <2>6 DEF QueueTypeOK
<1>6. ASSUME Receive PROVE Stays
  <2>1. /\ chan # <<>> /\ store' = Append(store, Head(chan)) /\ chan' = Tail(chan)
        /\ UNCHANGED <<thread, held, nextIndex, clock, dropped, fileOpen>>
    BY <1>6 DEF Receive, StoreAdd, Remaining, threadVars, appVars, historyVars
  <2>2. Append(store, Head(chan)) \o Tail(chan) \o held = store \o chan \o held
    BY <1>0, <2>1, MoveHead
  <2>3. Pipeline' = Pipeline
    BY <2>1, <2>2 DEF Pipeline
  <2> QED
    BY <2>1, <2>3 DEF Stays
<1>7. ASSUME EndStop \/ Halt PROVE \E t \in Seq(Packet) : Leaves(t)
  <2>1. /\ thread # "send" /\ thread' = "none" /\ chan' = <<>>
        /\ UNCHANGED <<held, store, clock, dropped, fileOpen>>
    BY <1>7 DEF EndStop, Halt, DropCapture, BaseInv, ControlInv, Reaping, storeVars, appVars
  <2>2. Pipeline = Pipeline' \o chan
    BY <1>1, <2>1, ChannelDropped
  <2>3. Leaves(chan)
    BY <2>1, <2>2 DEF Leaves
  <2> QED
    BY <1>1, <2>3 DEF QueueTypeOK
<1>8. ASSUME Start PROVE \E t \in Seq(Packet) : Leaves(t)
  <2>1. /\ thread' = "check" /\ chan' = <<>> /\ held' = <<>> /\ nextIndex' = Len(store)
        /\ UNCHANGED <<store, clock, dropped, fileOpen>>
    BY <1>8 DEF Start, StartIndex, storeVars
  <2>2. Pipeline' = store
    BY <1>1, <2>1, ConcatEmptySeq DEF Pipeline, QueueTypeOK
  <2>3. Pipeline = store \o (chan \o held)
    BY <1>0, ThreeParts DEF Pipeline
  <2>4. Leaves(chan \o held)
    BY <2>1, <2>2, <2>3 DEF Leaves
  <2> QED
    BY <1>0, <2>4, ThreeParts
<1>9. ASSUME NEW f \in Files, LoadFile(f) PROVE \E g \in Files : Loaded(g)
  <2>1. /\ thread' = "none" /\ chan' = <<>> /\ held' = held /\ store' = LoadPcap(f)
        /\ fileOpen' /\ dropped' = dropped /\ clock' = clock
    BY <1>9 DEF LoadFile, DropCapture
  <2>2. held' = <<>>
    BY <1>1, <2>1 DEF QueueTypeOK
  <2>3. Pipeline' = LoadPcap(f)
    BY <2>1, <2>2, LoadedTyped, ConcatEmptySeq DEF Pipeline
  <2> QED
    BY <2>1, <2>3 DEF Loaded
<1> QED
  BY QuietStep, <1>2, <1>3, <1>4, <1>5, <1>6, <1>7, <1>8, <1>9

-----------------------------------------------------------------------------
(* Types and control, for every value of the constants.                    *)

(* No packet is in hand except between its arrival and its send, and the   *)
(* channel never holds more than its capacity (capture_loop, try_send).    *)
THEOREM QueuesTypeCorrect == Spec => []QueueTypeOK
<1>1. BaseInv => QueueTypeOK
  BY DEF BaseInv
<1> QED
  BY <1>1, BaseInit, BaseStep, PTL DEF Spec

(* The modes of the two threads, the flags of the App and the counters     *)
(* keep their types; no timestamp is ever before the first of its capture. *)
THEOREM ModesTypeCorrect == Spec => [](ModeTypeOK /\ CountTypeOK /\ HistoryTypeOK)
<1>1. BaseInv => ModeTypeOK /\ CountTypeOK /\ HistoryTypeOK
  BY DEF BaseInv
<1> QED
  BY <1>1, BaseInit, BaseStep, PTL DEF Spec

(* Unless the program shows a capture in progress there is no thread       *)
(* capturing (stop_capture, do_open_file, start_capture, the end of run).  *)
THEOREM NoOrphan == Spec => []NoOrphanThread
<1>1. BaseInv => NoOrphanThread
  BY DEF BaseInv, ControlInv
<1> QED
  BY <1>1, BaseInit, BaseStep, PTL DEF Spec

-----------------------------------------------------------------------------
(* Order.  The pipeline is sorted by arrival and nothing in it is younger  *)
(* than the last arrival.                                                  *)

OrderInv ==
  ~fileOpen => /\ FifoOrder
               /\ \A i \in 1..Len(Pipeline) : Pipeline[i].id <= clock

LEMMA OrderInit == Init => OrderInv
<1> SUFFICES ASSUME Init PROVE OrderInv
  OBVIOUS
<1>1. Pipeline = <<>>
  BY ConcatEmptySeq DEF Init, Pipeline
<1> QED
  BY <1>1 DEF OrderInv, FifoOrder

LEMMA OrderStep ==
  ASSUME BaseInv, OrderInv, [Next]_vars
  PROVE  OrderInv'
<1>1. /\ Pipeline \in Seq(Packet) /\ Pipeline' \in Seq(Packet) /\ clock \in Nat
      /\ \A i \in 1..Len(Pipeline) : Pipeline[i].id \in Nat
  <2>1. Pipeline \in Seq(Packet) /\ Pipeline' \in Seq(Packet)
    BY PipelineTyped, PipelineTypedNext DEF BaseInv
  <2>2. ASSUME NEW i \in 1..Len(Pipeline) PROVE Pipeline[i].id \in Nat
    <3>1. Pipeline[i] \in Packet
      BY <2>1
    <3> QED
      BY <3>1 DEF Packet
  <2> QED
    BY <2>1, <2>2 DEF BaseInv, CountTypeOK
<1>2. CASE Stays
  BY <1>2 DEF Stays, OrderInv, FifoOrder
<1>3. ASSUME NEW p \in Packet, Joins(p) PROVE OrderInv'
  <2> SUFFICES ASSUME ~fileOpen' PROVE OrderInv'
    BY DEF OrderInv
  <2>1. /\ \A i, j \in 1..Len(Pipeline) : i < j => Pipeline[i].id < Pipeline[j].id
        /\ \A i \in 1..Len(Pipeline) : Pipeline[i].id <= clock
    BY <1>3 DEF Joins, OrderInv, FifoOrder
  <2>2. /\ Len(Pipeline') = Len(Pipeline) + 1 /\ Len(Pipeline) \in Nat
        /\ \A i \in 1..Len(Pipeline) : Pipeline'[i] = Pipeline[i]
        /\ Pipeline'[Len(Pipeline) + 1].id = clock + 1
        /\ clock' = clock + 1
    BY <1>1, <1>3, AppendProperties DEF Joins
  <2>3. ASSUME NEW i \in 1..Len(Pipeline'), NEW j \in 1..Len(Pipeline'), i < j
        PROVE  Pipeline'[i].id < Pipeline'[j].id
    <3>1. i \in 1..Len(Pipeline) /\ Pipeline[i].id <= clock /\ Pipeline'[i] = Pipeline[i]
      BY <2>1, <2>2, <2>3
    <3>2. CASE j = Len(Pipeline) + 1
      BY <1>1, <2>2, <3>1, <3>2
    <3>3. CASE j \in 1..Len(Pipeline)
      BY <2>1, <2>2, <2>3, <3>1, <3>3
    <3> QED
      BY <2>2, <3>2, <3>3
  <2>4. ASSUME NEW i \in 1..Len(Pipeline') PROVE Pipeline'[i].id <= clock'
    <3>1. CASE i = Len(Pipeline) + 1
      BY <1>1, <2>2, <3>1
    <3>2. CASE i \in 1..Len(Pipeline)
      <4>1. Pipeline'[i].id <= clock
        BY <2>1, <2>2, <3>2
      <4> QED
        BY <1>1, <2>2, <3>2, <4>1
    <3> QED
      BY <2>2, <3>1, <3>2
  <2> QED
    BY <2>3, <2>4 DEF OrderInv, FifoOrder
<1>4. ASSUME NEW t \in Seq(Packet), Leaves(t) PROVE OrderInv'
  <2>1. /\ Len(Pipeline) = Len(Pipeline') + Len(t)
        /\ Len(Pipeline') \in Nat /\ Len(t) \in Nat
        /\ \A i \in 1..Len(Pipeline') : Pipeline[i] = Pipeline'[i]
    BY <1>1, <1>4, ConcatProperties DEF Leaves
  <2> QED
    BY <1>4, <2>1 DEF Leaves, OrderInv, FifoOrder
<1>5. ASSUME NEW f \in Files, Loaded(f) PROVE OrderInv'
  BY <1>5 DEF Loaded, OrderInv
<1> QED
  BY PipelineStep, <1>2, <1>3, <1>4, <1>5

(* Packets are listed in the order in which they arrived, each once, for   *)
(* any channel capacity and any interleaving of arrivals, drains, stops    *)
(* and restarts.                                                           *)
THEOREM Fifo == Spec => []FifoOrder
<1>1. Init => BaseInv /\ OrderInv
  BY BaseInit, OrderInit
<1>2. BaseInv /\ OrderInv /\ [Next]_vars => BaseInv' /\ OrderInv'
  BY BaseStep, OrderStep
<1>3. OrderInv => FifoOrder
  BY DEF OrderInv, FifoOrder
<1> QED
  BY <1>1, <1>2, <1>3, PTL DEF Spec

-----------------------------------------------------------------------------
(* Numbering.  A number in the pipeline is at least the position, and      *)
(* exactly the position as long as nothing was dropped at a full channel.  *)

NumberInv ==
  /\ \A i \in 1..Len(Pipeline) :
       /\ Pipeline[i].index >= i - 1
       /\ dropped = {} => Pipeline[i].index = i - 1
  /\ thread # "none" =>
       /\ nextIndex >= Len(Pipeline)
       /\ dropped = {} => nextIndex = Len(Pipeline)

LEMMA NumberInit == Init => NumberInv
<1> SUFFICES ASSUME Init PROVE NumberInv
  OBVIOUS
<1>1. Pipeline = <<>>
  BY ConcatEmptySeq DEF Init, Pipeline
<1> QED
  BY <1>1 DEF NumberInv, Init

LEMMA NumberStep ==
  ASSUME BaseInv, NumberInv, [Next]_vars
  PROVE  NumberInv'
<1>1. /\ Pipeline \in Seq(Packet) /\ Pipeline' \in Seq(Packet) /\ nextIndex \in Nat
      /\ \A i \in 1..Len(Pipeline) : Pipeline[i].index \in Nat
  <2>1. Pipeline \in Seq(Packet) /\ Pipeline' \in Seq(Packet)
    BY PipelineTyped, PipelineTypedNext DEF BaseInv
  <2>2. ASSUME NEW i \in 1..Len(Pipeline) PROVE Pipeline[i].index \in Nat
    <3>1. Pipeline[i] \in Packet
      BY <2>1
    <3> QED
      BY <3>1 DEF Packet
  <2> QED
    BY <2>1, <2>2 DEF BaseInv, CountTypeOK
<1>2. CASE Stays
  BY <1>2 DEF Stays, NumberInv
<1>3. ASSUME NEW p \in Packet, Joins(p) PROVE NumberInv'
  <2>1. /\ Len(Pipeline') = Len(Pipeline) + 1 /\ Len(Pipeline) \in Nat
        /\ \A i \in 1..Len(Pipeline) : Pipeline'[i] = Pipeline[i]
        /\ Pipeline'[Len(Pipeline) + 1].index = nextIndex
        /\ nextIndex' = nextIndex + 1 /\ dropped' = dropped /\ thread # "none"
    BY <1>1, <1>3, AppendProperties DEF Joins
  <2>2. ASSUME NEW i \in 1..Len(Pipeline')
        PROVE  /\ Pipeline'[i].index >= i - 1
               /\ dropped' = {} => Pipeline'[i].index = i - 1
    <3>1. CASE i = Len(Pipeline) + 1
      BY <1>1, <2>1, <3>1 DEF NumberInv
    <3>2. CASE i \in 1..Len(Pipeline)
      BY <2>1, <3>2 DEF NumberInv
    <3> QED
      BY <2>1, <3>1, <3>2
  <2>3. nextIndex' >= Len(Pipeline') /\ (dropped' = {} => nextIndex' = Len(Pipeline'))
    BY <1>1, <2>1 DEF NumberInv
  <2> QED
    BY <2>2, <2>3 DEF NumberInv
<1>4. ASSUME NEW t \in Seq(Packet), Leaves(t) PROVE NumberInv'
  <2>1. /\ Len(Pipeline) = Len(Pipeline') + Len(t)
        /\ Len(Pipeline') \in Nat /\ Len(t) \in Nat
        /\ \A i \in 1..Len(Pipeline') : Pipeline[i] = Pipeline'[i]
    BY <1>1, <1>4, ConcatProperties DEF Leaves
  <2>2. ASSUME NEW i \in 1..Len(Pipeline')
        PROVE  /\ Pipeline'[i].index >= i - 1
               /\ dropped' = {} => Pipeline'[i].index = i - 1
    <3>1. i \in 1..Len(Pipeline) /\ Pipeline'[i] = Pipeline[i]
      BY <2>1
    <3>2. dropped' = {} => dropped = {}
      BY <1>4 DEF Leaves
    <3> QED
      BY <3>1, <3>2 DEF NumberInv
  <2>3. thread' # "none" =>
          /\ nextIndex' >= Len(Pipeline')
          /\ dropped' = {} => nextIndex' = Len(Pipeline')
    BY <1>1, <1>4, <2>1 DEF Leaves, NumberInv
  <2> QED
    BY <2>2, <2>3 DEF NumberInv
<1>5. ASSUME NEW f \in Files, Loaded(f) PROVE NumberInv'
  <2>1. Len(f) \in Nat
    BY KindAssumption
  <2>2. /\ Len(Pipeline') = Len(f)
        /\ \A i \in 1..Len(Pipeline') : Pipeline'[i].index = i - 1
    BY <1>5, <2>1 DEF Loaded, LoadPcap
  <2> QED
    BY <1>5, <2>1, <2>2 DEF Loaded, NumberInv
<1> QED
  BY PipelineStep, <1>2, <1>3, <1>4, <1>5

LEMMA StoreNumbered ==
  ASSUME BaseInv, NumberInv
  PROVE  IndexAligned /\ DriftForward
<1>1. /\ Len(store) \in Nat /\ Len(store) <= Len(Pipeline)
      /\ \A i \in 1..Len(store) : Pipeline[i] = store[i]
      /\ Len(Pipeline) \in Nat
  BY PipelineTyped DEF BaseInv, QueueTypeOK
<1>2. \A i \in 1..Len(store) : i \in 1..Len(Pipeline)
  BY <1>1
<1>3. \A i \in 1..Len(store) :
        /\ store[i].index >= i - 1
        /\ dropped = {} => store[i].index = i - 1
  BY <1>1, <1>2 DEF NumberInv
<1> QED
  BY <1>3 DEF IndexAligned, DriftForward

LEMMA NumberAlways == Spec => [](BaseInv /\ NumberInv)
<1>1. Init => BaseInv /\ NumberInv
  BY BaseInit, NumberInit
<1>2. BaseInv /\ NumberInv /\ [Next]_vars => BaseInv' /\ NumberInv'
  BY BaseStep, NumberStep
<1> QED
  BY <1>1, <1>2, PTL DEF Spec

(* What a step does to the store, the numbers in it and the side table.    *)
Untouched ==
  /\ UNCHANGED <<store, traces>>
  /\ dropped' = {} => dropped = {}

LEMMA SideStep ==
  [Next]_vars => Untouched \/ Receive \/ \E f \in Files : LoadFile(f)
<1> USE DEF Untouched, storeVars, viewVars, appVars, threadVars, drainVars, historyVars
<1>1. ASSUME CheckStop \/ PollTimeout \/ PollError PROVE Untouched
  BY <1>1 DEF CheckStop, PollTimeout, PollError
<1>2. ASSUME NEW k \in Kinds, Arrive(k) PROVE Untouched
  BY <1>2 DEF Arrive
<1>3. ASSUME TrySend PROVE Untouched
  BY <1>3 DEF TrySend
<1>4. ASSUME BeginDrain \/ EndReceive \/ EndDrain PROVE Untouched
  BY <1>4 DEF BeginDrain, EndReceive, EndDrain
<1>5. ASSUME EndStop \/ Halt \/ DropApp PROVE Untouched
  BY <1>5 DEF EndStop, Halt, DropApp, DropCapture
<1>6. ASSUME Tick \/ OpenPicker \/ ClosePicker PROVE Untouched
  BY <1>6 DEF Tick, OpenPicker, ClosePicker
<1>7. ASSUME QuitPicker \/ ForceQuit PROVE Untouched
  BY <1>7 DEF QuitPicker, ForceQuit, Quit
<1>8. ASSUME Stop \/ OpenFile PROVE Untouched
  BY <1>8 DEF Stop, OpenFile, RequestStop
<1>9. ASSUME Start PROVE Untouched
  BY <1>9 DEF Start
<1>10. ASSUME ToggleAutoScroll \/ ClearFilter PROVE Untouched
  BY <1>10 DEF ToggleAutoScroll, ClearFilter
<1>11. ASSUME NEW r \in 0..(FilteredLen - 1), Navigate(r) PROVE Untouched
  BY <1>11 DEF Navigate
<1>12. ASSUME NEW f \in Filters, ApplyFilter(f) PROVE Untouched
  BY <1>12 DEF ApplyFilter
<1>13. ASSUME Joined \/ LoadFailed PROVE Untouched
  BY <1>13 DEF Joined, LoadFailed
<1>14. ASSUME Terminated \/ UNCHANGED vars PROVE Untouched
  BY <1>14 DEF Terminated, vars
<1> HIDE DEF Untouched
<1> QED
  BY <1>1, <1>2, <1>3, <1>4, <1>5, <1>6, <1>7, <1>8, <1>9, <1>10, <1>11, <1>12, <1>13, <1>14
  DEF Next, ThreadNext, UiNext, KeyNext

(* Without drops the packet at the head of the channel carries the number  *)
(* of the place it is about to take.                                       *)
LEMMA HeadNumbered ==
  ASSUME BaseInv, NumberInv, chan # <<>>, dropped = {}
  PROVE  Head(chan).index = Len(store)
<1>1. /\ store \in Seq(Packet) /\ chan \in Seq(Packet) /\ held \in Seq(Packet)
      /\ Len(store) \in Nat /\ Len(chan) \in Nat /\ Len(chan) > 0 /\ Len(held) \in Nat
  BY DEF BaseInv, QueueTypeOK
<1>2. Pipeline = store \o (chan \o held)
  BY <1>1, ThreeParts DEF Pipeline
<1>3. (chan \o held)[1] = chan[1] /\ Len(chan \o held) = Len(chan) + Len(held)
  BY <1>1, ConcatProperties
<1>4. Pipeline[Len(store) + 1] = chan[1] /\ Len(store) + 1 \in 1..Len(Pipeline)
  <2>1. chan \o held \in Seq(Packet)
    BY <1>1, ThreeParts
  <2>2. Len(chan \o held) \in Nat /\ Len(chan \o held) > 0
    BY <1>1, <1>3
  <2> QED
    BY <1>1, <1>2, <1>3, <2>1, <2>2, ConcatProperties
<1>5. Pipeline[Len(store) + 1].index = (Len(store) + 1) - 1
  BY <1>4 DEF NumberInv
<1>6. chan[1].index = Len(store)
  BY <1>1, <1>4, <1>5
<1> QED
  BY <1>1, <1>6

SideInv ==
  /\ DOMAIN traces \subseteq Nat
  /\ \A i \in DOMAIN traces : traces[i] \in Nat
  /\ TracesAligned

LEMMA SideInit == Init => SideInv
  BY DEF Init, SideInv, TracesAligned

(* The head of the channel is a packet, with a number and an arrival time. *)
LEMMA HeadTyped ==
  ASSUME BaseInv, chan # <<>>
  PROVE  Head(chan) \in Packet /\ Head(chan).index \in Nat /\ Head(chan).id \in Nat
<1>1. Head(chan) \in Packet
  BY DEF BaseInv, QueueTypeOK
<1> QED
  BY <1>1 DEF Packet

LEMMA TracesStep ==
  ASSUME BaseInv, NumberInv, SideInv, [Next]_vars
  PROVE  TracesAligned'
<1>1. CASE Untouched
  BY <1>1 DEF Untouched, SideInv, TracesAligned
<1>2. CASE Receive
  <2> SUFFICES ASSUME dropped' = {}, NEW i \in DOMAIN traces'
               PROVE  i < Len(store') /\ store'[i + 1].id = traces'[i]
    BY DEF TracesAligned
  <2> DEFINE p == Head(chan)
  <2>1. /\ dropped = {} /\ chan # <<>>
        /\ traces' = IF p.kind \in TracedKinds THEN Filed(p.index, p.id) ELSE traces
        /\ store' = Append(store, p)
    BY <1>2 DEF Receive, historyVars, SideIndex, StoreAdd
  <2>2. p.index = Len(store)
    BY <2>1, HeadNumbered
  <2>3. /\ store \in Seq(Packet) /\ p \in Packet /\ Len(store) \in Nat
        /\ Len(store') = Len(store) + 1
        /\ \A j \in 1..Len(store) : store'[j] = store[j]
        /\ store'[Len(store) + 1] = p
    <3>1. store \in Seq(Packet)
      BY DEF BaseInv, QueueTypeOK
    <3>2. p \in Packet
      BY <2>1, HeadTyped
    <3> QED
      BY <2>1, <3>1, <3>2, AppendProperties
  <2>4. \A j \in DOMAIN traces : j < Len(store) /\ store[j + 1].id = traces[j]
    BY <2>1 DEF SideInv, TracesAligned
  <2>5. CASE i = Len(store) /\ p.kind \in TracedKinds
    <3>1. traces'[i] = p.id
      BY <2>1, <2>2, <2>5 DEF Filed
    <3> QED
      BY <2>3, <2>5, <3>1
  <2>6. CASE ~(i = Len(store) /\ p.kind \in TracedKinds)
    <3>1. i \in DOMAIN traces /\ traces'[i] = traces[i]
      BY <2>1, <2>2, <2>6 DEF Filed
    <3>2. i < Len(store) /\ store[i + 1].id = traces[i] /\ i \in Nat
      BY <2>4, <3>1 DEF SideInv
    <3> QED
      BY <2>3, <3>1, <3>2
  <2> QED
    BY <2>5, <2>6
<1>3. ASSUME NEW f \in Files, LoadFile(f) PROVE TracesAligned'
  BY <1>3 DEF LoadFile, TracesAligned
<1> QED
  BY SideStep, <1>1, <1>2, <1>3

LEMMA SideInvStep ==
  ASSUME BaseInv, NumberInv, SideInv, [Next]_vars
  PROVE  SideInv'
<1>1. TracesAligned'
  BY TracesStep
<1>2. CASE Untouched
  BY <1>1, <1>2 DEF Untouched, SideInv
<1>3. CASE Receive
  <2>1. Head(chan).index \in Nat /\ Head(chan).id \in Nat
    BY <1>3, HeadTyped DEF Receive
  <2>2. \/ traces' = Filed(Head(chan).index, Head(chan).id)
        \/ traces' = traces
    BY <1>3 DEF Receive, SideIndex
  <2> QED
    BY <1>1, <2>1, <2>2 DEF SideInv, Filed
<1>4. ASSUME NEW f \in Files, LoadFile(f) PROVE SideInv'
  BY <1>1, <1>4 DEF LoadFile, SideInv
<1> QED
  BY SideStep, <1>2, <1>3, <1>4

(* PacketSummary.index stands for the position in the store: it is that    *)
(* position, through stops, restarts and opened files, as long as no       *)
(* packet was dropped at a full channel, and then the process information  *)
(* filed under a position belongs to the packet there; with drops it only  *)
(* ever runs ahead (capture_loop, drain_capture_packets, start_capture).   *)
THEOREM Numbers == Spec => []NumbersArePositions
<1>1. Init => SideInv
  BY SideInit
<1>2. BaseInv /\ NumberInv /\ SideInv /\ [Next]_vars => SideInv'
  BY SideInvStep
<1>3. BaseInv /\ NumberInv /\ SideInv => NumbersArePositions
  BY StoreNumbered DEF SideInv, NumbersArePositions
<1> QED
  BY <1>1, <1>2, <1>3, NumberAlways, PTL DEF Spec

-----------------------------------------------------------------------------
(* Phases of the App.                                                      *)

PhaseInv ==
  /\ (caller = "exit") = ~running
  /\ uiPc \in {"drop", "halted"} => ~running
  /\ uiPc \in {"key", "load"} => caller = "tick"
  /\ picker => /\ capState # "Capturing" /\ ~fileOpen
               /\ caller = "tick" /\ uiPc # "load"
  /\ fileOpen => thread = "none"
  /\ thread = "none" => chan = <<>>

LEMMA PhaseInit == Init => PhaseInv
  BY DEF Init, PhaseInv

LEMMA PhaseStep ==
  ASSUME BaseInv, PhaseInv, [Next]_vars
  PROVE  PhaseInv'
<1> USE DEF PhaseInv, storeVars, viewVars, appVars, threadVars, drainVars, historyVars
<1>0. ModeTypeOK /\ ControlInv
  BY DEF BaseInv
<1>1. ASSUME CheckStop \/ PollTimeout \/ PollError PROVE PhaseInv'
  BY <1>1 DEF CheckStop, PollTimeout, PollError
<1>2. ASSUME NEW k \in Kinds, Arrive(k) PROVE PhaseInv'
  BY <1>2 DEF Arrive
<1>3. ASSUME TrySend PROVE PhaseInv'
  BY <1>3 DEF TrySend
<1>4. ASSUME BeginDrain PROVE PhaseInv'
  BY <1>0, <1>4 DEF BeginDrain, NoLiveCapture, ModeTypeOK, ControlInv, Reaping
<1>5. ASSUME Receive PROVE PhaseInv'
  BY <1>0, <1>5 DEF Receive, ControlInv
<1>6. ASSUME EndReceive PROVE PhaseInv'
  BY <1>6 DEF EndReceive
<1>7. ASSUME EndDrain PROVE PhaseInv'
  BY <1>0, <1>7 DEF EndDrain, IsFinished, ModeTypeOK
<1>8. ASSUME EndStop PROVE PhaseInv'
  BY <1>0, <1>8 DEF EndStop, DropCapture, ModeTypeOK
<1>9. ASSUME Tick \/ OpenPicker \/ ClosePicker PROVE PhaseInv'
  BY <1>9 DEF Tick, OpenPicker, ClosePicker
<1>10. ASSUME QuitPicker \/ ForceQuit PROVE PhaseInv'
  BY <1>10 DEF QuitPicker, ForceQuit, Quit
<1>11. ASSUME Stop PROVE PhaseInv'
  BY <1>11 DEF Stop, RequestStop
<1>12. ASSUME OpenFile PROVE PhaseInv'
  BY <1>12 DEF OpenFile, RequestStop
<1>13. ASSUME Start PROVE PhaseInv'
  BY <1>13 DEF Start
<1>14. ASSUME ToggleAutoScroll \/ ClearFilter PROVE PhaseInv'
  BY <1>14 DEF ToggleAutoScroll, ClearFilter
<1>15. ASSUME NEW r \in 0..(FilteredLen - 1), Navigate(r) PROVE PhaseInv'
  BY <1>15 DEF Navigate
<1>16. ASSUME NEW f \in Filters, ApplyFilter(f) PROVE PhaseInv'
  BY <1>16 DEF ApplyFilter
<1>17. ASSUME Joined PROVE PhaseInv'
  BY <1>0, <1>17 DEF Joined, JoinReturns, ControlInv
<1>18. ASSUME LoadFailed PROVE PhaseInv'
  BY <1>18 DEF LoadFailed
<1>19. ASSUME NEW f \in Files, LoadFile(f) PROVE PhaseInv'
  BY <1>19 DEF LoadFile, DropCapture
<1>20. ASSUME DropApp PROVE PhaseInv'
  BY <1>20 DEF DropApp
<1>21. ASSUME Halt PROVE PhaseInv'
  BY <1>21 DEF Halt, DropCapture
<1>22. ASSUME Terminated \/ UNCHANGED vars PROVE PhaseInv'
  BY <1>22 DEF Terminated, vars
<1> HIDE DEF PhaseInv
<1> QED
  BY <1>1, <1>2, <1>3, <1>4, <1>5, <1>6, <1>7, <1>8, <1>9, <1>10, <1>11, <1>12, <1>13,
     <1>14, <1>15, <1>16, <1>17, <1>18, <1>19, <1>20, <1>21, <1>22
  DEF Next, ThreadNext, UiNext, KeyNext

-----------------------------------------------------------------------------
(* Sets of arrivals.                                                       *)

LEMMA IdsEmpty == Ids(<<>>) = {}
  BY DEF Ids

LEMMA IdsConcat ==
  ASSUME NEW s \in Seq(Packet), NEW t \in Seq(Packet)
  PROVE  Ids(s \o t) = Ids(s) \cup Ids(t)
<1>1. /\ Len(s) \in Nat /\ Len(t) \in Nat
      /\ Len(s \o t) = Len(s) + Len(t)
      /\ \A i \in 1..(Len(s) + Len(t)) :
           (s \o t)[i] = IF i <= Len(s) THEN s[i] ELSE t[i - Len(s)]
  BY ConcatProperties
<1>2. ASSUME NEW x \in Ids(s \o t) PROVE x \in Ids(s) \cup Ids(t)
  <2>1. PICK i \in 1..Len(s \o t) : x = (s \o t)[i].id
    BY DEF Ids
  <2>2. CASE i <= Len(s)
    BY <1>1, <2>1, <2>2 DEF Ids
  <2>3. CASE i > Len(s)
    <3>1. i - Len(s) \in 1..Len(t) /\ x = t[i - Len(s)].id
      BY <1>1, <2>1, <2>3
    <3> QED
      BY <3>1 DEF Ids
  <2> QED
    BY <1>1, <2>2, <2>3
<1>3. ASSUME NEW x \in Ids(s) PROVE x \in Ids(s \o t)
  <2>1. PICK i \in 1..Len(s) : x = s[i].id
    BY DEF Ids
  <2>2. i \in 1..Len(s \o t) /\ (s \o t)[i] = s[i]
    BY <1>1
  <2> QED
    BY <2>1, <2>2 DEF Ids
<1>4. ASSUME NEW x \in Ids(t) PROVE x \in Ids(s \o t)
  <2>1. PICK i \in 1..Len(t) : x = t[i].id
    BY DEF Ids
  <2>2. Len(s) + i \in 1..Len(s \o t) /\ (s \o t)[Len(s) + i] = t[i]
    BY <1>1
  <2> QED
    BY <2>1, <2>2 DEF Ids
<1> QED
  BY <1>2, <1>3, <1>4

LEMMA IdsOne == ASSUME NEW p \in Packet PROVE Ids(<<p>>) = {p.id}
<1>1. Len(<<p>>) = 1 /\ <<p>>[1] = p
  OBVIOUS
<1>2. 1..1 = {1}
  OBVIOUS
<1> QED
  BY <1>1, <1>2 DEF Ids

LEMMA IdsAppend ==
  ASSUME NEW s \in Seq(Packet), NEW p \in Packet
  PROVE  Ids(Append(s, p)) = Ids(s) \cup {p.id}
<1>1. Append(s, p) = s \o <<p>> /\ <<p>> \in Seq(Packet)
  BY AppendIsConcat
<1> QED
  BY <1>1, IdsConcat, IdsOne

LEMMA IdsHead ==
  ASSUME NEW s \in Seq(Packet), s # <<>>
  PROVE  Ids(s) = {Head(s).id} \cup Ids(Tail(s))
<1>1. /\ Head(s) \in Packet /\ Tail(s) \in Seq(Packet) /\ <<Head(s)>> \in Seq(Packet)
      /\ s = <<Head(s)>> \o Tail(s)
  OBVIOUS
<1> QED
  BY <1>1, IdsConcat, IdsOne

(* The five places a packet can be in, as sets.                            *)
Apart(A, B, C, D, E) ==
  /\ A \cap B = {} /\ A \cap C = {} /\ A \cap D = {} /\ A \cap E = {}
  /\ B \cap C = {} /\ B \cap D = {} /\ B \cap E = {}
  /\ C \cap D = {} /\ C \cap E = {} /\ D \cap E = {}

Placed(n, A, B, C, D, E) ==
  /\ 1..n = A \cup B \cup C \cup D \cup E
  /\ Apart(A, B, C, D, E)

LEMMA FivePlaces ==
  ASSUME NEW n, NEW A, NEW B, NEW C, NEW D, NEW E
  PROVE  LET places == <<A, B, C, D, E>> IN
           (/\ 1..n = UNION {places[i] : i \in 1..5}
            /\ \A i, j \in 1..5 : i # j => places[i] \cap places[j] = {})
           <=> Placed(n, A, B, C, D, E)
<1> DEFINE places == <<A, B, C, D, E>>
<1>1. /\ places[1] = A /\ places[2] = B /\ places[3] = C /\ places[4] = D /\ places[5] = E
      /\ 1..5 = {1, 2, 3, 4, 5}
  OBVIOUS
<1> HIDE DEF places
<1>2. UNION {places[i] : i \in 1..5} = A \cup B \cup C \cup D \cup E
  BY <1>1
<1>3. (\A i, j \in 1..5 : i # j => places[i] \cap places[j] = {}) <=> Apart(A, B, C, D, E)
  BY <1>1 DEF Apart
<1> QED
  BY <1>2, <1>3 DEF Placed, places

LEMMA AccountedPlaces ==
  Accounted <=> (~fileOpen => Placed(clock, Ids(store), Ids(chan), Ids(held), dropped, lost))
  BY FivePlaces DEF Accounted, StoreIds

-----------------------------------------------------------------------------
(* Every packet is in exactly one place.                                   *)

LEMMA Queues ==
  ASSUME BaseInv
  PROVE  /\ store \in Seq(Packet) /\ chan \in Seq(Packet) /\ held \in Seq(Packet)
         /\ Len(store) \in Nat /\ Len(chan) \in Nat /\ Len(held) \in Nat
         /\ clock \in Nat
         /\ thread # "send" => held = <<>>
  BY DEF BaseInv, QueueTypeOK, CountTypeOK

(* What waits behind the head of the channel arrived after it.             *)
LEMMA HeadOldest ==
  ASSUME BaseInv, OrderInv, ~fileOpen, chan # <<>>
  PROVE  \A x \in Ids(Tail(chan)) \cup Ids(held) : Head(chan).id < x
<1> DEFINE n == Len(store)
<1>1. /\ store \in Seq(Packet) /\ chan \in Seq(Packet) /\ held \in Seq(Packet)
      /\ n \in Nat /\ Len(chan) \in Nat /\ Len(chan) > 0 /\ Len(held) \in Nat
  BY Queues
<1>2. /\ chan \o held \in Seq(Packet) /\ Pipeline = store \o (chan \o held)
      /\ Len(chan \o held) = Len(chan) + Len(held)
  BY <1>1, ThreeParts, ConcatProperties DEF Pipeline
<1>3. /\ \A i \in 1..Len(chan) : (chan \o held)[i] = chan[i]
      /\ \A i \in 1..Len(held) : (chan \o held)[Len(chan) + i] = held[i]
  BY <1>1, ConcatProperties
<1>4. /\ \A i \in 1..(Len(chan) + Len(held)) : Pipeline[n + i] = (chan \o held)[i]
      /\ Len(Pipeline) = n + (Len(chan) + Len(held))
  BY <1>1, <1>2, ConcatProperties
<1>5. \A i, j \in 1..Len(Pipeline) : i < j => Pipeline[i].id < Pipeline[j].id
  BY DEF OrderInv, FifoOrder
<1>6. Pipeline[n + 1] = Head(chan)
  <2>1. Head(chan) = chan[1] /\ 1 \in 1..Len(chan)
    BY <1>1
  <2> QED
    BY <1>1, <1>3, <1>4, <2>1
<1>7. ASSUME NEW x \in Ids(Tail(chan)) PROVE Head(chan).id < x
  <2>1. /\ Tail(chan) \in Seq(Packet) /\ Len(Tail(chan)) = Len(chan) - 1
        /\ \A i \in 1..Len(Tail(chan)) : Tail(chan)[i] = chan[i + 1]
    BY <1>1, HeadTailProperties
  <2>2. PICK i \in 1..Len(Tail(chan)) : x = Tail(chan)[i].id
    BY DEF Ids
  <2>3. i + 1 \in 1..Len(chan) /\ x = chan[i + 1].id
    BY <1>1, <2>1, <2>2
  <2>4. Pipeline[n + (i + 1)] = chan[i + 1]
    BY <1>1, <1>3, <1>4, <2>3
  <2>5. n + 1 < n + (i + 1) /\ n + 1 \in 1..Len(Pipeline) /\ n + (i + 1) \in 1..Len(Pipeline)
    BY <1>1, <1>4, <2>3
  <2> QED
    BY <1>5, <1>6, <2>3, <2>4, <2>5
<1>8. ASSUME NEW x \in Ids(held) PROVE Head(chan).id < x
  <2>1. PICK i \in 1..Len(held) : x = held[i].id
    BY DEF Ids
  <2>2. Pipeline[n + (Len(chan) + i)] = held[i]
    <3>1. Len(chan) + i \in 1..(Len(chan) + Len(held))
      BY <1>1, <2>1
    <3>2. (chan \o held)[Len(chan) + i] = held[i]
      BY <1>3, <2>1
    <3> QED
      BY <1>4, <3>1, <3>2
  <2>3. n + 1 < n + (Len(chan) + i) /\ n + 1 \in 1..Len(Pipeline)
        /\ n + (Len(chan) + i) \in 1..Len(Pipeline)
    BY <1>1, <1>4, <2>1
  <2> QED
    BY <1>5, <1>6, <2>1, <2>2, <2>3
<1> QED
  BY <1>7, <1>8

LEMMA AccountedInit == Init => Accounted
<1> SUFFICES ASSUME Init PROVE Accounted
  OBVIOUS
<1>1. Placed(0, {}, {}, {}, {}, {})
  BY DEF Placed, Apart
<1> QED
  BY <1>1, AccountedPlaces, IdsEmpty DEF Init

LEMMA AccountedStep ==
  ASSUME BaseInv, PhaseInv, OrderInv, Accounted, [Next]_vars
  PROVE  Accounted'
<1> DEFINE A == Ids(store) B == Ids(chan) C == Ids(held)
<1>1. Accounted' <=> (~fileOpen' => Placed(clock', A', B', C', dropped', lost'))
  BY FivePlaces DEF Accounted, StoreIds, A, B, C
<1> SUFFICES ASSUME ~fileOpen' PROVE Placed(clock', A', B', C', dropped', lost')
  BY <1>1
<1> HIDE DEF A, B, C
<1>2. ASSUME ~fileOpen PROVE Placed(clock, A, B, C, dropped, lost)
  BY <1>2, AccountedPlaces DEF A, B, C
<1>3. CASE Quiet
  <2>1. Placed(clock, A, B, C, dropped, lost)
    BY <1>2, <1>3 DEF Quiet
  <2> QED
    BY <1>3, <2>1 DEF Quiet, A, B, C
<1>4. ASSUME NEW k \in Kinds, Arrive(k) PROVE Placed(clock', A', B', C', dropped', lost')
  <2> DEFINE p == [id |-> clock', index |-> nextIndex, ts |-> clock' - firstTs', kind |-> k]
  <2>1. /\ held = <<>> /\ held' = <<p>> /\ clock' = clock + 1 /\ clock \in Nat
        /\ UNCHANGED <<chan, store, dropped, lost, fileOpen>>
    BY <1>4, Queues DEF Arrive, storeVars, appVars
  <2>2. p \in Packet /\ p.id = clock + 1
    BY <1>4, <2>1 DEF Arrive, Packet, BaseInv, CountTypeOK, NoTs
  <2>3. C = {} /\ C' = {clock + 1} /\ A' = A /\ B' = B
    BY <2>1, <2>2, IdsEmpty, IdsOne DEF A, B, C
  <2>4. Placed(clock, A, B, {}, dropped, lost)
    BY <1>2, <2>1, <2>3
  <2>5. 1..(clock + 1) = (1..clock) \cup {clock + 1} /\ clock + 1 \notin 1..clock
    BY <2>1
  <2> QED
    BY <2>1, <2>3, <2>4, <2>5 DEF Placed, Apart
<1>5. CASE TrySend
  <2>1. held' = <<>> /\ UNCHANGED <<store, clock, lost, fileOpen>>
    BY <1>5 DEF TrySend, storeVars, appVars
  <2>2. C' = {} /\ A' = A /\ Placed(clock, A, B, C, dropped, lost)
    BY <1>2, <2>1, IdsEmpty DEF A, C
  <2>3. CASE HasRoom
    <3>1. chan' = chan \o held /\ dropped' = dropped
      BY <1>5, <2>3 DEF TrySend
    <3>2. B' = B \cup C
      BY <3>1, Queues, IdsConcat DEF B, C
    <3> QED
      BY <2>1, <2>2, <3>1, <3>2 DEF Placed, Apart
  <2>4. CASE ~HasRoom
    <3>1. B' = B /\ dropped' = dropped \cup C
      BY <1>5, <2>4 DEF TrySend, B, C
    <3> QED
      BY <2>1, <2>2, <3>1 DEF Placed, Apart
  <2> QED
    BY <2>3, <2>4
<1>6. CASE Receive
  <2>1. /\ chan # <<>> /\ store' = Append(store, Head(chan)) /\ chan' = Tail(chan)
        /\ UNCHANGED <<held, clock, dropped, lost, fileOpen>>
    BY <1>6 DEF Receive, StoreAdd, Remaining, threadVars, appVars, historyVars
  <2> DEFINE h == Head(chan).id
  <2>2. /\ A' = A \cup {h} /\ B = {h} \cup B' /\ C' = C
    BY <2>1, Queues, HeadTyped, IdsAppend, IdsHead DEF A, B, C
  <2>3. h \notin B'
    <3>1. h \in Nat /\ \A x \in B' : h < x
      BY <2>1, HeadOldest, HeadTyped DEF B
    <3> QED
      BY <3>1
  <2>4. Placed(clock, A, B, C, dropped, lost)
    BY <1>2, <2>1
  <2> QED
    BY <2>1, <2>2, <2>3, <2>4 DEF Placed, Apart
<1>7. CASE EndStop \/ Halt
  <2>1. /\ chan' = <<>> /\ lost' = lost \cup B
        /\ UNCHANGED <<held, store, clock, dropped, fileOpen>>
    BY <1>7 DEF EndStop, Halt, DropCapture, storeVars, appVars, B
  <2>2. B' = {} /\ A' = A /\ C' = C /\ Placed(clock, A, B, C, dropped, lost)
    BY <1>2, <2>1, IdsEmpty DEF A, B, C
  <2> QED
    BY <2>1, <2>2 DEF Placed, Apart
<1>8. CASE Start
  <2>1. /\ chan' = <<>> /\ held' = <<>> /\ lost' = lost \cup B
        /\ UNCHANGED <<store, clock, dropped, fileOpen>>
    BY <1>8 DEF Start, storeVars, B
  <2>2. held = <<>>
    <3>1. thread \in {"none", "done"}
      BY <1>8 DEF Start, PhaseInv, BaseInv, ControlInv, NoOrphanThread
    <3> QED
      BY <3>1, Queues
  <2>3. B' = {} /\ A' = A /\ C = {} /\ C' = {} /\ Placed(clock, A, B, C, dropped, lost)
    BY <1>2, <2>1, <2>2, IdsEmpty DEF A, B, C
  <2> QED
    BY <2>1, <2>3 DEF Placed, Apart
<1>9. ASSUME NEW f \in Files, LoadFile(f) PROVE FALSE
  BY <1>9 DEF LoadFile
<1> QED
  BY QuietStep, <1>3, <1>4, <1>5, <1>6, <1>7, <1>8, <1>9

(* Everything known so far, as one inductive invariant.                    *)
FlowInv == BaseInv /\ PhaseInv /\ OrderInv /\ Accounted

LEMMA FlowInit == Init => FlowInv
  BY BaseInit, PhaseInit, OrderInit, AccountedInit DEF FlowInv

LEMMA FlowStep == FlowInv /\ [Next]_vars => FlowInv'
  BY BaseStep, PhaseStep, OrderStep, AccountedStep DEF FlowInv

(* Every packet that arrived is listed, in the channel, in hand, dropped   *)
(* at a full channel or lost with a channel that was dropped undrained,    *)
(* and in one of these places only (capture_loop, drain_capture_packets,   *)
(* stop_capture, start_capture, the end of run).                           *)
THEOREM Complete == Spec => []Accounted
<1>1. FlowInv => Accounted
  BY DEF FlowInv
<1> QED
  BY <1>1, FlowInit, FlowStep, PTL DEF Spec

-----------------------------------------------------------------------------
(* The packet list implements PacketLog: log is what the store lists.      *)

Listing(s) == [i \in 1..Len(s) |-> s[i].id]

LEMMA ListingTyped ==
  ASSUME NEW s \in Seq(Packet)
  PROVE  /\ Listing(s) \in Seq(Nat)
         /\ Len(Listing(s)) = Len(s) /\ Len(s) \in Nat
         /\ \A i \in 1..Len(s) : Listing(s)[i] = s[i].id
<1>1. \A i \in 1..Len(s) : s[i].id \in Nat
  <2>1. \A i \in 1..Len(s) : s[i] \in Packet
    OBVIOUS
  <2> QED
    BY <2>1 DEF Packet
<1>2. Len(s) \in Nat /\ Listing(s) \in [1..Len(s) -> Nat]
  BY <1>1 DEF Listing
<1>3. Listing(s) \in Seq(Nat)
  BY <1>2, SeqDef
<1>4. DOMAIN Listing(s) = 1..Len(s) /\ DOMAIN Listing(s) = 1..Len(Listing(s))
      /\ Len(Listing(s)) \in Nat
  BY <1>2, <1>3, LenProperties
<1> QED
  BY <1>2, <1>3, <1>4 DEF Listing

LEMMA ListingAppend ==
  ASSUME NEW s \in Seq(Packet), NEW p \in Packet
  PROVE  Listing(Append(s, p)) = Append(Listing(s), p.id)
<1>1. /\ Append(s, p) \in Seq(Packet) /\ Len(Append(s, p)) = Len(s) + 1
      /\ \A i \in 1..Len(s) : Append(s, p)[i] = s[i]
      /\ Append(s, p)[Len(s) + 1] = p
  BY AppendProperties
<1>2. p.id \in Nat
  BY DEF Packet
<1>3. /\ Listing(s) \in Seq(Nat) /\ Len(Listing(s)) = Len(s) /\ Len(s) \in Nat
      /\ \A i \in 1..Len(s) : Listing(s)[i] = s[i].id
  BY ListingTyped
<1>4. /\ Listing(Append(s, p)) \in Seq(Nat)
      /\ Len(Listing(Append(s, p))) = Len(s) + 1
      /\ \A i \in 1..(Len(s) + 1) : Listing(Append(s, p))[i] = Append(s, p)[i].id
  BY <1>1, ListingTyped
<1>5. /\ Append(Listing(s), p.id) \in Seq(Nat)
      /\ Len(Append(Listing(s), p.id)) = Len(s) + 1
      /\ \A i \in 1..Len(s) : Append(Listing(s), p.id)[i] = s[i].id
      /\ Append(Listing(s), p.id)[Len(s) + 1] = p.id
  BY <1>2, <1>3, AppendProperties
<1>6. \A i \in 1..(Len(s) + 1) : Listing(Append(s, p))[i] = Append(Listing(s), p.id)[i]
  BY <1>1, <1>3, <1>4, <1>5
<1> QED
  BY <1>4, <1>5, <1>6, SeqEqual

(* The packets pending in the abstract log are those in the channel and    *)
(* the one in hand.                                                        *)
LEMMA PendingPlaces ==
  ASSUME FlowInv, ~fileOpen
  PROVE  Log!Pending = Ids(chan) \cup Ids(held)
<1>1. Log!Listed = Ids(store)
  <2>1. /\ Listing(store) = [i \in 1..Len(store) |-> store[i].id]
        /\ Len(Listing(store)) = Len(store)
        /\ \A i \in 1..Len(store) : Listing(store)[i] = store[i].id
    BY ListingTyped, Queues DEF FlowInv, Listing
  <2>2. Log!Listed = {Listing(store)[i] : i \in 1..Len(Listing(store))}
    BY <2>1 DEF Log!Listed
  <2> QED
    BY <2>1, <2>2 DEF Ids
<1>2. Placed(clock, Ids(store), Ids(chan), Ids(held), dropped, lost)
  BY AccountedPlaces DEF FlowInv
<1> QED
  BY <1>1, <1>2 DEF Log!Pending, Placed, Apart

LEMMA LogInit == Init => Log!Init
<1> SUFFICES ASSUME Init PROVE Log!Init
  OBVIOUS
<1>1. <<>> \in Seq(Packet) /\ Len(Listing(<<>>)) = 0 /\ Listing(<<>>) \in Seq(Nat)
  <2>1. <<>> \in Seq(Packet) /\ Len(<<>>) = 0
    BY EmptySeq
  <2> QED
    BY <2>1, ListingTyped
<1>2. Listing(<<>>) = <<>>
  BY <1>1, EmptySeq
<1>3. [i \in 1..Len(store) |-> store[i].id] = <<>>
  BY <1>2 DEF Init, Listing
<1> QED
  BY <1>3 DEF Init, Log!Init

(* Without a capture there is nothing in the channel or in hand.           *)
LEMMA NothingInFlight ==
  ASSUME FlowInv, thread = "none"
  PROVE  Ids(chan) = {} /\ Ids(held) = {}
  BY Queues, IdsEmpty DEF FlowInv, PhaseInv

LEMMA LogStep ==
  ASSUME FlowInv, [Next]_vars
  PROVE  [Log!Next]_(Log!logVars)
<1> USE DEF Log!Next
<1> DEFINE log == [i \in 1..Len(store) |-> store[i].id]
<1>1. /\ store \in Seq(Packet) /\ chan \in Seq(Packet) /\ held \in Seq(Packet)
      /\ thread # "send" => held = <<>>
  BY Queues DEF FlowInv
<1>2. ASSUME store' = store PROVE log' = log
  BY <1>2
<1>3. CASE Quiet
  BY <1>3 DEF Quiet, Log!logVars
<1>4. ASSUME NEW k \in Kinds, Arrive(k) PROVE Log!Arrive
  BY <1>4 DEF Arrive, Log!Arrive, storeVars, appVars
<1>5. CASE TrySend
  <2>1. UNCHANGED <<store, clock, lost, fileOpen>> /\ thread # "none"
    BY <1>5 DEF TrySend, storeVars, appVars
  <2>2. CASE HasRoom
    BY <1>5, <2>1, <2>2 DEF TrySend, Log!logVars
  <2>3. CASE ~HasRoom
    <3>1. ~fileOpen
      BY <2>1 DEF FlowInv, PhaseInv
    <3>2. dropped' = dropped \cup Ids(held) /\ Ids(held) \subseteq Log!Pending
      BY <1>5, <2>3, <3>1, PendingPlaces DEF TrySend
    <3>3. log' = log
      BY <1>2, <2>1
    <3>4. Log!GiveUp
      BY <2>1, <3>2, <3>3 DEF Log!GiveUp
    <3> QED
      BY <3>4
  <2> QED
    BY <2>2, <2>3
<1>6. CASE Receive
  <2>1. /\ chan # <<>> /\ store' = Append(store, Head(chan))
        /\ UNCHANGED <<clock, dropped, lost, fileOpen>> /\ thread # "none"
    BY <1>6 DEF Receive, StoreAdd, appVars, historyVars, FlowInv, BaseInv, ControlInv
  <2> DEFINE h == Head(chan).id
  <2>2. ~fileOpen
    BY <2>1 DEF FlowInv, PhaseInv
  <2>3. Log!Pending = {h} \cup Ids(Tail(chan)) \cup Ids(held)
    BY <1>1, <2>1, <2>2, PendingPlaces, IdsHead
  <2>4. \A q \in Log!Pending : h <= q
    <3>1. h \in Nat /\ \A x \in Ids(Tail(chan)) \cup Ids(held) : h < x /\ x \in Nat
      <4>1. Tail(chan) \in Seq(Packet)
        BY <1>1, <2>1
      <4> QED
        BY <1>1, <2>1, <2>2, <4>1, HeadOldest, HeadTyped, IdsNat DEF FlowInv
    <3> QED
      BY <2>3, <3>1
  <2>5. log' = Append(log, h)
    <3>1. Listing(store') = Append(Listing(store), h)
      BY <1>1, <2>1, HeadTyped, ListingAppend DEF FlowInv
    <3> QED
      BY <3>1 DEF Listing
  <2>6. Log!List
    BY <2>1, <2>2, <2>3, <2>4, <2>5 DEF Log!List
  <2> QED
    BY <2>6
<1>7. ASSUME lost' = lost \cup Ids(chan), UNCHANGED <<store, clock, dropped, fileOpen>>,
             Ids(chan) \subseteq Log!Pending \/ Ids(chan) = {}
      PROVE  Log!GiveUp
  <2>1. log' = log
    BY <1>2, <1>7
  <2> QED
    BY <1>7, <2>1 DEF Log!GiveUp
<1>8. CASE EndStop \/ Halt \/ Start
  <2>1. lost' = lost \cup Ids(chan) /\ UNCHANGED <<store, clock, dropped, fileOpen>>
    BY <1>8 DEF EndStop, Halt, Start, DropCapture, storeVars, appVars
  <2>2. CASE fileOpen
    BY <1>7, <2>1, <2>2, NothingInFlight DEF FlowInv, PhaseInv
  <2>3. CASE ~fileOpen
    BY <1>7, <2>1, <2>3, PendingPlaces
  <2> QED
    BY <2>2, <2>3
<1>9. ASSUME NEW f \in Files, LoadFile(f) PROVE Log!Replace
  <2>1. /\ fileOpen' /\ store' = LoadPcap(f) /\ lost' = lost \cup Ids(chan)
        /\ UNCHANGED <<clock, dropped>>
    BY <1>9 DEF LoadFile, DropCapture
  <2>2. fileOpen' = TRUE
    BY <1>9 DEF LoadFile
  <2>3. log' \in Seq(Nat)
    <3>1. Listing(store') \in Seq(Nat)
      BY <2>1, LoadedTyped, ListingTyped
    <3> QED
      BY <3>1 DEF Listing
  <2>4. Ids(chan) \subseteq Log!Pending \/ Ids(chan) = {}
    BY NothingInFlight, PendingPlaces DEF FlowInv, PhaseInv
  <2> QED
    BY <2>1, <2>2, <2>3, <2>4 DEF Log!Replace
<1> QED
  BY QuietStep, <1>3, <1>4, <1>5, <1>6, <1>8, <1>9

(* The packet list implements the abstract log: only the oldest packet     *)
(* that is still pending is ever listed, at the end, and nothing listed    *)
(* changes until a file replaces the list (capture_loop, try_send,         *)
(* drain_capture_packets, stop_capture, start_capture, load_file).         *)
THEOREM ListIsLog == Spec => LogSpec
<1>1. FlowInv /\ [Next]_vars => [Log!Next]_(Log!logVars)
  BY LogStep
<1> QED
  BY <1>1, LogInit, FlowInit, FlowStep, PTL DEF Spec, LogSpec, Log!Spec

-----------------------------------------------------------------------------
(* Timestamps.  Once a packet was received in the capture, either the      *)
(* store has its base timestamp already or the capture thread has noted    *)
(* the time of its first packet, which the next drain takes over: the one  *)
(* in stop_capture when the capture is stopped, and one between the key    *)
(* that opens the picker and the key that starts the next capture.         *)

SaveInv ==
  /\ store # <<>> \/ chan # <<>> \/ held # <<>> => baseTs # NoTs \/ firstTs # NoTs
  /\ uiPc = "key" /\ picker /\ store # <<>> => baseTs # NoTs
  /\ running /\ thread = "none" /\ store # <<>> => baseTs # NoTs
  /\ uiPc \in {"recv", "finish"} /\ (caller \in {"stop", "open"} \/ picker)
       /\ (store # <<>> \/ chan # <<>>) => baseTs # NoTs

LEMMA SaveInit == Init => SaveInv
  BY DEF Init, SaveInv

LEMMA SaveStep ==
  ASSUME FlowInv, SaveInv, [Next]_vars
  PROVE  SaveInv'
<1> USE DEF SaveInv, storeVars, viewVars, appVars, threadVars, drainVars, historyVars
<1>0. /\ ModeTypeOK /\ ControlInv /\ PhaseInv /\ CountTypeOK
      /\ thread # "send" => held = <<>>
  BY Queues DEF FlowInv, BaseInv
<1>1. ASSUME CheckStop \/ PollTimeout \/ PollError PROVE SaveInv'
  BY <1>0, <1>1 DEF CheckStop, PollTimeout, PollError
<1>2. ASSUME NEW k \in Kinds, Arrive(k) PROVE SaveInv'
  <2>1. firstTs' # NoTs
    BY <1>0, <1>2 DEF Arrive, CountTypeOK, NoTs
  <2> QED
    BY <1>0, <1>2, <2>1 DEF Arrive
<1>3. ASSUME TrySend PROVE SaveInv'
  <2>1. /\ held' = <<>> /\ thread = "send" /\ thread' = "check"
        /\ UNCHANGED <<store, baseTs, firstTs, uiPc, picker, caller>>
    BY <1>3 DEF TrySend
  <2>2. caller \notin {"stop", "open"} \/ uiPc = "join"
    BY <1>0, <2>1 DEF ControlInv, Reaping
  <2>3. ~picker
    BY <1>0, <2>1 DEF ControlInv, PhaseInv, NoOrphanThread
  <2>4. chan' # <<>> => chan # <<>> \/ held # <<>>
    <3>1. chan' = chan \o held \/ chan' = chan
      BY <1>3 DEF TrySend
    <3>2. chan \o <<>> = chan
      BY ConcatEmptySeq, Queues DEF FlowInv
    <3> QED
      BY <3>1, <3>2
  <2> QED
    BY <2>1, <2>2, <2>3, <2>4
<1>4. ASSUME BeginDrain PROVE SaveInv'
  <2>1. CASE NoLiveCapture
    BY <1>0, <1>4, <2>1 DEF BeginDrain, NoLiveCapture, PhaseInv, ControlInv, Reaping
  <2>2. CASE ~NoLiveCapture
    <3>1. store # <<>> \/ chan # <<>> \/ held # <<>> => baseTs' # NoTs
      BY <1>4, <2>2 DEF BeginDrain, BaseTs
    <3> QED
      BY <1>4, <2>2, <3>1 DEF BeginDrain, NoLiveCapture
  <2> QED
    BY <2>1, <2>2
<1>5. ASSUME Receive PROVE SaveInv'
  <2>1. /\ chan # <<>> /\ uiPc = "recv" /\ thread # "none"
        /\ UNCHANGED <<thread, held, firstTs, baseTs, uiPc, caller, picker, running>>
    BY <1>0, <1>5 DEF Receive, ControlInv
  <2> QED
    BY <2>1
<1>6. ASSUME EndReceive PROVE SaveInv'
  BY <1>6 DEF EndReceive
<1>7. ASSUME EndDrain PROVE SaveInv'
  BY <1>0, <1>7 DEF EndDrain
<1>8. ASSUME EndStop PROVE SaveInv'
  BY <1>0, <1>8 DEF EndStop, DropCapture, PhaseInv, ControlInv, Reaping
<1>9. ASSUME Tick \/ OpenPicker \/ ClosePicker PROVE SaveInv'
  BY <1>9 DEF Tick, OpenPicker, ClosePicker
<1>10. ASSUME QuitPicker \/ ForceQuit PROVE SaveInv'
  BY <1>10 DEF QuitPicker, ForceQuit, Quit
<1>11. ASSUME Stop PROVE SaveInv'
  BY <1>11 DEF Stop, RequestStop
<1>12. ASSUME OpenFile PROVE SaveInv'
  BY <1>12 DEF OpenFile, RequestStop
<1>13. ASSUME Start PROVE SaveInv'
  BY <1>13 DEF Start
<1>14. ASSUME ToggleAutoScroll \/ ClearFilter PROVE SaveInv'
  BY <1>14 DEF ToggleAutoScroll, ClearFilter
<1>15. ASSUME NEW r \in 0..(FilteredLen - 1), Navigate(r) PROVE SaveInv'
  BY <1>15 DEF Navigate
<1>16. ASSUME NEW f \in Filters, ApplyFilter(f) PROVE SaveInv'
  BY <1>16 DEF ApplyFilter
<1>17. ASSUME Joined \/ LoadFailed PROVE SaveInv'
  BY <1>17 DEF Joined, LoadFailed
<1>18. ASSUME NEW f \in Files, LoadFile(f) PROVE SaveInv'
  <2>1. f = <<>> => LoadPcap(f) = <<>>
    <3>1. f = <<>> => LoadPcap(f) \in Seq(Packet) /\ Len(LoadPcap(f)) = 0
      <4>1. LoadPcap(f) \in Seq(Packet) /\ DOMAIN LoadPcap(f) = 1..Len(f)
        BY LoadedTyped DEF LoadPcap
      <4>2. Len(LoadPcap(f)) \in Nat /\ DOMAIN LoadPcap(f) = 1..Len(LoadPcap(f))
        BY <4>1, LenProperties
      <4> QED
        BY <4>1, <4>2
    <3> QED
      BY <3>1, EmptySeq
  <2>2. /\ store' = LoadPcap(f) /\ baseTs' = IF f = <<>> THEN NoTs ELSE 1
        /\ chan' = <<>> /\ held' = held /\ uiPc' = "drain"
    BY <1>18 DEF LoadFile, DropCapture
  <2>3. held = <<>>
    BY <1>0, <1>18 DEF LoadFile, ControlInv, NoOrphanThread
  <2>4. store' # <<>> => baseTs' # NoTs
    BY <2>1, <2>2 DEF NoTs
  <2> QED
    BY <2>2, <2>3, <2>4
<1>19. ASSUME DropApp PROVE SaveInv'
  BY <1>19 DEF DropApp
<1>20. ASSUME Halt PROVE SaveInv'
  BY <1>0, <1>20 DEF Halt, DropCapture, PhaseInv
<1>21. ASSUME Terminated \/ UNCHANGED vars PROVE SaveInv'
  BY <1>21 DEF Terminated, vars
<1> HIDE DEF SaveInv
<1> QED
  BY <1>1, <1>2, <1>3, <1>4, <1>5, <1>6, <1>7, <1>8, <1>9, <1>10, <1>11, <1>12, <1>13,
     <1>14, <1>15, <1>16, <1>17, <1>18, <1>19, <1>20, <1>21
  DEF Next, ThreadNext, UiNext, KeyNext

(* In a session with one capture every packet carries the time since the   *)
(* first one, and the base timestamp, once there is one, is that of the    *)
(* first one.  A file brings its own base, and ends all captures.          *)

Timed(s) == \A i \in 1..Len(s) : firstTs # NoTs /\ firstTs + s[i].ts = s[i].id

StampInv ==
  /\ ~fileOpen /\ starts = 0 => thread = "none" /\ store = <<>> /\ baseTs = NoTs
  /\ ~fileOpen /\ starts <= 1 => /\ baseTs = NoTs \/ baseTs = firstTs
                                 /\ Timed(store) /\ Timed(chan) /\ Timed(held)
  /\ fileOpen /\ baseTs # NoTs => \A i \in 1..Len(store) : baseTs + store[i].ts = store[i].id

Steady ==
  /\ UNCHANGED <<store, chan, held, firstTs, baseTs, starts, fileOpen>>
  /\ (thread = "none") = (thread' = "none")

LEMMA SteadyStep ==
  [Next]_vars =>
    \/ Steady
    \/ \E k \in Kinds : Arrive(k)
    \/ TrySend \/ BeginDrain \/ Receive \/ EndStop \/ Start \/ Halt
    \/ \E f \in Files : LoadFile(f)
<1> USE DEF Steady, storeVars, viewVars, appVars, threadVars, drainVars, historyVars
<1>1. ASSUME CheckStop \/ PollTimeout \/ PollError PROVE Steady
  BY <1>1 DEF CheckStop, PollTimeout, PollError
<1>2. ASSUME EndReceive \/ EndDrain PROVE Steady
  BY <1>2 DEF EndReceive, EndDrain
<1>3. ASSUME Tick \/ OpenPicker \/ ClosePicker PROVE Steady
  BY <1>3 DEF Tick, OpenPicker, ClosePicker
<1>4. ASSUME QuitPicker \/ ForceQuit PROVE Steady
  BY <1>4 DEF QuitPicker, ForceQuit, Quit
<1>5. ASSUME Stop \/ OpenFile PROVE Steady
  BY <1>5 DEF Stop, OpenFile, RequestStop
<1>6. ASSUME ToggleAutoScroll \/ ClearFilter PROVE Steady
  BY <1>6 DEF ToggleAutoScroll, ClearFilter
<1>7. ASSUME NEW r \in 0..(FilteredLen - 1), Navigate(r) PROVE Steady
  BY <1>7 DEF Navigate
<1>8. ASSUME NEW f \in Filters, ApplyFilter(f) PROVE Steady
  BY <1>8 DEF ApplyFilter
<1>9. ASSUME Joined \/ LoadFailed \/ DropApp PROVE Steady
  BY <1>9 DEF Joined, LoadFailed, DropApp
<1>10. ASSUME Terminated \/ UNCHANGED vars PROVE Steady
  BY <1>10 DEF Terminated, vars
<1> HIDE DEF Steady
<1> QED
  BY <1>1, <1>2, <1>3, <1>4, <1>5, <1>6, <1>7, <1>8, <1>9, <1>10
  DEF Next, ThreadNext, UiNext, KeyNext

LEMMA StampInit == Init => StampInv
  BY DEF Init, StampInv, Timed

LEMMA StampStep ==
  ASSUME FlowInv, StampInv, [Next]_vars
  PROVE  StampInv'
<1>0. /\ store \in Seq(Packet) /\ chan \in Seq(Packet) /\ held \in Seq(Packet)
      /\ Len(store) \in Nat /\ Len(chan) \in Nat /\ Len(held) \in Nat
      /\ thread # "send" => held = <<>>
      /\ thread = "none" => chan = <<>>
      /\ fileOpen => thread = "none"
      /\ starts \in Nat /\ firstTs \in Nat /\ firstTs <= clock /\ clock \in Nat
  BY Queues DEF FlowInv, PhaseInv, BaseInv, CountTypeOK
<1>1. CASE Steady
  BY <1>1 DEF Steady, StampInv, Timed
<1>2. ASSUME NEW k \in Kinds, Arrive(k) PROVE StampInv'
  <2> DEFINE p == [id |-> clock', index |-> nextIndex, ts |-> clock' - firstTs', kind |-> k]
  <2>1. /\ thread # "none" /\ ~fileOpen /\ held' = <<p>> /\ clock' = clock + 1
        /\ firstTs' = (IF firstTs = NoTs THEN clock' ELSE firstTs)
        /\ UNCHANGED <<chan, store, baseTs, starts, fileOpen>>
    BY <1>0, <1>2 DEF Arrive, storeVars, appVars
  <2>2. starts # 0
    BY <2>1 DEF StampInv
  <2>3. ASSUME starts <= 1 PROVE (baseTs = NoTs \/ baseTs = firstTs') /\ Timed(store)'
                                  /\ Timed(chan)' /\ Timed(held)'
    <3>1. /\ baseTs = NoTs \/ baseTs = firstTs
          /\ Timed(store) /\ Timed(chan)
      BY <2>1, <2>3 DEF StampInv
    <3>2. baseTs = NoTs \/ baseTs = firstTs'
      BY <2>1, <3>1
    <3>3. Timed(store)' /\ Timed(chan)'
      BY <2>1, <3>1 DEF Timed
    <3>4. firstTs' # NoTs /\ firstTs' + p.ts = p.id
      BY <1>0, <2>1 DEF NoTs
    <3>5. Timed(held)'
      <4>1. Len(held') = 1 /\ held'[1] = p
        BY <2>1
      <4>2. \A i \in 1..Len(held') : held'[i] = p
        BY <4>1
      <4> QED
        BY <3>4, <4>2 DEF Timed
    <3> QED
      BY <3>2, <3>3, <3>5
  <2> QED
    BY <2>1, <2>2, <2>3 DEF StampInv
<1>3. CASE TrySend
  <2>1. /\ thread = "send" /\ thread' = "check" /\ held' = <<>>
        /\ chan' = chan \o held \/ chan' = chan
        /\ UNCHANGED <<store, firstTs, baseTs, starts, fileOpen>>
    BY <1>3 DEF TrySend, storeVars, appVars
  <2>2. Timed(<<>>)
    BY DEF Timed
  <2>3. Timed(chan) /\ Timed(held) => Timed(chan \o held)
    <3>1. /\ Len(chan \o held) = Len(chan) + Len(held)
          /\ \A i \in 1..(Len(chan) + Len(held)) :
               (chan \o held)[i] = IF i <= Len(chan) THEN chan[i] ELSE held[i - Len(chan)]
      BY <1>0, ConcatProperties
    <3>2. ASSUME Timed(chan), Timed(held), NEW i \in 1..Len(chan \o held)
          PROVE  firstTs # NoTs /\ firstTs + (chan \o held)[i].ts = (chan \o held)[i].id
      <4>1. CASE i <= Len(chan)
        BY <1>0, <3>1, <3>2, <4>1 DEF Timed
      <4>2. CASE i > Len(chan)
        <5>1. i - Len(chan) \in 1..Len(held) /\ (chan \o held)[i] = held[i - Len(chan)]
          BY <1>0, <3>1, <4>2
        <5> QED
          BY <3>2, <5>1 DEF Timed
      <4> QED
        BY <1>0, <3>1, <4>1, <4>2
    <3> QED
      BY <3>2 DEF Timed
  <2>4. ~fileOpen /\ starts # 0
    BY <1>0, <2>1 DEF StampInv
  <2>5. starts <= 1 => Timed(store)' /\ Timed(held)' /\ Timed(chan)'
    BY <2>1, <2>2, <2>3, <2>4 DEF StampInv, Timed
  <2> QED
    BY <2>1, <2>4, <2>5 DEF StampInv
<1>4. CASE BeginDrain
  <2>1. /\ UNCHANGED <<store, chan, held, firstTs, thread, starts, fileOpen>>
        /\ \/ baseTs' = baseTs
           \/ thread # "none" /\ baseTs' = BaseTs
    BY <1>4 DEF BeginDrain, NoLiveCapture, threadVars, appVars, historyVars
  <2> QED
    BY <1>0, <2>1 DEF StampInv, Timed, BaseTs
<1>5. CASE Receive
  <2>1. /\ chan # <<>> /\ store' = Append(store, Head(chan)) /\ chan' = Tail(chan)
        /\ UNCHANGED <<thread, held, firstTs, baseTs, starts, fileOpen>>
    BY <1>5 DEF Receive, StoreAdd, Remaining, threadVars, appVars, historyVars
  <2>2. thread # "none" /\ ~fileOpen /\ starts # 0
    BY <1>0, <2>1 DEF StampInv
  <2>3. /\ Head(chan) \in Packet /\ Head(chan) = chan[1] /\ Len(chan) > 0
        /\ Len(Tail(chan)) = Len(chan) - 1
        /\ \A i \in 1..Len(Tail(chan)) : Tail(chan)[i] = chan[i + 1]
    BY <1>0, <2>1, HeadTailProperties
  <2>4. /\ Len(store') = Len(store) + 1
        /\ \A i \in 1..Len(store) : store'[i] = store[i]
        /\ store'[Len(store) + 1] = chan[1]
    BY <1>0, <2>1, <2>3, AppendProperties
  <2>5. ASSUME starts <= 1 PROVE Timed(store)' /\ Timed(chan)' /\ Timed(held)'
    <3>1. Timed(store) /\ Timed(chan) /\ Timed(held)
      BY <2>2, <2>5 DEF StampInv
    <3>2. Timed(store)'
      <4>1. ASSUME NEW i \in 1..Len(store') PROVE firstTs # NoTs /\ firstTs + store'[i].ts = store'[i].id
        <5>1. CASE i = Len(store) + 1
          BY <1>0, <2>3, <2>4, <3>1, <5>1 DEF Timed
        <5>2. CASE i \in 1..Len(store)
          BY <2>4, <3>1, <5>2 DEF Timed
        <5> QED
          BY <1>0, <2>4, <5>1, <5>2
      <4> QED
        BY <2>1, <4>1 DEF Timed
    <3>3. Timed(chan)'
      <4>1. \A i \in 1..Len(Tail(chan)) : i + 1 \in 1..Len(chan)
        BY <1>0, <2>3
      <4> QED
        BY <2>1, <2>3, <3>1, <4>1 DEF Timed
    <3> QED
      BY <2>1, <3>1, <3>2, <3>3 DEF Timed
  <2> QED
    BY <2>1, <2>2, <2>5 DEF StampInv
<1>6. CASE EndStop \/ Halt
  <2>1. /\ thread' = "none" /\ chan' = <<>>
        /\ UNCHANGED <<held, store, firstTs, baseTs, starts, fileOpen>>
    BY <1>6 DEF EndStop, Halt, DropCapture, storeVars, appVars
  <2> QED
    BY <2>1 DEF StampInv, Timed
<1>7. CASE Start
  <2>1. /\ starts' = starts + 1 /\ ~fileOpen /\ firstTs' = NoTs
        /\ chan' = <<>> /\ held' = <<>>
        /\ UNCHANGED <<store, baseTs, fileOpen>>
    BY <1>7 DEF Start, storeVars, FlowInv, PhaseInv
  <2>2. starts' # 0
    BY <1>0, <2>1
  <2>3. starts' <= 1 => starts = 0
    BY <1>0, <2>1
  <2> QED
    BY <2>1, <2>2, <2>3 DEF StampInv, Timed
<1>8. ASSUME NEW f \in Files, LoadFile(f) PROVE StampInv'
  <2>1. fileOpen' /\ store' = LoadPcap(f) /\ (baseTs' = NoTs \/ baseTs' = 1)
    BY <1>8 DEF LoadFile
  <2>2. Len(store') = Len(f) /\ Len(f) \in Nat
        /\ \A i \in 1..Len(f) : store'[i].id = i /\ store'[i].ts = i - 1
    <3>1. Len(f) \in Nat
      BY KindAssumption
    <3>2. store' \in Seq(Packet) /\ DOMAIN store' = 1..Len(f)
      BY <2>1, LoadedTyped DEF LoadPcap
    <3>3. Len(store') = Len(f)
      BY <3>1, <3>2, LenProperties
    <3> QED
      BY <2>1, <3>1, <3>3 DEF LoadPcap
  <2> QED
    BY <2>1, <2>2 DEF StampInv
<1> QED
  BY SteadyStep, <1>1, <1>2, <1>3, <1>4, <1>5, <1>6, <1>7, <1>8

(* What was captured can be saved, with the times at which it arrived: a   *)
(* stopped capture always left the store a base timestamp, although each   *)
(* drain reads it before it receives the packets, and with one capture the *)
(* base plus a packet's relative timestamp is the time it arrived          *)
(* (drain_capture_packets, stop_capture, load_pcap, save_pcap).            *)
THEOREM Saveable == Spec => []SaveableTimes
<1>1. Init => SaveInv /\ StampInv
  BY SaveInit, StampInit
<1>2. FlowInv /\ SaveInv /\ StampInv /\ [Next]_vars => SaveInv' /\ StampInv'
  BY SaveStep, StampStep
<1>3. FlowInv /\ SaveInv /\ StampInv => SaveableTimes
  <2>1. ASSUME FlowInv, StampInv PROVE SingleCaptureTimes
    BY <2>1 DEF StampInv, Timed, SingleCaptureTimes
  <2> QED
    BY <2>1 DEF SaveInv, StoppedIsSaveable, SaveableTimes
<1> QED
  BY <1>1, <1>2, <1>3, FlowInit, FlowStep, PTL DEF Spec

-----------------------------------------------------------------------------
(* Induction over the naturals, for sets of them.                          *)

LEMMA SetInduction ==
  ASSUME NEW S, S \subseteq Nat, 0 \in S, \A n \in S : n + 1 \in S
  PROVE  S = Nat
<1> DEFINE R == OpToRel(<, Nat)
           T == Nat \ S
<1>1. IsWellFoundedOn(R, Nat)
  BY NatLessThanWellFounded
<1>2. \A x, y \in Nat : x < y => <<x, y>> \in R
  BY DEF OpToRel
<1> SUFFICES ASSUME T # {} PROVE FALSE
  OBVIOUS
<1> HIDE DEF R
<1>3. PICK x \in T : \A y \in T : ~ (<<y, x>> \in R)
  <2>1. T \subseteq Nat
    OBVIOUS
  <2> QED
    BY <1>1, <2>1, WFMin, Zenon
<1>4. x - 1 \in Nat /\ x - 1 < x /\ (x - 1) + 1 = x
  BY <1>3
<1>5. x - 1 \notin T
  BY <1>2, <1>3, <1>4
<1> QED
  BY <1>3, <1>4, <1>5

-----------------------------------------------------------------------------
(* rebuild_filtered_indices as a function of the store.                    *)

PositionsIn(s, f) ==
  LET upTo[n \in 0..Len(s)] ==
        IF n = 0 THEN <<>>
        ELSE IF s[n].kind \in f THEN Append(upTo[n - 1], n - 1) ELSE upTo[n - 1]
  IN upTo[Len(s)]

LEMMA MatchingIsPositions == \A f : MatchingPositions(f) = PositionsIn(store, f)
  BY DEF MatchingPositions, PositionsIn

(* The positions among the first n packets, from those among fewer.        *)
Longer(u, s, f, n) ==
  IF n = 0 THEN <<>>
  ELSE IF s[n].kind \in f THEN Append(u[n - 1], n - 1) ELSE u[n - 1]

Solves(u, s, f, k) == \A n \in 0..k : u[n] = Longer(u, s, f, n)
Builds(u, s, f, k) == u \in [0..k -> Seq(Nat)] /\ Solves(u, s, f, k)

LEMMA PositionsExist ==
  ASSUME NEW s, NEW f, NEW k \in Nat
  PROVE  \E u : Builds(u, s, f, k)
<1> DEFINE Good(j) == \E u : Builds(u, s, f, j)
           S == {j \in Nat : Good(j)}
<1>1. 0 \in S
  <2> DEFINE u == [n \in 0..0 |-> <<>>]
  <2>1. Builds(u, s, f, 0)
    BY DEF Longer, Builds, Solves
  <2> QED
    BY <2>1
<1>2. ASSUME NEW j \in S PROVE j + 1 \in S
  <2>1. PICK u : Builds(u, s, f, j)
    OBVIOUS
  <2> DEFINE last == IF s[j + 1].kind \in f THEN Append(u[j], j) ELSE u[j]
             v == [n \in 0..(j + 1) |-> IF n = j + 1 THEN last ELSE u[n]]
  <2>2. /\ j \in Nat /\ u \in [0..j -> Seq(Nat)] /\ u[j] \in Seq(Nat)
        /\ \A n \in 0..j : u[n] = Longer(u, s, f, n)
    BY <2>1 DEF Builds, Solves
  <2>3. last \in Seq(Nat)
    BY <2>2
  <2>4. \A n \in 0..(j + 1) : n # j + 1 => n \in 0..j
    BY <2>2
  <2> HIDE DEF last
  <2>5. v \in [0..(j + 1) -> Seq(Nat)]
    BY <2>2, <2>3, <2>4
  <2>6. \A n \in 0..j : v[n] = u[n]
    BY <2>2
  <2>7. ASSUME NEW n \in 0..(j + 1) PROVE v[n] = Longer(v, s, f, n)
    <3>1. CASE n = j + 1
      <4>1. n # 0 /\ n - 1 = j /\ j \in 0..j
        BY <2>2, <3>1
      <4>2. v[n] = last /\ v[n - 1] = u[j]
        BY <2>6, <3>1, <4>1
      <4> HIDE DEF v
      <4> QED
        BY <3>1, <4>1, <4>2 DEF Longer, last
    <3>2. CASE n # j + 1
      <4>1. n \in 0..j /\ (n = 0 \/ n - 1 \in 0..j)
        BY <2>2, <2>4, <3>2
      <4>2. v[n] = u[n] /\ (n = 0 \/ v[n - 1] = u[n - 1])
        BY <2>6, <4>1
      <4>3. u[n] = Longer(u, s, f, n)
        BY <2>2, <4>1
      <4> HIDE DEF v
      <4> QED
        BY <4>2, <4>3 DEF Longer
    <3> QED
      BY <3>1, <3>2
  <2>8. Good(j + 1)
    <3>1. Builds(v, s, f, j + 1)
      BY <2>5, <2>7 DEF Builds, Solves
    <3> QED
      BY <3>1
  <2>9. j + 1 \in Nat
    BY <2>2
  <2> HIDE DEF Good
  <2> QED
    BY <2>8, <2>9
<1>3. S \subseteq Nat
  OBVIOUS
<1> HIDE DEF S
<1>4. S = Nat
  BY <1>1, <1>2, <1>3, SetInduction
<1> QED
  BY <1>4 DEF S

(* The equation has one solution, which looks at the first k packets only. *)
BeginsWith(t, s, k) == \A n \in 1..k : s[n] = t[n]

LEMMA PositionsUnique ==
  ASSUME NEW s, NEW t, NEW f, NEW u, NEW v, NEW k \in Nat,
         Solves(u, s, f, k), Solves(v, t, f, k), BeginsWith(t, s, k)
  PROVE  u[k] = v[k]
<1> DEFINE S == {n \in Nat : n <= k => u[n] = v[n]}
<1>1. 0 \in S
  <2>1. u[0] = <<>> /\ v[0] = <<>>
    BY DEF Longer, Solves
  <2> QED
    BY <2>1
<1>2. ASSUME NEW n \in S PROVE n + 1 \in S
  <2>1. n \in Nat /\ n + 1 \in Nat
    OBVIOUS
  <2>2. ASSUME n + 1 <= k PROVE u[n + 1] = v[n + 1]
    <3>1. u[n] = v[n] /\ n + 1 \in 0..k /\ s[n + 1] = t[n + 1] /\ n + 1 # 0 /\ (n + 1) - 1 = n
      BY <2>1, <2>2 DEF BeginsWith
    <3>2. u[n + 1] = Longer(u, s, f, n + 1) /\ v[n + 1] = Longer(v, t, f, n + 1)
      BY <3>1 DEF Solves
    <3> QED
      BY <3>1, <3>2 DEF Longer
  <2> QED
    BY <2>1, <2>2
<1>3. S \subseteq Nat
  OBVIOUS
<1> HIDE DEF S
<1>4. S = Nat
  BY <1>1, <1>2, <1>3, SetInduction
<1> QED
  BY <1>4 DEF S

LEMMA PositionsUnfold ==
  ASSUME NEW s \in Seq(Packet), NEW f
  PROVE  \E u : Builds(u, s, f, Len(s)) /\ PositionsIn(s, f) = u[Len(s)]
<1> DEFINE w == CHOOSE u : u = [n \in 0..Len(s) |-> Longer(u, s, f, n)]
<1>1. Len(s) \in Nat
  OBVIOUS
<1>2. PICK u : Builds(u, s, f, Len(s))
  BY <1>1, PositionsExist
<1>3. /\ u \in [0..Len(s) -> Seq(Nat)] /\ Solves(u, s, f, Len(s))
      /\ \A n \in 0..Len(s) : u[n] = Longer(u, s, f, n)
  BY <1>2 DEF Builds, Solves
<1>4. w = [n \in 0..Len(s) |-> Longer(w, s, f, n)]
  <2>1. u = [n \in 0..Len(s) |-> Longer(u, s, f, n)]
    BY <1>3
  <2> QED
    BY <2>1
<1>5. PositionsIn(s, f) = w[Len(s)]
  BY DEF PositionsIn, Longer
<1> HIDE DEF w
<1>6. Solves(w, s, f, Len(s)) /\ BeginsWith(s, s, Len(s))
  BY <1>4 DEF Solves, BeginsWith
<1>7. w[Len(s)] = u[Len(s)]
  BY <1>1, <1>3, <1>6, PositionsUnique
<1> QED
  BY <1>2, <1>5, <1>7

(* A packet added at the end adds its position if it matches.              *)
LEMMA PositionsTyped ==
  ASSUME NEW s \in Seq(Packet), NEW f
  PROVE  PositionsIn(s, f) \in Seq(Nat)
<1>1. PICK u : Builds(u, s, f, Len(s)) /\ PositionsIn(s, f) = u[Len(s)]
  BY PositionsUnfold
<1>2. Len(s) \in Nat
  OBVIOUS
<1> QED
  BY <1>1, <1>2 DEF Builds

LEMMA PositionsAppend ==
  ASSUME NEW s \in Seq(Packet), NEW p \in Packet, NEW f
  PROVE  PositionsIn(Append(s, p), f) =
           IF p.kind \in f THEN Append(PositionsIn(s, f), Len(s)) ELSE PositionsIn(s, f)
<1> DEFINE t == Append(s, p)
           k == Len(s)
<1>1. /\ t \in Seq(Packet) /\ k \in Nat /\ Len(t) = k + 1
      /\ \A i \in 1..k : s[i] = t[i]
      /\ t[k + 1] = p
  BY AppendProperties
<1> HIDE DEF t, k
<1>2. PICK u : Builds(u, s, f, k) /\ PositionsIn(s, f) = u[k]
  BY PositionsUnfold DEF k
<1>3. PICK v : Builds(v, t, f, k + 1) /\ PositionsIn(t, f) = v[k + 1]
  BY <1>1, PositionsUnfold
<1>4. /\ Solves(u, s, f, k) /\ Solves(v, t, f, k) /\ BeginsWith(t, s, k)
      /\ v[k + 1] = Longer(v, t, f, k + 1)
  BY <1>1, <1>2, <1>3 DEF Builds, Solves, BeginsWith
<1>5. v[k] = u[k]
  BY <1>1, <1>4, PositionsUnique
<1>6. v[k + 1] = IF p.kind \in f THEN Append(v[k], k) ELSE v[k]
  BY <1>1, <1>4 DEF Longer
<1> QED
  BY <1>2, <1>3, <1>5, <1>6 DEF t, k

-----------------------------------------------------------------------------
(* The filtered view and the selection.                                    *)

ViewInv ==
  /\ filter \in Filters \cup {None}
  /\ filtered \in Seq(Nat)
  /\ selected \in Nat \cup {None}
  /\ uiPc = "recv" /\ fresh => store # <<>>
  /\ dropped = {} /\ filter # None => filtered = PositionsIn(store, filter)
  /\ SelectedInView

Unseen ==
  /\ UNCHANGED <<store, filter, filtered, selected>>
  /\ dropped' = {} => dropped = {}
  /\ uiPc' = "recv" /\ fresh' => uiPc = "recv" /\ fresh

LEMMA UnseenStep ==
  [Next]_vars =>
    \/ Unseen
    \/ Receive \/ EndReceive \/ ClearFilter
    \/ \E r \in 0..(FilteredLen - 1) : Navigate(r)
    \/ \E f \in Filters : ApplyFilter(f)
    \/ \E f \in Files : LoadFile(f)
<1> USE DEF Unseen, storeVars, viewVars, appVars, threadVars, drainVars, historyVars
<1>1. ASSUME CheckStop \/ PollTimeout \/ PollError PROVE Unseen
  BY <1>1 DEF CheckStop, PollTimeout, PollError
<1>2. ASSUME NEW k \in Kinds, Arrive(k) PROVE Unseen
  BY <1>2 DEF Arrive
<1>3. ASSUME TrySend PROVE Unseen
  BY <1>3 DEF TrySend
<1>4. ASSUME BeginDrain \/ EndDrain PROVE Unseen
  BY <1>4 DEF BeginDrain, EndDrain
<1>5. ASSUME EndStop \/ Halt \/ DropApp PROVE Unseen
  BY <1>5 DEF EndStop, Halt, DropApp, DropCapture
<1>6. ASSUME Tick \/ OpenPicker \/ ClosePicker PROVE Unseen
  BY <1>6 DEF Tick, OpenPicker, ClosePicker
<1>7. ASSUME QuitPicker \/ ForceQuit PROVE Unseen
  BY <1>7 DEF QuitPicker, ForceQuit, Quit
<1>8. ASSUME Stop \/ OpenFile PROVE Unseen
  BY <1>8 DEF Stop, OpenFile, RequestStop
<1>9. ASSUME Start PROVE Unseen
  BY <1>9 DEF Start
<1>10. ASSUME ToggleAutoScroll PROVE Unseen
  BY <1>10 DEF ToggleAutoScroll
<1>11. ASSUME Joined \/ LoadFailed PROVE Unseen
  BY <1>11 DEF Joined, LoadFailed
<1>12. ASSUME Terminated \/ UNCHANGED vars PROVE Unseen
  BY <1>12 DEF Terminated, vars
<1> HIDE DEF Unseen
<1> QED
  BY <1>1, <1>2, <1>3, <1>4, <1>5, <1>6, <1>7, <1>8, <1>9, <1>10, <1>11, <1>12
  DEF Next, ThreadNext, UiNext, KeyNext

LEMMA ViewInit == Init => ViewInv
  BY DEF Init, ViewInv, SelectedInView

LEMMA ViewStep ==
  ASSUME BaseInv, NumberInv, ViewInv, [Next]_vars
  PROVE  ViewInv'
<1>0. /\ store \in Seq(Packet) /\ Len(store) \in Nat
      /\ filtered \in Seq(Nat) /\ Len(filtered) \in Nat
      /\ store # <<>> => Len(store) > 0
      /\ filtered # <<>> => Len(filtered) > 0
  BY Queues DEF ViewInv
<1>1. CASE Unseen
  BY <1>1 DEF Unseen, ViewInv, SelectedInView
<1>2. CASE Receive
  <2> DEFINE p == Head(chan)
  <2>1. /\ chan # <<>> /\ p \in Packet /\ p.index \in Nat
        /\ filtered' = IF Matches(p) THEN Append(filtered, p.index) ELSE filtered
        /\ store' = Append(store, p)
        /\ UNCHANGED <<filter, selected, dropped>>
    BY <1>2, HeadTyped DEF Receive, StoreAdd, historyVars
  <2>2. filtered' \in Seq(Nat) /\ store' # <<>>
    BY <1>0, <2>1, AppendProperties
  <2>3. dropped' = {} /\ filter' # None => filtered' = PositionsIn(store', filter')
    <3> SUFFICES ASSUME dropped = {}, filter # None
                 PROVE  filtered' = PositionsIn(store', filter)
      BY <2>1
    <3>1. p.index = Len(store) /\ filtered = PositionsIn(store, filter)
      BY <2>1, HeadNumbered DEF ViewInv
    <3>2. PositionsIn(store', filter) =
            IF p.kind \in filter THEN Append(PositionsIn(store, filter), Len(store))
            ELSE PositionsIn(store, filter)
      BY <1>0, <2>1, PositionsAppend
    <3> QED
      BY <2>1, <3>1, <3>2 DEF Matches
  <2>4. SelectedInView'
    <3> SUFFICES ASSUME filter # None, selected # None
                 PROVE  \E i \in 1..Len(filtered') : filtered'[i] = selected
      BY <2>1 DEF SelectedInView
    <3>1. PICK i \in 1..Len(filtered) : filtered[i] = selected
      BY DEF ViewInv, SelectedInView
    <3>2. i \in 1..Len(filtered') /\ filtered'[i] = filtered[i]
      BY <1>0, <2>1, AppendProperties
    <3> QED
      BY <3>1, <3>2
  <2> QED
    BY <2>1, <2>2, <2>3, <2>4 DEF ViewInv
<1>3. CASE EndReceive
  <2>1. /\ uiPc = "recv" /\ uiPc' = "finish"
        /\ UNCHANGED <<store, filter, filtered, dropped>>
        /\ \/ selected' = selected
           \/ fresh /\ selected' = TailIndex
    BY <1>3 DEF EndReceive, storeVars, historyVars
  <2>2. CASE selected' = selected
    BY <2>1, <2>2 DEF ViewInv, SelectedInView
  <2>3. CASE fresh /\ selected' = TailIndex
    <3>1. store # <<>>
      BY <2>1, <2>3 DEF ViewInv
    <3>2. CASE filter = None
      <4>1. TailIndex = Len(store) - 1 /\ Len(store) - 1 \in Nat
        BY <1>0, <3>1, <3>2 DEF TailIndex
      <4> QED
        BY <2>1, <2>3, <3>2, <4>1 DEF ViewInv, SelectedInView
    <3>3. CASE filter # None /\ filtered = <<>>
      <4>1. TailIndex = selected
        BY <3>3 DEF TailIndex
      <4> QED
        BY <2>1, <2>3, <4>1 DEF ViewInv, SelectedInView
    <3>4. CASE filter # None /\ filtered # <<>>
      <4>1. TailIndex = filtered[Len(filtered)] /\ Len(filtered) \in 1..Len(filtered)
        BY <1>0, <3>4 DEF TailIndex
      <4>2. TailIndex \in Nat
        BY <1>0, <4>1
      <4> QED
        BY <2>1, <2>3, <4>1, <4>2 DEF ViewInv, SelectedInView
    <3> QED
      BY <3>2, <3>3, <3>4
  <2> QED
    BY <2>1, <2>2, <2>3
<1>4. CASE ClearFilter
  BY <1>4 DEF ClearFilter, ViewInv, SelectedInView, storeVars, historyVars
<1>5. ASSUME NEW r \in 0..(FilteredLen - 1), Navigate(r) PROVE ViewInv'
  <2>1. /\ UNCHANGED <<store, filter, filtered, dropped>> /\ uiPc' = "drain"
        /\ selected' = DisplayToStoreIndex(r)
    BY <1>5 DEF Navigate, storeVars, historyVars
  <2>2. CASE filter = None
    BY <1>0, <2>1, <2>2 DEF ViewInv, SelectedInView, DisplayToStoreIndex, FilteredLen
  <2>3. CASE filter # None
    <3>1. r + 1 \in 1..Len(filtered) /\ selected' = filtered[r + 1]
      BY <1>0, <2>1, <2>3 DEF DisplayToStoreIndex, FilteredLen
    <3>2. selected' \in Nat
      BY <1>0, <3>1
    <3> QED
      BY <2>1, <3>1, <3>2 DEF ViewInv, SelectedInView
  <2> QED
    BY <2>2, <2>3
<1>6. ASSUME NEW f \in Filters, ApplyFilter(f) PROVE ViewInv'
  <2>1. /\ filter' = f /\ filtered' = PositionsIn(store, f) /\ store' = store
        /\ selected' = IF filtered' = <<>> THEN None ELSE filtered'[1]
        /\ uiPc' = "drain"
    BY <1>6, MatchingIsPositions DEF ApplyFilter, storeVars
  <2>2. filtered' \in Seq(Nat)
    BY <1>0, <2>1, PositionsTyped
  <2>3. filtered' # <<>> => 1 \in 1..Len(filtered') /\ filtered'[1] \in Nat
    BY <2>2
  <2> QED
    BY <2>1, <2>2, <2>3 DEF ViewInv, SelectedInView
<1>7. ASSUME NEW f \in Files, LoadFile(f) PROVE ViewInv'
  BY <1>7 DEF LoadFile, ViewInv, SelectedInView
<1> QED
  BY UnseenStep, <1>1, <1>2, <1>3, <1>4, <1>5, <1>6, <1>7

LEMMA ViewAlways == Spec => [](BaseInv /\ NumberInv /\ ViewInv)
<1>1. BaseInv /\ NumberInv /\ ViewInv /\ [Next]_vars => ViewInv'
  BY ViewStep
<1> QED
  BY <1>1, ViewInit, NumberAlways, PTL DEF Spec

(* The list that the drain extends packet by packet is the one that        *)
(* rebuild_filtered_indices would compute, as long as no packet was        *)
(* dropped, and the selected packet is always one of its rows, however     *)
(* drains, filters, restarts and keys interleave.                          *)
THEOREM ViewExact == Spec => []ViewFollowsStore
<1>1. ViewInv => ViewFollowsStore
  BY MatchingIsPositions DEF ViewInv, ViewFollowsStore, FilteredExact
<1> QED
  BY <1>1, ViewAlways, PTL

(* The type invariant of the whole module.                                 *)
THEOREM TypeCorrect == Spec => []TypeOK
<1>1. Init => SideInv
  BY SideInit
<1>2. BaseInv /\ NumberInv /\ SideInv /\ [Next]_vars => SideInv'
  BY SideInvStep
<1>3. BaseInv /\ ViewInv /\ SideInv => TypeOK
  BY DEF BaseInv, ViewInv, SideInv, TypeOK, ViewTypeOK
<1> QED
  BY <1>1, <1>2, <1>3, ViewAlways, PTL DEF Spec

=============================================================================
