------------------------------ MODULE Capture ------------------------------
(***************************************************************************)
(* The path of a packet from the network interface to the packet list:     *)
(*                                                                         *)
(*   capture thread --try_send--> bounded channel --drain--> PacketStore   *)
(*                                                                         *)
(* The capture thread (capture/live.rs, capture_loop) numbers every packet *)
(* it receives, then offers it to a bounded channel and drops it when the  *)
(* channel is full.  The single UI thread (app.rs, App::run) drains a      *)
(* bounded number of packets per loop iteration into the PacketStore,      *)
(* extends the filtered view and the per-packet side tables, and handles   *)
(* one key: stop, restart, filter, navigate, open a file, quit.            *)
(*                                                                         *)
(* Every try_recv, every step of the capture thread and every key is a     *)
(* step of its own, so the two threads interleave as they do in the        *)
(* program.  modified_since_save, the save dialogs and the deep dissection *)
(* that select_packet requests are in other modules.                       *)
(***************************************************************************)
EXTENDS Naturals, Sequences, FiniteSets

CONSTANTS
  ChannelCapacity,  \* CHANNEL_CAPACITY of the sync_channel (10,000)
  DrainLimit,       \* packets taken per drain_capture_packets (1000)
  Kinds,            \* what a filter and the eBPF socket table can tell apart
  TracedKinds,      \* kinds whose flow TraceEngine::lookup finds
  Filters,          \* filter expressions, each as the set of kinds it matches
  FollowTail,       \* config.display.auto_scroll
  Files,            \* capture files: the sequence of the kinds of their packets
  MaxPackets,       \* bound: packets that arrive in a behaviour
  MaxStarts,        \* bound: captures started in a behaviour
  None              \* the Option::None of the code

ASSUME CapacityAssumption == ChannelCapacity \in Nat \ {0}
ASSUME LimitAssumption == DrainLimit \in Nat \ {0}
ASSUME BoundAssumption == MaxPackets \in Nat /\ MaxStarts \in Nat
ASSUME KindAssumption == /\ TracedKinds \subseteq Kinds
                         /\ Filters \subseteq SUBSET Kinds
                         /\ Files \subseteq Seq(Kinds)
                         /\ FollowTail \in BOOLEAN
ASSUME NoneAssumption == None \notin Nat /\ None \notin Filters

(***************************************************************************)
(* A packet is known by its arrival time, which no two packets of one      *)
(* interface share; time 0 stands for a timestamp that is not known yet.   *)
(* index is PacketSummary.index, ts its timestamp relative to the first    *)
(* packet of its capture.                                                  *)
(***************************************************************************)
Packet == [id : Nat \ {0}, index : Nat, ts : Nat, kind : Kinds]
NoTs == 0

VARIABLES
  thread,     \* where capture_loop is; "none" when live_capture is None
  stopFlag,   \* LiveCapture.stop_flag
  nextIndex,  \* capture_loop: index
  firstTs,    \* first_ts, which is also the shared first_absolute_ts
  held,       \* the packet being sent, as a sequence of length 0 or 1
  chan,       \* the channel
  store,      \* PacketStore.packets
  baseTs,     \* PacketStore.first_absolute_ts
  filter,     \* active_filter
  filtered,   \* filtered_indices, empty when there is no filter
  traces,     \* trace_store: index |-> the packet it was looked up for
  selected,   \* selected_packet
  autoScroll, \* auto_scroll
  capState,   \* capture_state
  picker,     \* show_interface_picker
  fileOpen,   \* file_path.is_some()
  running,    \* App.running
  uiPc,       \* where the UI thread is
  caller,     \* who called drain_capture_packets
  budget,     \* iterations left of its receive loop
  fresh,      \* its new_packets
  clock,      \* history: the arrival time of the last packet
  starts,     \* history: captures started
  dropped,    \* history: packets refused by a full channel
  lost        \* history: packets that vanished with their channel

threadVars == <<thread, stopFlag, nextIndex, firstTs, held>>
storeVars == <<store, baseTs>>
viewVars == <<filter, filtered, traces, selected, autoScroll>>
appVars == <<capState, picker, fileOpen, running>>
drainVars == <<caller, budget, fresh>>
historyVars == <<clock, starts, dropped, lost>>
vars == <<threadVars, chan, storeVars, viewVars, appVars, uiPc, drainVars, historyVars>>

Ids(s) == {s[i].id : i \in 1..Len(s)}

ModeTypeOK ==
  /\ thread \in {"none", "check", "poll", "send", "done"}
  /\ stopFlag \in BOOLEAN
  /\ capState \in {"Idle", "Capturing", "Stopped"}
  /\ picker \in BOOLEAN /\ fileOpen \in BOOLEAN /\ running \in BOOLEAN
  /\ uiPc \in {"drain", "recv", "finish", "key", "join", "load", "drop", "halted"}
  /\ caller \in {"tick", "stop", "open", "exit"}
  /\ fresh \in BOOLEAN /\ autoScroll \in BOOLEAN

CountTypeOK ==
  /\ nextIndex \in Nat
  /\ clock \in Nat /\ firstTs \in Nat /\ firstTs <= clock
  /\ baseTs \in Nat
  /\ budget \in 0..DrainLimit
  /\ starts \in Nat

QueueTypeOK ==
  /\ held \in Seq(Packet) /\ Len(held) = IF thread = "send" THEN 1 ELSE 0
  /\ chan \in Seq(Packet) /\ Len(chan) <= ChannelCapacity
  /\ store \in Seq(Packet)

HistoryTypeOK == dropped \subseteq Nat /\ lost \subseteq Nat

ViewTypeOK ==
  /\ filter \in Filters \cup {None}
  /\ filtered \in Seq(Nat)
  /\ DOMAIN traces \subseteq Nat /\ \A i \in DOMAIN traces : traces[i] \in Nat
  /\ selected \in Nat \cup {None}

TypeOK == ModeTypeOK /\ CountTypeOK /\ QueueTypeOK /\ HistoryTypeOK /\ ViewTypeOK

(***************************************************************************)
(* The program starts in the interface picker (App::run without a file and *)
(* without an interface).                                                  *)
(***************************************************************************)
Init ==
  /\ thread = "none" /\ stopFlag = FALSE /\ nextIndex = 0 /\ firstTs = NoTs
  /\ held = <<>> /\ chan = <<>>
  /\ store = <<>> /\ baseTs = NoTs
  /\ filter = None /\ filtered = <<>> /\ traces = <<>>
  /\ selected = None /\ autoScroll = FollowTail
  /\ capState = "Idle" /\ picker = TRUE /\ fileOpen = FALSE /\ running = TRUE
  /\ uiPc = "drain" /\ caller = "tick" /\ budget = 0 /\ fresh = FALSE
  /\ clock = 0 /\ starts = 0 /\ dropped = {} /\ lost = {}

-----------------------------------------------------------------------------
(* Seeded faults: each is a wrong form of the operator named beside it and *)
(* is used by no specification; PROJECT.json says which property finds it. *)

HasRoomOffByOne == Len(chan) <= ChannelCapacity           \* HasRoom
RemainingPeeked == chan                                   \* Remaining
StoreAddNotLast(p) == IF budget = 1 THEN store ELSE Append(store, p) \* StoreAdd
StoreAddFront(p) == <<p>> \o store                        \* StoreAdd
StartIndexZero == 0                                       \* StartIndex
SideIndexAfter(p) == Len(store) + 1                       \* SideIndex
MatchesAlways(p) == filter # None                         \* Matches
FinishedOrEmpty == thread = "done" \/ chan = <<>>         \* IsFinished
FinishedIfAsked == thread = "done" /\ stopFlag            \* IsFinished
TailIndexOfStore == Len(store) - 1                        \* TailIndex
BaseTsIfWaiting == IF baseTs = NoTs /\ chan # <<>> THEN firstTs ELSE baseTs \* BaseTs
BaseTsNow == IF baseTs = NoTs THEN clock ELSE baseTs      \* BaseTs
NoLiveCaptureOrStopped == thread = "none" \/ capState # "Capturing" \* NoLiveCapture
StopRequestedNever == FALSE                               \* StopRequested

-----------------------------------------------------------------------------
(* The capture thread.                                                     *)

(* while !stop.load(..)                                                    *)
StopRequested == stopFlag

CheckStop ==
  /\ thread = "check"
  /\ thread' = IF StopRequested THEN "done" ELSE "poll"
  /\ UNCHANGED <<stopFlag, nextIndex, firstTs, held, chan, storeVars, viewVars,
                 appVars, uiPc, drainVars, historyVars>>

(* next_packet() returned a packet: it is stamped, numbered and summarised *)
(* before it is offered to the channel.                                    *)
Arrive(k) ==
  /\ thread = "poll"
  /\ clock < MaxPackets
  /\ clock' = clock + 1
  /\ firstTs' = IF firstTs = NoTs THEN clock' ELSE firstTs
  /\ held' = <<[id |-> clock', index |-> nextIndex, ts |-> clock' - firstTs', kind |-> k]>>
  /\ nextIndex' = nextIndex + 1
  /\ thread' = "send"
  /\ UNCHANGED <<stopFlag, chan, storeVars, viewVars, appVars, uiPc, drainVars,
                 starts, dropped, lost>>

(* next_packet() timed out, or failed for good.                            *)
PollTimeout ==
  /\ thread = "poll"
  /\ thread' = "check"
  /\ UNCHANGED <<stopFlag, nextIndex, firstTs, held, chan, storeVars, viewVars,
                 appVars, uiPc, drainVars, historyVars>>

PollError ==
  /\ thread = "poll"
  /\ thread' = "done"
  /\ UNCHANGED <<stopFlag, nextIndex, firstTs, held, chan, storeVars, viewVars,
                 appVars, uiPc, drainVars, historyVars>>

(* try_send: a full channel drops the packet; its number stays used.       *)
HasRoom == Len(chan) < ChannelCapacity

TrySend ==
  /\ thread = "send"
  /\ IF HasRoom
       THEN chan' = chan \o held /\ UNCHANGED dropped
       ELSE dropped' = dropped \cup Ids(held) /\ UNCHANGED chan
  /\ held' = <<>>
  /\ thread' = "check"
  /\ UNCHANGED <<stopFlag, nextIndex, firstTs, storeVars, viewVars, appVars, uiPc,
                 drainVars, clock, starts, lost>>

ThreadNext ==
  \/ CheckStop
  \/ \E k \in Kinds : Arrive(k)
  \/ PollTimeout
  \/ PollError
  \/ TrySend

-----------------------------------------------------------------------------
(* drain_capture_packets, which every loop iteration, stop_capture and the *)
(* end of run call.                                                        *)

(* live_capture = None: the channel goes with what is still in it.         *)
DropCapture ==
  /\ thread' = "none"
  /\ chan' = <<>>
  /\ lost' = lost \cup Ids(chan)
  /\ UNCHANGED <<stopFlag, nextIndex, firstTs, held>>

(* Without a capture the drain returns at once; otherwise the base         *)
(* timestamp is taken over, unless the store already has one.              *)
NoLiveCapture == thread = "none"
BaseTs == IF baseTs = NoTs THEN firstTs ELSE baseTs

BeginDrain ==
  /\ uiPc = "drain"
  /\ IF NoLiveCapture
       THEN /\ uiPc' = IF caller = "exit" THEN "drop" ELSE "key"
            /\ UNCHANGED <<baseTs, budget, fresh>>
       ELSE /\ baseTs' = BaseTs
            /\ budget' = DrainLimit
            /\ fresh' = FALSE
            /\ uiPc' = "recv"
  /\ UNCHANGED <<threadVars, chan, store, viewVars, appVars, caller, historyVars>>

(* One packet taken from the channel: the view and the side tables are     *)
(* extended under the number the capture thread gave it, then it is stored.*)
Matches(p) == filter # None /\ p.kind \in filter
SideIndex(p) == p.index
Filed(i, id) == [j \in DOMAIN traces \cup {i} |-> IF j = i THEN id ELSE traces[j]]
StoreAdd(p) == Append(store, p)
Remaining == Tail(chan)

Receive ==
  /\ uiPc = "recv"
  /\ budget > 0
  /\ chan # <<>>
  /\ LET p == Head(chan) IN
       /\ filtered' = IF Matches(p) THEN Append(filtered, p.index) ELSE filtered
       /\ traces' = IF p.kind \in TracedKinds THEN Filed(SideIndex(p), p.id) ELSE traces
       /\ store' = StoreAdd(p)
  /\ chan' = Remaining
  /\ budget' = budget - 1
  /\ fresh' = TRUE
  /\ UNCHANGED <<threadVars, baseTs, filter, selected, autoScroll, appVars, uiPc,
                 caller, historyVars>>

(* The receive loop ends: the selection follows the tail.                  *)
TailIndex ==
  CASE filter = None -> Len(store) - 1
    [] filter # None /\ filtered = <<>> -> selected
    [] OTHER -> filtered[Len(filtered)]

EndReceive ==
  /\ uiPc = "recv"
  /\ budget = 0 \/ chan = <<>>
  /\ selected' = IF fresh /\ autoScroll THEN TailIndex ELSE selected
  /\ uiPc' = "finish"
  /\ UNCHANGED <<threadVars, chan, storeVars, filter, filtered, traces, autoScroll,
                 appVars, drainVars, historyVars>>

(* A capture thread that died is noticed, and the drain returns.           *)
IsFinished == thread = "done"

EndDrain ==
  /\ uiPc = "finish"
  /\ capState' = IF IsFinished /\ capState = "Capturing" THEN "Stopped" ELSE capState
  /\ uiPc' = IF caller = "exit" THEN "drop" ELSE "key"
  /\ caller \in {"tick", "exit"}
  /\ UNCHANGED <<threadVars, chan, storeVars, viewVars, picker, fileOpen, running,
                 drainVars, historyVars>>

(* The drain in stop_capture returns: the capture is dropped, and the key  *)
(* handler goes back to the loop or on to load the file.                   *)
EndStop ==
  /\ uiPc = "finish"
  /\ caller \in {"stop", "open"}
  /\ DropCapture
  /\ capState' = "Stopped"
  /\ uiPc' = IF caller = "open" THEN "load" ELSE "drain"
  /\ caller' = "tick"
  /\ UNCHANGED <<storeVars, viewVars, picker, fileOpen, running, budget, fresh,
                 clock, starts, dropped>>

-----------------------------------------------------------------------------
(* The keys.                                                               *)

(* A tick, or a key that does nothing here.                                *)
Tick ==
  /\ uiPc = "key"
  /\ uiPc' = "drain"
  /\ UNCHANGED <<threadVars, chan, storeVars, viewVars, appVars, drainVars, historyVars>>

(* stop_capture raises the flag and waits in join.                         *)
RequestStop(why) ==
  /\ stopFlag' = TRUE
  /\ caller' = why
  /\ uiPc' = "join"
  /\ UNCHANGED <<thread, nextIndex, firstTs, held, chan, storeVars, viewVars, appVars,
                 budget, fresh, historyVars>>

Stop ==
  /\ uiPc = "key" /\ ~picker
  /\ capState = "Capturing"
  /\ RequestStop("stop")

JoinReturns == thread = "done"

Joined ==
  /\ uiPc = "join"
  /\ JoinReturns
  /\ uiPc' = "drain"
  /\ UNCHANGED <<threadVars, chan, storeVars, viewVars, appVars, drainVars, historyVars>>

OpenPicker ==
  /\ uiPc = "key" /\ ~picker
  /\ capState # "Capturing"
  /\ ~fileOpen
  /\ picker' = TRUE
  /\ uiPc' = "drain"
  /\ UNCHANGED <<threadVars, chan, storeVars, viewVars, capState, fileOpen, running,
                 drainVars, historyVars>>

(* Enter in the picker: start_capture.  The store keeps its packets, the   *)
(* new thread numbers from its length, the old capture is dropped.         *)
StartIndex == Len(store)

Start ==
  /\ uiPc = "key" /\ picker
  /\ starts < MaxStarts
  /\ starts' = starts + 1
  /\ thread' = "check" /\ stopFlag' = FALSE /\ firstTs' = NoTs /\ held' = <<>>
  /\ nextIndex' = StartIndex
  /\ chan' = <<>>
  /\ lost' = lost \cup Ids(chan)
  /\ capState' = "Capturing"
  /\ autoScroll' = FollowTail
  /\ picker' = FALSE
  /\ uiPc' = "drain"
  /\ UNCHANGED <<storeVars, filter, filtered, traces, selected, fileOpen, running,
                 drainVars, clock, dropped>>

(* run() ends the loop and drains once more.                               *)
Quit ==
  /\ running' = FALSE
  /\ caller' = "exit"
  /\ uiPc' = "drain"
  /\ UNCHANGED <<threadVars, chan, storeVars, viewVars, capState, fileOpen, budget,
                 fresh, historyVars>>

ForceQuit ==
  /\ uiPc = "key" /\ ~picker
  /\ Quit
  /\ UNCHANGED picker

(* The picker closes: start_capture failed, or Esc, which also ends the    *)
(* program when there is nothing else to show.                             *)
ClosePicker ==
  /\ uiPc = "key" /\ picker
  /\ picker' = FALSE
  /\ uiPc' = "drain"
  /\ UNCHANGED <<threadVars, chan, storeVars, viewVars, capState, fileOpen, running,
                 drainVars, historyVars>>

QuitPicker ==
  /\ uiPc = "key" /\ picker
  /\ capState = "Idle" /\ ~fileOpen /\ store = <<>>
  /\ picker' = FALSE
  /\ Quit

ToggleAutoScroll ==
  /\ uiPc = "key" /\ ~picker
  /\ capState = "Capturing"
  /\ autoScroll' = ~autoScroll
  /\ uiPc' = "drain"
  /\ UNCHANGED <<threadVars, chan, storeVars, filter, filtered, traces, selected, appVars,
                 drainVars, historyVars>>

(* Row r of the packet list, the first being row 0: display_to_store_index *)
FilteredLen == IF filter = None THEN Len(store) ELSE Len(filtered)
DisplayToStoreIndex(r) == IF filter = None THEN r ELSE filtered[r + 1]

(* A movement key selects some row of the list and stops following.        *)
Navigate(r) ==
  /\ uiPc = "key" /\ ~picker
  /\ selected' = DisplayToStoreIndex(r)
  /\ autoScroll' = (autoScroll /\ capState # "Capturing")
  /\ uiPc' = "drain"
  /\ UNCHANGED <<threadVars, chan, storeVars, filter, filtered, traces, appVars,
                 drainVars, historyVars>>

(* rebuild_filtered_indices: the positions in the store that f matches.    *)
MatchingPositions(f) ==
  LET upTo[n \in 0..Len(store)] ==
        IF n = 0 THEN <<>>
        ELSE IF store[n].kind \in f THEN Append(upTo[n - 1], n - 1) ELSE upTo[n - 1]
  IN upTo[Len(store)]

ApplyFilter(f) ==
  /\ uiPc = "key" /\ ~picker
  /\ filter' = f
  /\ filtered' = MatchingPositions(f)
  /\ selected' = IF filtered' = <<>> THEN None ELSE filtered'[1]
  /\ uiPc' = "drain"
  /\ UNCHANGED <<threadVars, chan, storeVars, traces, autoScroll, appVars, drainVars,
                 historyVars>>

(* clear_filter, and apply_filter with an expression that does not parse.  *)
ClearFilter ==
  /\ uiPc = "key" /\ ~picker
  /\ filter' = None
  /\ filtered' = <<>>
  /\ uiPc' = "drain"
  /\ UNCHANGED <<threadVars, chan, storeVars, traces, selected, autoScroll, appVars,
                 drainVars, historyVars>>

(* Enter in the open dialog: do_open_file stops an active capture first.   *)
OpenFile ==
  /\ uiPc = "key" /\ ~picker
  /\ IF capState = "Capturing"
       THEN RequestStop("open")
       ELSE /\ uiPc' = "load"
            /\ UNCHANGED <<threadVars, chan, storeVars, viewVars, appVars, drainVars,
                           historyVars>>

LoadFailed ==
  /\ uiPc = "load"
  /\ uiPc' = "drain"
  /\ UNCHANGED <<threadVars, chan, storeVars, viewVars, appVars, drainVars, historyVars>>

(* load_pcap numbers the packets of the file from 0 and relates their      *)
(* times to the first.                                                     *)
LoadPcap(f) ==
  [i \in 1..Len(f) |-> [id |-> i, index |-> i - 1, ts |-> i - 1, kind |-> f[i]]]

LoadFile(f) ==
  /\ uiPc = "load"
  /\ DropCapture
  /\ store' = LoadPcap(f)
  /\ baseTs' = IF f = <<>> THEN NoTs ELSE 1
  /\ filter' = None /\ filtered' = <<>> /\ traces' = <<>>
  /\ selected' = IF f = <<>> THEN None ELSE 0
  /\ capState' = "Idle"
  /\ fileOpen' = TRUE
  /\ uiPc' = "drain"
  /\ UNCHANGED <<autoScroll, picker, running, drainVars, clock, starts, dropped>>

(* App is dropped at the end of main, and with it LiveCapture, whose Drop  *)
(* stops and joins the thread.                                             *)
DropApp ==
  /\ uiPc = "drop"
  /\ thread \notin {"none", "done"}
  /\ ~stopFlag
  /\ stopFlag' = TRUE
  /\ UNCHANGED <<thread, nextIndex, firstTs, held, chan, storeVars, viewVars, appVars,
                 uiPc, drainVars, historyVars>>

Halt ==
  /\ uiPc = "drop"
  /\ thread \in {"none", "done"}
  /\ DropCapture
  /\ uiPc' = "halted"
  /\ UNCHANGED <<storeVars, viewVars, appVars, drainVars, clock, starts, dropped>>

Terminated == uiPc = "halted" /\ UNCHANGED vars

KeyNext ==
  \/ Tick \/ Stop \/ OpenPicker \/ ClosePicker \/ QuitPicker \/ ForceQuit \/ Start
  \/ ToggleAutoScroll
  \/ \E r \in 0..(FilteredLen - 1) : Navigate(r)
  \/ \E f \in Filters : ApplyFilter(f)
  \/ ClearFilter
  \/ OpenFile

UiNext ==
  \/ BeginDrain \/ Receive \/ EndReceive \/ EndDrain \/ EndStop
  \/ KeyNext
  \/ Joined
  \/ LoadFailed
  \/ \E f \in Files : LoadFile(f)
  \/ DropApp \/ Halt \/ Terminated

Next == ThreadNext \/ UiNext

Spec == Init /\ [][Next]_vars

(***************************************************************************)
(* The operating system runs both threads, and next_packet returns within  *)
(* its 100 ms timeout; the UI loop waits at most 33 ms for a key.          *)
(***************************************************************************)
FairSpec == Spec /\ WF_vars(ThreadNext) /\ WF_vars(UiNext)

-----------------------------------------------------------------------------
(* Properties.                                                             *)

StoreIds == Ids(store)
Pipeline == store \o chan \o held

(* Packets reach the list in the order in which they arrived and no packet *)
(* is listed twice: everything stored, waiting in the channel or in the    *)
(* capture thread's hand is in strictly increasing order of arrival        *)
(* (capture_loop, sync_channel and drain_capture_packets together).        *)
FifoOrder ==
  ~fileOpen => \A i, j \in 1..Len(Pipeline) : i < j => Pipeline[i].id < Pipeline[j].id

(* Every packet that arrived is in exactly one place: listed, in the       *)
(* channel, in hand, dropped at a full channel, or lost with a channel     *)
(* that was dropped undrained.                                             *)
Accounted ==
  ~fileOpen =>
    LET places == <<StoreIds, Ids(chan), Ids(held), dropped, lost>> IN
      /\ 1..clock = UNION {places[i] : i \in 1..5}
      /\ \A i, j \in 1..5 : i # j => places[i] \cap places[j] = {}

(* As long as no packet was dropped at a full channel, the number the      *)
(* capture thread gave a packet is its position in the store               *)
(* (start_capture offsets the new thread by store.len()).                  *)
IndexAligned ==
  dropped = {} => \A i \in 1..Len(store) : store[i].index = i - 1

(* ... and then what is filed under a position belongs to the packet       *)
(* there: the process information of trace_store, ...                      *)
TracesAligned ==
  dropped = {} =>
    \A i \in DOMAIN traces : i < Len(store) /\ store[i + 1].id = traces[i]

(* ... and the filtered view that the drain extends packet by packet is    *)
(* the one rebuild_filtered_indices would compute.                         *)
FilteredExact ==
  dropped = {} /\ filter # None => filtered = MatchingPositions(filter)

(* A number never falls behind the position: drift goes one way only, even *)
(* across restarts, so no two packets of one capture share a number.       *)
DriftForward == \A i \in 1..Len(store) : store[i].index >= i - 1

(* Numbers stand for positions: exactly while nothing was dropped, with    *)
(* the side tables filed under them, and never falling behind otherwise.   *)
NumbersArePositions == IndexAligned /\ TracesAligned /\ DriftForward

(* Unless the program shows a capture in progress there is no thread       *)
(* capturing: stop, a failed capture, opening a file and a restart all     *)
(* leave no thread behind (stop_capture, do_open_file, start_capture).     *)
NoOrphanThread == capState # "Capturing" => thread \in {"none", "done"}

(* The selected packet is one of the rows of the filtered view, however    *)
(* drains, filters, restarts and keys interleave (selected_display_pos).   *)
SelectedInView ==
  filter # None /\ selected # None =>
    \E i \in 1..Len(filtered) : filtered[i] = selected

(* The filtered view is that of the store and the selection is in it.      *)
ViewFollowsStore == FilteredExact /\ SelectedInView

(* A capture that has been stopped can be saved: no packet is listed       *)
(* without a base timestamp once the capture is gone, although the drain   *)
(* reads the timestamp before it receives the packets (save_pcap refuses   *)
(* a store without one).                                                   *)
StoppedIsSaveable ==
  running /\ thread = "none" /\ store # <<>> => baseTs # NoTs

(* In a session with a single capture, base plus relative timestamp is the *)
(* time at which the packet arrived: what save_pcap writes.                *)
SingleCaptureTimes ==
  starts <= 1 /\ baseTs # NoTs =>
    \A i \in 1..Len(store) : baseTs + store[i].ts = store[i].id

(* What was captured can be saved, with the times at which it arrived.     *)
SaveableTimes == StoppedIsSaveable /\ SingleCaptureTimes

(* A packet that reached the channel is listed, unless the capture it      *)
(* belongs to is thrown away; the loop does not starve it.                 *)
Delivered ==
  \A p \in 1..MaxPackets : p \in Ids(chan) ~> (fileOpen \/ p \in StoreIds \cup lost)

(* Stopping a capture returns: the join cannot hang on the capture thread. *)
StopReturns == uiPc = "join" ~> thread = "none"

(* A capture thread that died is shown as stopped.                         *)
DeathNoticed == thread = "done" ~> (capState # "Capturing" \/ uiPc = "halted")

(* Quitting ends the program and its capture thread.                       *)
QuitHalts == ~running ~> (uiPc = "halted" /\ thread = "none")

(* Every way to end a capture ends it: stop, death of the thread, quitting. *)
CaptureEnds == StopReturns /\ DeathNoticed /\ QuitHalts

(* The list implements the abstract log of PacketLog.                      *)
Log == INSTANCE PacketLog WITH
  arrived <- clock,
  log <- [i \in 1..Len(store) |-> store[i].id],
  given <- dropped \cup lost,
  replaced <- fileOpen

LogSpec == Log!Spec

(* What comments, documentation and types say and the code does not do.    *)

(* trace/store.rs: trace_store maps the packet's store index.              *)
TracesFiledByPosition ==
  \A i \in DOMAIN traces : i < Len(store) => store[i + 1].id = traces[i]

(* app.rs, stop_capture: the remaining packets are drained before the      *)
(* channel is dropped.                                                     *)
StopKeepsEverything == [][uiPc = "finish" => lost' = lost]_vars

(* save.rs: the time saved for a packet is when it arrived.                *)
SavedTimes ==
  baseTs # NoTs => \A i \in 1..Len(store) : baseTs + store[i].ts = store[i].id
=============================================================================
