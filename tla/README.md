# TuiShark: a verification development

TuiShark is a terminal packet analyser: one UI thread that owns nearly all state,
a handful of background threads that talk to it over channels, and a few eBPF
programs that write to maps and buffers it reads. The modules here model the
program from the capture thread to the cursor in the detail tree, TLC checks them
on small instances, and TLAPS proves most of their safety properties, 34 of the
35 that the runs check, for every instance.

Line numbers refer to `src/tuishark/src` unless another directory is named.

## 1. The system

### Components

| Component | Code | State | Modules |
|---|---|---|---|
| Live capture | `capture/live.rs` | stop flag, packet number, first timestamp, bounded channel (10,000) | `Capture` |
| Packet store, packet table | `store/packet_store.rs`, `app.rs` | packets, base timestamp, modified flag; selection, auto-scroll, filter, filtered list | `Capture`, `Session` |
| Process and container stores | `trace/store.rs`, `trace/lookup.rs`, `tuishark-ebpf` | packet index to process; the kernel's map from flow to process | `Capture`, `Owners` |
| Deep dissection | `dissect/worker.rs`, `dissect/deep.rs` | worker thread, channels, latest sequence number, timeouts; FIFO, tshark | `DeepDissect`, `DeepPipe` |
| Fast dissection | `dissect/fast.rs` | none: bytes to a row and to layers | `FastDissect` |
| AI overlay, cache, worker | `app.rs`, `ai/worker.rs`, `ai/model.rs` | overlay, sequence number, LRU cache, channels | `AiOverlay`, `AiCache`, `AiCacheSpec`, `LruCache` |
| Session | `app.rs`, `capture/save.rs`, `capture/file.rs`, `session/recent.rs` | last save path, modified flag, recent files, quit after save, which dialog is open | `Session` |
| Display filters | `filter/*.rs`, filter bar in `app.rs` | filter text, cursor, filter in force | `FilterLang`, `FilterEval`, `TextEntry` |
| Path tracing | `trace/path_*.rs`, `tuishark-ebpf` | perf buffers, pending and completed paths, recent flows, filter in the kernel | `PathTrace` |
| IP information | `ipinfo/lookup.rs` | cache (10,000), in-flight set, threads, dialog | `IpLookup` |
| Statistics | `stats/*.rs`, dialog in `app.rs` | hierarchy, tables, graph, tab, sorting, selection | `Stats`, `StatsDialog` |
| Export | `export/*.rs` | none: packets to text | `Export` |
| Command line mode | `cli.rs` | count, recent packets, matched paths | `Cli` |
| Key bindings | `config/keys.rs`, `config/mod.rs` | the table of keys | `Bindings` |
| Lists, detail tree, dialogs | `app.rs`, `ui` | cursors, scroll positions, collapsed layers, panes | `ScrollList`, `DetailTree`, `TextEntry` |
| AI context, colours and layout, build script | `ai/context.rs`, `ui`, `build.rs` | none | not modelled (section 6) |

### How they interact

`App::run` (440-485) repeats: drain captured packets, deep dissections, path
events, IP lookups and AI answers; draw; wait at most 33 ms for a key and handle
it. Every handler runs to its end before the next drain, so all of the
concurrency is between this loop, the threads behind the channels and the kernel:

    capture thread --bounded channel, try_send--> drain_capture_packets
    App --unbounded--> dissect worker --unbounded--> drain_deep_results
    dissect worker --FIFO--> tshark --pipe--> helper thread --> dissect worker
    App --unbounded--> AI worker --unbounded--> drain_ai_results
    one thread per IP lookup --channel--> drain_ipinfo_results
    kernel probes --a perf buffer per CPU--> drain_path_events
    kernel probes --map from flow to process--> drain_capture_packets

They also share a few atomics: the stop flag, `alive`, `latest_seq` and the
first timestamp of a capture. The command line mode has the same capture thread
and kernel probes and a loop of its own (cli.rs 173-260).

### What is hard

- The capture thread numbers packets before it knows whether the channel has
  room, while the store, the filtered list and the side tables use these numbers
  as positions.
- Stop, restart, death of the thread, opening a file and quitting meet the
  thread at any point of its loop, and the channel in any state.
- Answers of the workers, of lookups and of tshark are late: the selection, the
  document, the dialog and the worker itself may have been replaced since.
- Timeouts, restarts and skipping of outdated requests must not lose the one
  request the user is waiting for, nor give its answer to another.
- Saves and loads fail after part of the operation has taken effect.
- Path events of one packet arrive from several CPUs in another order than they
  happened; the kernel uses the address of a packet's buffer again; paths are
  looked for before they are complete.
- Trees, tables and lists are replaced under the cursor; heights and strings are
  counted in different units (rows of the last frame, characters, bytes).
- Rows, details, statistics and filters each work out on their own what a packet
  is, and should agree.

`PROJECT.json` lists these hazards at the lines where they bite, with the
properties that would notice.

## 2. The modules

### The packet path: Capture and PacketLog

`Capture` is the path of a packet from the interface to the list. Two threads
step through it:

- the capture thread: `CheckStop`, `Arrive`, `PollTimeout`, `PollError`,
  `TrySend` are the statements of `capture_loop` (live.rs 148-197);
- the UI thread, whose program counter is `uiPc`: `BeginDrain`, one `Receive`
  per packet, `EndReceive` and `EndDrain` or `EndStop` are
  `drain_capture_packets` (app.rs 532-616) with its callers; then one key.
  `Stop`, `Joined`, `EndStop` are `stop_capture`; `OpenFile`, `LoadFailed`,
  `LoadFile` are `do_open_file`; `Start` is `start_capture`; `ForceQuit`,
  `QuitPicker`, `DropApp`, `Halt` are the way out of `run` and the drop of the
  App. `Navigate`, `ApplyFilter`, `ClearFilter` and `ToggleAutoScroll` change
  the view.

A packet is known by its time of arrival. Its `kind` is all that a filter and the
eBPF table can tell apart. `dropped` and `lost` are history: packets refused by a
full channel, and packets that went away with their channel.

`PacketLog` is the promise without threads or channel: packets arrive, the
oldest one pending is listed next, some are given up, a file replaces the list.
`Capture!LogSpec` instantiates it with the refinement mapping. Proofs:
`Capture_proofs`.

### Who sent a packet: Owners

The kprobes on the send and receive calls write the calling process under the flow
of its socket (`SendMsg`, `RecvMsg`, with `Connect` and `Close` around them) into a
map that evicts when it is full (`Inserted`); packets are captured (`Arrive`) and
drained later (`TakeCaptured`), and the drain looks a packet up once, by its flow
in either direction (trace/lookup.rs, engine.rs). `Capture` sees of it only which
kinds of packets are traced. Proofs: `Outside_proofs`.

### Deep dissection: DeepDissect and DeepPipe

`DeepDissect` is the worker loop of `dissect/worker.rs` (`Take`, `Finish`,
`TimeOut`, `GiveUp`, `Restart`, `Leave`) and the UI's part. `Receive` and `DrainEnd`
are `drain_capture_packets` as far as it decides which row is selected;
`CollectOne`, `CollectEnd`, `CollectNothing` and `Apply` are `drain_deep_results`;
`Move`, `ApplyFilter` and `ClearFilter` are keys; `StartCapture` and `OpenFile`
replace the worker. `select_packet` is `SelectPacket` for a row of the store and
`SelectMissing` for a number beyond it: the capture thread goes on counting when
the channel is full, so the filtered list may hold numbers (`ahead`) that the store
reaches only later. A detail remembers its document and index. History tells
whether a packet of this document was dropped and whether the row selected last
was beyond the store (`missed`). `HelperReturns` is a left-behind helper thread
whose read ends after all.

`DeepPipe` is one dissector after another below that: the FIFO, the process that
reads frames from it, the calls that write a frame and read one answer, and what
happens to the process and the FIFO when a dissector is given up in the middle of
a call. Frames and answers carry no number; the module asks what joins them.
Proofs of both: `DeepDissect_proofs`.

### The AI overlay

`AiCache` holds the operators of the cache (ai/model.rs 83-169), used by two
modules: `AiCacheSpec` runs them on their own, any sequence of inserts, lookups
and clears, and shows that the map with its deque implements `LruCache`, where an
entry carries the time of its last use and the oldest goes; `AiOverlay` uses them
as the cache of the overlay, with its methods (app.rs 3041-3219), the worker loop
(ai/worker.rs 57-91) and everything that moves the selection under them. An
explanation is represented by what it is about (document, packet, kind); the code
compares the packet index only, and the document is there to state what follows
from that. `asked` and `sent` are history: the question the user asked last and the
one that was sent last, which a hit in the cache tells apart. Proofs:
`Pure_proofs`, `AiOverlay_proofs`.

### Session

The packets on the table, whether they are saved, a small disk with two names for
one file, the dialogs and their priority (app.rs 1090-1180), and the ways the
program ends. `DoSave` ends well, fails before the file is opened or in the middle
of it (`SaveFailed`), `Load` and `LoadFailed` are the two ends of `do_open_file`.
`origin` and `spoilt` are history: the file last loaded or saved to in full, and
whether a later write of this program, a save that failed or an export, went over
that same file, under whichever name (`Spoil`). The program's phases are a drain, a
key, leaving and gone. Proofs: `Session_proofs`.

### Filters: TextEntry, FilterLang, FilterEval

- `TextEntry` has the four line editors of app.rs with cursors in characters and
  strings in bytes, the texts that are filled in, and the filter bar with the
  filter in force. It implements `Zipper`: a line is what is left and what is right
  of the cursor.
- `FilterLang` is the lexer on characters and the recursive descent on tokens. The
  reference for the parser is an ambiguity-free grammar that splits a sequence of
  tokens in every possible way (`OrExprs`).
- `FilterEval` is a comparison of one field with one value: texts, numbers,
  addresses, prefixes and flags, with their different notions of equality. Proofs:
  `Pure_proofs`, which is also about `FastDissect` and `AiCacheSpec`.

### Paths through the kernel: PathTrace

`HandleSkb` is a probe that writes to the buffer of its CPU if the filter in the
kernel lets it; `DrainPathEvents` reads a limited number of events per CPU, groups
them by buffer address (`IngestOne`), expires and caps (`ExpirePaths`,
`CapPending`, `CapCompleted`) and matches completed paths to packets (`Matched`);
`DrainPacket` takes a pending path early (`TryExtractPending`); `Attach`, `Narrow`,
`Widen`, `Detach` are the key that turns tracing on; `TraceFileOpened` is a file
that is opened. Ages count ticks of the loop without an event. Proofs:
`Outside_proofs`.

### IpLookup

`IpOpen`, `IpMove`, `IpSelect`, `IpClose` are the dialog; `Ask` and `Die` are a
lookup thread that answers or ends without one; `IpDrain` is one iteration of
`drain_ipinfo_results` with the cache and its eviction.

### Lists and trees: ScrollList, DetailTree

`ScrollList` is the arithmetic of selection, offset and height that seven lists
share, with lists counted again and screens resized in between. `DetailTree` has
the layers of a packet with their fields, the cursor and the bytes it highlights,
what is remembered as collapsed, the panes with their zoom, and `Draw`, which
adjusts the scroll position and remembers the height. `Widgets_proofs` has the proofs
about `ScrollList`, `DetailTree`, `TextEntry` and `IpLookup`.

### What a packet is: FastDissect, Stats, StatsDialog

`FastDissect` parses headers twice, as the code does: for the row of the table and
for the layers of the detail, for six link types, for packets cut at any byte and
for whatever length a pflog header names; `ReadsPastEnd` are the short packets at
which the parser of that header ends the thread.
`Stats` has the four statistics as functions of the packets in view;
`StatsDialog` has the dialog that shows them, computing a tab when it is turned to
and when packets arrive (proofs: `Stats_proofs`).

### Text out: Export and Cli

`Export` writes rows in the formats of the export dialog and of the command line
mode and reads them back, character by character, with automata for CSV and JSON
that know only the formats; and counts days to dates (proofs: `Pure_proofs`). `Cli` is the live loop of the command line mode: channel, limits, closed
pipe, signals, and paths that complete before or after their packet is printed
(proofs: `Outside_proofs`).

### Bindings

From what a configuration file says to the table of keys, and from a key pressed
in any dialog to what it does. Proofs: `AiOverlay_proofs`.

### How the modules divide the App

The state machines meet in `select_packet` and in the replacement of the
document. Each models the others by what it sees of them: to `DeepDissect` and
`AiOverlay` a capture is a selection that moves, to `AiOverlay` a deep answer is
a cursor that is reset, to `DetailTree` it is another tree, to `Session` a
capture is packets that are listed. Every handler runs to its end on the one UI
thread, so a handler that a module leaves out can only come between two of its
steps, and the modules allow that: their environment steps are unrestricted.

The modules `MC...` put instances together for TLC. Those of one `MC` module
share no variables; a variable `part` says which of them a behaviour is about, so
the state space is the sum of theirs and not the product. `MCCapture` has
`Capture`; `MCLive` adds `Cli` and `Export`; `MCDeepDissect` has `DeepDissect`,
`DeepPipe`, `Owners`; `MCAiOverlay` has `AiOverlay`, `Bindings`; `MCSession` has
`Session`; `MCWidgets` has `TextEntry`, `FilterLang`, `ScrollList`, `DetailTree`,
`IpLookup`; `MCTracing` has `PathTrace`; `MCPure` has `FilterEval`, `Stats`,
`StatsDialog`, `FastDissect`, `AiCacheSpec`.

## 3. The runs

| Run | Question | Bounds |
|---|---|---|
| `capture_full` | Order, accounting, numbering, side tables, views, timestamps; refinement of `PacketLog` | channel of 2, drains of 1, 4 packets of 2 kinds, 2 captures, 1 filter, an empty file and one of two packets |
| `capture_live` | Everything in the channel is listed or goes with its capture; a stop returns; death is noticed; quitting ends. The command line mode: order, limits, one path per packet, its end. Exports are read back; dates are right | 3 packets of one kind, no filter, files empty or of two packets, fair threads; 3 packets in two patterns of flows, channel of 2, limits 2 and none, caches of 1 and 2; texts up to three characters; 130 years of months |
| `deep_full` | No detail of another packet than the row's; a request is answered or its worker's death noticed. An answer is of its frame. A named process is the sender | 3 requests, 2 numbers for captured packets of which some are dropped, files of no packet or two, 2 timeouts in a row, one replacement; 3 dissectors, 2 frames; 2 processes, 3 connections, a map of 2, 2 packets |
| `ai_full` | Answers are cached under what they were asked for, shown only for the index selected, never over a newer question, and come. Any configuration leaves a way out | 2 requests, 2 packets (one without layers), a cache of 1, a capture and then a file; every file that binds one action to one of seven keys, and six actions pairwise to four |
| `session_full` | What is unmodified is in its file unless the program wrote over that; one dialog has the keys; a wish to quit lives as long as its dialog; the recent files are distinct | 3 paths of which two are one file, 1 packet, 2 recent files |
| `widgets_full` | Cursors are on what is shown, editors are zippers, the parser is its grammar, an address is looked up once | lines of 3 characters of three kinds; 5 characters and 4 tokens of filters, 6 of the core tokens; lists of 5 rows on 4 lines; three packets with up to three layers; two public addresses, a cache of 1 |
| `path_full` | No event in two paths, hops in order, paths of the hosts of their packet, the filter as shown | 3 packets of one flow in both directions, 2 buffer addresses, 2 CPUs, 2 hops, every cap at 1 or 2 |
| `pure_full` | Filters, statistics, dissection and the cache of explanations | addresses of 4 bits, values of every kind; 2 packets of four kinds, a filter, 3 keys that sort or scroll; all port pairs, flag sets and header combinations, every place to cut, pflog headers that say 0, 5, 28, 44, 45 and 61; 2 entries, 3 keys, 5 uses |
| `capture_drift`, `deep_stuck`, `session_quit`, `path_expiry` | what a comment or a document says and the code does not do (section 5) | the smallest that show it |

Why these bounds are enough: a channel of 2 with drains of 1 and 4 arrivals lets
the channel fill, drop and drain again, lets a stop leave packets undrained, and
lets a second capture start with packets, drops and a filter in place. In
`DeepDissect` three requests are an overtaken, a current and a replaced one, and two
numbers are enough to drop the first packet, select the second ahead of the store
and let the store grow past it after the next capture; two timeouts stand for the three of
the code, the first restarting and the last giving up. In `AiOverlay` a cache of
one entry and two packets evicts at every second answer. In `PathTrace` two
buffers for three packets are used again, two CPUs put two hops out of order, and
a cap of one pending path is passed by the second. In `Session` one packet
and two names of a file are enough to save over what is loaded. The lexer and the
parser look at most two characters and one token ahead; six tokens hold a
negation, a parenthesis and two operators of different precedence.

Bounds on arrivals, captures, requests, documents, dissectors and lines are
guards named `Max...`. `path_full` has a constraint besides, `TwoPackets`: two of
the three packets go through traced functions, the second of the two that are
alike is seen after the first, and events and captured packets are at most four
together. It is the one run that uses symmetry, of the buffer addresses, which
the code only compares for equality; it checks no liveness.

Deadlock is checked, except in `path_full`, where nothing is left to happen once
the bounded packets have gone through and the clock stands, and in `pure_full`,
whose parts are calls with one input. The halted program of `Capture`, the session
that is gone, the command line mode that has ended and the last dissector stutter
explicitly.

Every property of a passing run has been seen to fail: each module has seeded
faults, wrong forms of a single operator such as `HasRoomOffByOne`, and
`PROJECT.json` pairs each property with one that breaks it.

### Properties worth reading first

Each part has a few properties; a conjunction groups those that are about one
thing, and its comment says which. Those that a reviewer should see first:

- `FifoOrder`, `Accounted`: the store, the channel and the thread's hand are one
  sequence in the order of arrival, and no packet is anywhere else than there, in
  `dropped` or in `lost`.
- `NumbersArePositions`, `ViewFollowsStore`: while nothing was dropped, numbers are
  positions and all that relies on that (traces, the filtered list, the selection)
  is right; `DriftForward` is what remains true after drops.
- `SaveableTimes`: the drain reads the base timestamp before it receives, and
  still no stopped capture is left unsaveable.
- `DetailOfSelected`, `InProgressShown`, `DeepOnlyForSelection`: comparing both
  the sequence number and the index is what makes late results harmless; leaving
  out either breaks one of them. The rows that drops put beyond the store are named
  as the exception, not left out: `missed => dropped` says nothing else makes them. `PipeSound` is why the worker below may rely on
  it: a dissector that timed out is never asked again.
- `OverlaySound`, `AnswerInPlace`: the same for the AI answers, by packet index;
  what that lets through when a file was opened is in section 5. `LookupSound` for
  the lookups of addresses.
- `UnmodifiedIsKept`: whenever the program would let the user go without a
  question, the file last loaded, or saved to in full, holds on the disk exactly what
  is on the table, unless the program itself wrote over that file since (section 5).
- `PathsSound`, `MatchedToNewest`: buffers used again, paths taken early and paths
  that complete late do not mix two packets of different hosts. Packets of the same
  flow may be mixed (section 5).
- `OwnerSound`: whose packet it is said to be, with both ends on this host, sockets
  closed and opened again, and a map that evicts.
- `TreeSound`, `TreeSteps`, `ListSteps`: the cursors under replacement of what they
  point into, zoom and resizing.
- `LangSound`, `EvalSound`, `DissectSound`, `StatsSound`, `ExportSound`: algorithms
  against a definition of what they compute, or against each other.
- `CliOutput`, `KeysSound`: every packet once and in order on the command line; no
  configuration takes the last way out.

### Fairness

`Capture!FairSpec` is weakly fair to each thread: the operating system runs both,
`next_packet` comes back within its 100 ms timeout, and the event loop waits at
most 33 ms. No packet has to arrive, and no key has to be pressed.
`MCFairSpec` of `MCLive` adds the loop of the command line mode: it sleeps for a
millisecond when there is nothing to read, and the join waits for a thread that
looks at its flag every 100 ms. It also writes to standard output, which blocks for
as long as a reader of the pipe stalls (cli.rs 237): that the reader goes on reading,
or closes the pipe, is an assumption of `CliEnds`.
`DeepDissect!FairSpec` is weakly fair to the worker, whose `recv_timeout` brings
it back within ten seconds, and to the UI loop; it is not fair to the helper
threads left behind. `MaxRequests` bounds how often a request can be overtaken: a user
who goes on selecting packets faster than they are dissected sees no answer, and that
is not a failure of `WaitEnds`, which follows one selection. `AiOverlay!FairSpec` is weakly fair to the drain and to the
worker, whose agent has a read timeout; not to the user. `PathTrace!PathFairness`, used
by `path_expiry` only, makes the kernel and the whole loop fair, so that what is
not expired there is not for want of a step.

## 4. The proofs

Eight modules hold the theorems, 39 that `PROJECT.json` lists and the lemmas under
them; every leaf is checked by TLAPS. A theorem is about any value of the constants
that satisfies the named assumptions of the module (`CapacityAssumption`,
`PathAssumption`, ...), which TLC evaluates on every run. They say no more than that
capacities are positive, that a bound is a number, that a value like `None` is none
of those it stands beside, that naming a file twice gives one file (`Canon`).

Every proof has the same shape: an inductive invariant as a conjunction of named
parts, a lemma per group of actions, and a temporal theorem on top. The invariants
were first checked by TLC on the runs' instances.

| Module | Theorem: property | Inductive invariant and why it is needed |
|---|---|---|
| `Capture_proofs` | `NoOrphan`: `NoOrphanThread`; `QueuesTypeCorrect`, `ModesTypeCorrect`: types | `BaseInv`: types and `ControlInv`, which says where the App is while a thread is being joined |
| | `Fifo`: `FifoOrder` | `OrderInv` adds that no packet in the pipeline is later than the clock; `PipelineStep` says what any step does to store, channel and hand as one sequence |
| | `Numbers`: `NumbersArePositions` | `NumberInv`: the next number against the lengths of store and channel; `SideInv`: traces filed under positions, as long as nothing was dropped |
| | `Complete`: `Accounted` | `FlowInv` with `PhaseInv`: which keys are possible in which phase; five disjoint places (`Placed`) |
| | `ListIsLog`: `LogSpec` | the same; `PacketLog` is refined step by step (`LogStep`) |
| | `Saveable`: `SaveableTimes` | `SaveInv`: the first packet in the pipeline of a capture has set the timestamp that the drain will read; `StampInv`: relative to which one a packet is stamped |
| | `ViewExact`: `ViewFollowsStore`; `TypeCorrect`: `TypeOK` | `ViewInv`: the list of matches is `PositionsIn` of the store; the recursive filter is unfolded by `PositionsUnfold` |
| `DeepDissect_proofs` | `DetailIsOfSelected`, `DeepIsForSelection`; `TypeCorrect` | `Base`: whatever is under way is of this document and of a row of its store, since the channels go with their worker; a number beyond the store is in the view only after a drop (`Listed`) |
| | `WaitIsShown`: `InProgressShown` | `Serial`: the numbers in requests, hand and results rise and none is above the last given out; `LastAsked`: what the last request was for; `WaitShown` |
| | `OneAnswerOneOwner`: `PipeSound` | `OneUnderWay`: at most one frame of a call is in the FIFO, in tshark or in the pipe; `Fresh`: dissectors not yet made are empty |
| `Session_proofs` | `KeptUnlessModified`: `UnmodifiedIsKept` | `SavedUnlessModified`: whatever dialog is open, what is not modified is what the file of origin holds, or that was spoilt |
| | `DialogsInOrder`: `DialogSound` | `DialogInv` adds that the question before quitting is asked over packets only: without it the wish to quit could start without a dialog that ends it |
| | `TableGrows`: `OnlyAFileReplaces` | `Stored`: what is in files and on the table is of the same kind |
| | `RecentFilesInOrder`: `RecentSound` | `RecentInv` and `Modes`; `Vec::retain` drops every name of a file and keeps the rest once (`RetainedOnce`, `WithRecentOnce`) |
| `Pure_proofs` | `LeastRecentlyUsed`: `LruSpec`; `DequeAgrees` | `CacheInv`: map and deque hold the same keys (`Consistent`), the deque in the order of the times of last use (`Stamps`), no entry is empty (`NoneBare`) |
| | `PartsAgree`: `DissectSound`; `UntaggedFieldsFound`: `RangesPointAtFields` where it holds | `FrameInv`: the frame is one that is sent, cut somewhere; then by cases on the headers, with the parts of the detail computed once (`PartsOfDetail`, `NamesOfDetail`) |
| | `ComparisonsAgree`: `EvalSound` | `EvalInv`; powers of two by induction (`PlaceAdds`), a mask as zeros followed by ones (`MaskBits`), two numbers whose upper bits agree have the same quotient (`UpperBits`); one order behind the six operators of every field (`FieldOrder`) |
| | `WrittenIsReadBack`: `ExportSound` | `ExportInv`: the file has one packet or two alike, and the month begins where the calendar says (`CalendarOK`). A text in two parts is read one after the other (`ReadJoined`), one of many pieces by induction over them (`ReadPieces`), so that a field (`CellIsRead`), a line (`LineIsRead`) and a file are read back; years are counted from March, where `DayInYear` finds the year of a day |
| `Stats_proofs` | `StatsAreSound`: `StatsSound` | `StatsInv`: what an open dialog shows is computed from the packets in view (`Shown`), which every key that changes the view or the tab, and every arrival, restores (`ComputedIs`). Under it: sums over packets are split and exchanged (the two tables list the bytes of a host in different ways), a list in a strict order has every element once (`Arranged`), the list of nodes is in pre-order (`TreeInOrder`), and leaving out what is below a collapsed node keeps every row under its own (`FlattenIs`) |
| `AiOverlay_proofs` | `KeptInPlace`: `OverlaySound`; `NoLateAnswer`: `AnswerInPlace` | `OverlayInv` with `FlightInv`: a request under way is numbered no higher than the last, and the one with that number is what the overlay waits for |
| | `KeysLeadSomewhere`: `KeysSound` | `KeysInv`: the bindings are the table that the file gives (`TableAt`); of two keys that a file sets one is left for each way out (`OneIsLeft`) |
| `Widgets_proofs` | `RowsInView`: `ListSteps` | `ListInv`, with a lemma on the arithmetic of scrolling (`SelectDraws`) |
| | `LookupsAgree`: `LookupSound` | `IpInv` and, since the drain walks the receivers one by one, `Midway`, the invariant of that walk (`AfterKeeps`, `DrainKeeps`) |
| | `EditorsStayInText`: `EntrySound`; `EditorIsZipper`: `IsZipper` | `EntryInv`; the byte offset of a character rises strictly, so that a cut is never inside one (`OffsetsRise`, `RightByte`) |
| | `CursorKeepsToTree`: `TreeSound` | `TreeInv`: the cursor is on a line (`OnLine`), what is lit are its bytes (`Lit`), and what is collapsed is known for the layers shown (`Remembered`), also while they are replaced (`WentKeeps`); the bytes of a layer contain those of its fields (`UnionCovers`) |
| | `CursorWalksLines`: `TreeSteps` | `TreeInv`; lines ordered by layer, then field, and the number of a line as the cardinality of those above it |
| `Outside_proofs` | `NamesTheOwner`: `OwnerSound` | `OwnersInv`: an entry of the map is of a process that has had a socket with the flow, and what was sent is in the map or was evicted from it, also while it waits to be drained (`AirInv`) |
| | `LinesInOrder`: `CliOutput` | `CliInv`: where each packet is (`QueueInv`, `LinesInv`), what has been counted, and a path is in one of pending, matched and printed (`PathsInv`, `MatchInv`) |
| | `PathsAreSound`: `PathsSound`; `PathsGoToNewest`: `MatchedToNewest` | `PathInv`: the events that were not lost are divided among buffers, pending and completed paths, told apart by their times, and the recent flows are the last of those captured while the engine is on |

### What the proofs changed in the models

- `AiOverlay` needed that there is a document (`MaxDocs` is not 0), `Cli` that
  `NoPath` is no packet's number, `IpLookup` that `Unknown` is no answer, `Session`
  that a file holds a sequence of packets: assumptions that the code satisfies and
  no run had asked for.
- `WithRecent` of `Session` was written with a library fold; it is now the loop of
  `Vec::retain` as a recursive function (`Retained`), which can be unfolded.
- `LineOf` of `DetailTree` counted the lines above the cursor with a library fold; it
  is now the cardinality of the set of those lines, which the finite-set theorems
  reason about. `ShapeAssumption` says what a tree is: layers with a name and fields.
- `DialogSound` is not inductive: only `AskedOverPackets` excludes a state in which
  the dialog that asks before quitting is open over an empty table, and `QuitSave`
  in it would set the wish without opening a dialog.
- `BuildPath` of `PathTrace` put the events of a path in order with a library sort;
  it now gives each event the place that the number of earlier ones says, and the
  loops over buffers and events are recursive functions. Sockets and CPUs are finite
  sets.
- `KeysSound` was false as it stood: `DefaultsWork` had to leave out actions whose
  default another action of the file takes. With Shift+g among the keys of the run
  TLC found the same case. The guards of the keys inside a dialog exclude each other,
  as the arms of the `match` in the code do.
- The lines of `DetailTree` are an ordered set instead of a flattened sequence.
- `FilterEval` states `&` through the set of places at which a number has a 1
  (`Bits`), and shifts through powers of two (`Place`), without a library of bit
  operations; the connectives are those of logic. Texts, addresses, packets and
  values have named assumptions: the canonical text of an address is in lower case
  and reads as the same address.
- `FastDissect` names what a frame that is sent satisfies (`FrameOK`: ICMPv4 is over
  IPv4 and ICMPv6 over IPv6, two VLAN tags at most). A pflog header may name any
  length of one byte: `RangesInPacket` then needs `DirectionNotInHeader`, and the
  agreement of the parts needs that the parser gets to its end (`ReadsPastEnd`).
- `Stats` and `StatsDialog` sum and sort without the library: `SumTo` is a recursive
  function, `Arranged` lists a finite set in a strict order, and the tree is in
  pre-order because its nodes are compared where their paths part (`TreeOrder`).
  `AddressesDiffer` and `StatsAssumption` say what the code has by the types: two
  addresses of one number or of one text are one, every packet has two addresses and
  ports that compare, a hash map lists its keys in some order, and a graph has at
  least one bucket.
- The readers of `Export` are automata with a state per character, instead of recursive
  functions that look ahead; lines are flattened sequences of fields with what ends
  them; a carriage return is a character of its own, which both formats treat apart.

### Recursion

What a recursive function computes is proved where the recursion is a function on
numbers: `SetInduction`, induction stated about a set of numbers, takes the place of
an induction over predicates. Existence and uniqueness of the function come first
(`PositionsExist`, `SomethingRetains`, `SomethingMeasures`, `LoopRuns`, `Counting`,
`DoublingRuns`, `StatesRun`), then its values.

### What only TLC checks, and why

- Liveness under fairness: `Delivered`, `CaptureEnds`, `CliEnds`, `WaitEnds`,
  `PendingAnswered`.
- What recursive operators compute: `LangSound` (`RECURSIVE` lexer and parser).

## 5. Where the code and its words differ

Four runs end in a counterexample; `PROJECT.json` quotes the lines.

- `capture_drift`: after a drop, process and container information is filed under
  another packet's position. The same drift makes `filtered_indices` hold wrong
  positions and, after a second capture, no longer be sorted, although
  `selected_display_pos` (app.rs 2383-2387) searches it by bisection.
- `deep_stuck`: `DISSECTING...` stays when the worker is replaced or the packet
  deselected while a request is pending.
- `session_quit`: "save and quit" quits also when the save failed.
- `path_expiry`: the last path is not expired until another event arrives.

More of the kind is stated in the modules without a run of its own; a
configuration with the property in place of those of a run shows each:

| Property | What happens |
|---|---|
| `Capture!StopKeepsEverything` | a stop discards what is in the channel beyond one drain of 1000 packets |
| `Capture!SavedTimes` | packets of a second capture are saved relative to the base time of the first |
| `DeepDissect!DetailAfterDrops` | after a drop the filtered list holds a number ahead of the store; selecting it keeps the old detail, and when the store has grown past that number another packet's detail stands beside the row (app.rs 1799-1836, 597-605) |
| `DeepDissect!LeaksBounded` | timeouts that alternate with answers leave any number of helper threads behind |
| `AiOverlay!LatestAskedShown` | an explanation shown from the cache is replaced by the late answer to the question before |
| `AiOverlay!CachedAboutDocument` | an answer that arrives after a file was opened is cached as an explanation of that file's packet |
| `AiOverlay!AnswerAboutDocument` | the answer about packet 0 that arrives after a file was opened is shown for packet 0 of that file, unless something has been asked since (app.rs 3044-3060; `do_open_file` neither passes over a number nor replaces the worker) |
| `Session!UnmodifiedIsOnDisk` | a save over the loaded file that fails leaves it cut, an export over it replaces it, and the packets still count as unmodified |
| `Session!LastSaveIsOfThisDocument` | a quick save after opening a file writes over the capture saved before |
| `StatsDialog!HierarchyByPath` | the hierarchy counts a protocol per depth, not per path (phase7-statistics.md:98) |
| `FastDissect!RangesPointAtFields` | with a VLAN tag the highlighted bytes of the IPv4 header are four, with two tags eight bytes early (fast.rs 194) |
| `Bindings!UserKeyWins` | the example configuration in keys.rs 49-57 binds `f` to the filter; the default of auto-scroll takes it |

Seen on the way, read from the code and not checked:

- Selection and details. A followed capture changes the packet under the open AI
  overlay without a new explanation (app.rs 597-605) and under the open IP dialog
  without a new lookup. Explanations of fields are cached by layer and field
  number, which mean something else once the deep detail is there (app.rs 3170,
  638-657). Down on the last field of the tree goes back to the layer; two layers
  with one key share what is remembered as collapsed.
- Session. Ctrl+C quits without a question, while tuishark.md:66 says it asks, and
  does nothing inside a dialog. `file_path` is never reset, so that the interface
  picker cannot be opened again after a file (tuishark.md:59).
- Filters. A filter that does not parse clears the one in force although the
  comment at app.rs 2327 says that it stays (`FailedFilterKeepsOld` of `TextEntry`
  states the comment). `ip ==` compares texts, `ip <` compares numbers; `tcp` alone
  does not match HTTP or TLS; the grammar in the comment has quoted strings after
  `contains`, the code takes words and numbers as well. The recursion has no limit.
- Keys. Bindings written as `Ctrl+S`, `Shift+Tab` or `+` never match an event, nor
  does the default `G`; arrow aliases that keys.rs 190 calls non-overridable are
  overridden by a user's binding.
- Paths. "Validate 5-tuple consistency" (path_aggregator.rs 44) compares no ports;
  two packets of one flow that use a buffer within 50 ms are one path; hops before
  the transport header is set never match; "detach" closes the perf buffers only,
  and a second attach then fails.
- Processes. The lookup is made once, at the drain: first packets of a connection
  have no process, a port used again the former one. DNS over TCP is never found,
  as its key says UDP (trace/lookup.rs 14); IPv6 and unconnected UDP are skipped.
- IP information. A failed lookup is cached for good; addresses of special ranges
  are not counted against the bound of the cache; an address whose thread ends
  without an answer stays in flight (lookup.rs 98).
- Deep dissection. A dissector whose tshark is dead is replaced after a timeout but
  not after an error; packets before the base time are always refused; a dissector
  that cannot be made after `mkfifo` leaves the FIFO file.
- Statistics. Rows of the hierarchy remember whether they are expanded by row
  number, so a new protocol shifts what is expanded; packets of length zero are not
  counted by endpoints; packets of link types without Ethernet are under it.
- Fast dissection. "Sanity: minimum 48 bytes" (fast.rs 385) is not enforced: any
  length other than 0 is taken as it is, so that a packet of less than 24 bytes whose
  header names no more than it has ends the thread (`ReadsPastEnd`), and the
  direction field is at bytes 44-45 although the header may end before; a TCP
  packet to port 53 whose flags are 0 counts under UDP.
- Export. "RFC 4180 compliant" (phase8-export.md:18, csv.rs 9): records end in LF,
  where the RFC asks for CR LF. The reader of `Export` takes the LF and tests the
  quoting only; it refuses a CR outside quotes. Of JSON, the info text of the command
  line mode is read back, no other member. Rounding to microseconds may give seven
  digits (csv.rs 118).
- Command line mode. A packet that is delivered between an empty `try_recv` and the
  end of the thread is not printed (cli.rs 243); paths matched late are counted in
  the summary and not printed, those taken early are printed and not counted.

## 6. Left out, and why

- Reading and writing records of capture files, PDML, HTTP, JSON of the AI
  context: bytes of formats that other programs define. A file is the sequence of
  its packets, an answer is what it is about.
- Loading of eBPF programs, BTF offsets and their fallbacks
  (trace/engine.rs, trace/path_engine.rs, btf): system calls whose only outcome
  for the rest is tracing or no tracing. Reading kernel structures in
  `tuishark-ebpf` yields a flow, or none (`set` of `HandleSkb`).
- Texts of fields and info columns, the text report of the export, colours,
  columns, layout and help: they decide nothing that another part reads. Of
  drawing, what it stores (heights, scroll positions) is modelled.
- Packets of less than 24 bytes that end the pflog parser: there is neither a row
  nor a detail to compare, `DissectSound` begins behind them.
- The worker that `try_spawn` replaces in `DeepDissect`: its channels are dropped
  with it, so nothing it does can be seen.
- The AI overlay without AI in the configuration: it shows how to set it up. A
  file without packets in `AiOverlay`: there is nothing to explain.
- Command line arguments, and the columns, filters and colours of the
  configuration: values that are read once.
- The build script.
- One composition of `Capture`, `DeepDissect`, `AiOverlay`, `DetailTree` and
  `IpLookup` around one `select_packet`: the product of their states is beyond TLC
  at any bounds that still show what each of them is about. Their environment
  steps stand for it (section 2).

## 7. Plan

Modelled as planned: `Session`, `PathTrace`, `IpLookup`, `FilterLang` with
`FilterEval`, `Stats`; beyond the plan: `TextEntry`, `ScrollList`, `DetailTree`,
`StatsDialog`, `FastDissect`, `Bindings`, `Cli`, `Export`, `Owners`, `DeepPipe`.

Every safety property of the runs but `LangSound` is a theorem. It would need the
lexer and the parser as functions on positions instead of `RECURSIVE` operators,
the grammar as a relation between positions, and an induction over the nesting of
expressions; what is left besides is the liveness that no prover here reaches.
