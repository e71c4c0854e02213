----------------------------- MODULE PathTrace -----------------------------
(***************************************************************************)
(* Tracing packets through the kernel: the probes of tuishark-ebpf, which  *)
(* write an event per function to the perf buffer of their CPU; the main   *)
(* loop, which reads the buffers, groups events by the address of the      *)
(* packet's sk_buff (path_aggregator.rs) and matches finished paths with   *)
(* captured packets by flow; and the key that turns it on and off.  Packet *)
(* numbers stand for store indices: packets are captured in any order, and *)
(* a packet has one direction of its flow.                                 *)
(***************************************************************************)
EXTENDS Integers, Sequences, FiniteSets, SequencesExt

CONSTANTS
  Flow,          \* of each packet: a record of src, dst and ports
  Skb,           \* addresses of sk_buffs, used again
  Cpu,
  Hops,          \* traced functions that a packet goes through
  PerfMax,       \* events that a perf buffer holds
  PollMax,       \* 64, events taken from a perf buffer at once
  IdleAge,       \* 50 ms, in units
  SweepAge,      \* 20 ms, in units
  PendingMax, PendingDropped,      \* 10,000 and 5,000
  CompletedMax, CompletedDropped,  \* 10,000 and 5,000
  Window, WindowDropped,           \* 2,000 and 1,000
  TracePath,     \* the values of enable_trace_path looked at
  None           \* no filter, no address, no path

ASSUME FlowAssumption == Flow \in Seq([src : STRING, dst : STRING, ports : STRING \ {"unset"}])
ASSUME BoundAssumption ==
  /\ {Hops, PerfMax, PollMax, IdleAge, SweepAge, PendingMax, CompletedMax, Window} \subseteq Nat \ {0}
  /\ PendingDropped \in 1..PendingMax /\ CompletedDropped \in 1..CompletedMax
  /\ WindowDropped \in 1..Window
  /\ TracePath \subseteq BOOLEAN
  /\ IsFiniteSet(Skb) /\ IsFiniteSet(Cpu)

Packet == DOMAIN Flow
Mirror(f) == [src |-> f.dst, dst |-> f.src, ports |-> f.ports]
Event == [packet : Packet, skb : Skb, at : Nat, flow : {[f EXCEPT !.ports = p] :
            f \in Range(Flow), p \in {"unset"} \union {g.ports : g \in Range(Flow)}}]

VARIABLES
  hop,         \* functions each packet has gone through
  skbOf,       \* the address of each packet's sk_buff while it has one
  kernelTime,  \* number of events so far, for their timestamps
  perf,        \* the perf buffer of each CPU
  kernelFilter,\* TRACE_FILTER
  pending,     \* PathAggregator.pending: events by address
  age,         \* time since the last event of each address, up to IdleAge
  sweepAge,    \* time since the last sweep, up to SweepAge
  recent,      \* recent_flow_keys
  captured,    \* the packets captured, in order (the store)
  paths,       \* path_store
  traceState,  \* path_trace_state
  engine,      \* path_engine is Some
  taken,       \* the map PATH_EVENTS was taken out of the eBPF object
  fileMode,    \* trace_state is FileMode: a file was opened
  always       \* enable_trace_path

kernelVars == <<hop, skbOf, kernelTime, perf>>
aggVars == <<pending, age, sweepAge>>
modeVars == <<kernelFilter, traceState, engine, taken, always>>
pathVars == <<kernelVars, aggVars, modeVars, recent, captured, paths, fileMode>>

ASSUME NoneAssumption ==
  None \notin Packet /\ None \notin Range(Flow) /\ None \notin Skb /\ None \notin Seq(Event)

PathTypeOK ==
  /\ hop \in [Packet -> 0..Hops] /\ skbOf \in [Packet -> Skb \union {None}]
  /\ kernelTime \in Nat
  /\ perf \in [Cpu -> Seq(Event)] /\ \A c \in Cpu : Len(perf[c]) <= PerfMax
  /\ kernelFilter \in Range(Flow) \union {None}
  /\ pending \in [Skb -> Seq(Event)]
  /\ age \in [Skb -> 0..IdleAge] /\ sweepAge \in 0..SweepAge
  /\ recent \in Seq(Packet) /\ captured \in Seq(Packet) /\ Len(recent) <= Window
  /\ paths \in [Packet -> Seq(Event) \union {None}]
  /\ traceState \in {"inactive", "active", "filtered"}
  /\ {engine, taken, fileMode, always} \subseteq BOOLEAN

-----------------------------------------------------------------------------
(* The kernel.                                                             *)

SameFlow(f, g) == f = g \/ f = Mirror(g)

(* handle_skb, for one function on one CPU.  At the first ones the         *)
(* transport header may not be set: then there are no ports.               *)
HandleSkb(p, c, set) ==
  /\ hop[p] < Hops /\ (hop[p] > 0 => set)
  /\ \E s \in Skb :
       /\ IF hop[p] = 0 THEN \A q \in Packet : skbOf[q] # s ELSE s = skbOf[p]
       /\ skbOf' = [skbOf EXCEPT ![p] = IF hop[p] + 1 < Hops THEN s ELSE None]
       /\ LET flow == IF set THEN Flow[p] ELSE [Flow[p] EXCEPT !.ports = "unset"]
              event == [packet |-> p, skb |-> s, at |-> kernelTime, flow |-> flow]
              passed == taken /\ (kernelFilter # None => SameFlow(flow, kernelFilter))
          IN  perf' = IF passed /\ engine /\ Len(perf[c]) < PerfMax
                        THEN [perf EXCEPT ![c] = Append(@, event)] ELSE perf
  /\ hop' = [hop EXCEPT ![p] = @ + 1]
  /\ kernelTime' = kernelTime + 1
  /\ UNCHANGED <<aggVars, modeVars, recent, captured, paths, fileMode>>

-----------------------------------------------------------------------------
(* The aggregator, on its state: events by address, their ages, and the    *)
(* paths that are complete.                                                *)

(* A fault: events stay in the order in which the buffers were read.       *)
BuildPathAsRead(events) == events

(* build_path, a stable sort by time: the place of an event is after those *)
(* that are earlier.                                                       *)
Earlier(events, i) ==
  {j \in DOMAIN events : events[j].at < events[i].at \/ (events[j].at = events[i].at /\ j < i)}

BuildPath(events) ==
  [n \in DOMAIN events |->
     events[CHOOSE i \in DOMAIN events : Cardinality(Earlier(events, i)) + 1 = n]]

(* A fault: an address always stands for the same packet.                  *)
IngestOneTrusting(s, e) ==
  [s EXCEPT !.pending[e.skb] = Append(s.pending[e.skb], e), !.age[e.skb] = 0]

(* ingest, for an event: an address with another pair of hosts is another  *)
(* packet's.                                                               *)
IngestOne(s, e) ==
  LET old == s.pending[e.skb]
      reused == old # <<>> /\ <<old[1].flow.src, old[1].flow.dst>> # <<e.flow.src, e.flow.dst>>
  IN  [pending |-> [s.pending EXCEPT ![e.skb] = IF reused THEN <<e>> ELSE Append(old, e)],
       age |-> [s.age EXCEPT ![e.skb] = 0],
       completed |-> IF reused THEN Append(s.completed, BuildPath(old)) ELSE s.completed]

Ingested(s, events) ==
  LET upTo[n \in 0..Len(events)] == IF n = 0 THEN s ELSE IngestOne(upTo[n - 1], events[n])
  IN  upTo[Len(events)]

Held(s) == {k \in Skb : s.pending[k] # <<>>}

(* The paths at these addresses, oldest last event first or in the order   *)
(* of a hash map, become complete.                                         *)
Finish(s, keys) ==
  [pending |-> [k \in Skb |-> IF k \in Range(keys) THEN <<>> ELSE s.pending[k]],
   age |-> s.age,
   completed |-> s.completed \o [i \in DOMAIN keys |-> BuildPath(s.pending[keys[i]])]]

Orders(S) == {q \in [1..Cardinality(S) -> S] : Range(q) = S}

CapPending(s) ==
  IF Cardinality(Held(s)) <= PendingMax THEN {s}
  ELSE {Finish(s, SubSeq(q, 1, PendingDropped)) :
          q \in {o \in Orders(Held(s)) :
                   \A i, j \in DOMAIN o : i < j => s.age[o[i]] >= s.age[o[j]]}}

CapCompleted(s) ==
  IF Len(s.completed) <= CompletedMax THEN s
  ELSE [s EXCEPT !.completed = SubSeq(s.completed, CompletedDropped + 1, Len(s.completed))]

(* expire_paths.                                                           *)
ExpirePaths(s) ==
  LET idle == {k \in Held(s) : s.age[k] >= IdleAge}
  IN  {CapCompleted(t) : t \in UNION {CapPending(Finish(s, q)) : q \in Orders(idle)}}

Aggregator == [pending |-> pending, age |-> age, completed |-> <<>>]

-----------------------------------------------------------------------------
(* Matching.                                                               *)

(* The last packet among the recent ones with this flow.                   *)
Newest(f) ==
  LET same == {i \in DOMAIN recent : Flow[recent[i]] = f}
  IN  IF same = {} THEN None ELSE recent[CHOOSE i \in same : \A j \in same : j <= i]

(* A fault: the first of them.                                             *)
MatchedOldest(path) ==
  LET same == {i \in DOMAIN recent : SameFlow(Flow[recent[i]], path[1].flow)}
  IN  IF same = {} THEN None ELSE recent[CHOOSE i \in same : \A j \in same : j >= i]

(* match_to_packets: a packet in the path's direction, else in the other.  *)
Matched(path) ==
  LET f == path[1].flow
  IN  IF Newest(f) # None THEN Newest(f) ELSE Newest(Mirror(f))

(* Each path goes to its packet, in place of one that is there already.    *)
StoreOne(store, path) ==
  IF Matched(path) = None THEN store ELSE [store EXCEPT ![Matched(path)] = path]

Stored(completed) ==
  LET upTo[n \in 0..Len(completed)] == IF n = 0 THEN paths ELSE StoreOne(upTo[n - 1], completed[n])
  IN  upTo[Len(completed)]

-----------------------------------------------------------------------------
(* The main loop.                                                          *)

PathInit ==
  /\ hop = [p \in Packet |-> 0] /\ skbOf = [p \in Packet |-> None] /\ kernelTime = 0
  /\ perf = [c \in Cpu |-> <<>>] /\ kernelFilter = None
  /\ pending = [s \in Skb |-> <<>>] /\ age = [s \in Skb |-> 0] /\ sweepAge = 0
  /\ recent = <<>> /\ captured = <<>> /\ paths = [p \in Packet |-> None]
  /\ always \in TracePath /\ engine = always /\ taken = always
  /\ traceState = (IF always THEN "active" ELSE "inactive") /\ fileMode = FALSE

(* Time passes in the main loop.                                           *)
PathTick ==
  /\ \E a \in DOMAIN age : age[a] < IdleAge \/ sweepAge < SweepAge
  /\ age' = [s \in Skb |-> IF age[s] < IdleAge THEN age[s] + 1 ELSE IdleAge]
  /\ sweepAge' = IF sweepAge < SweepAge THEN sweepAge + 1 ELSE SweepAge
  /\ UNCHANGED <<kernelVars, modeVars, pending, recent, captured, paths, fileMode>>

(* A packet with this flow takes the longest pending path of it at once    *)
(* (try_extract_pending).                                                  *)
Pendings(f) == {s \in Skb : pending[s] # <<>> /\ SameFlow(pending[s][1].flow, f)}
Longest(S) == {s \in S : \A t \in S : Len(pending[t]) <= Len(pending[s])}

(* A fault: the path that is taken stays pending.                          *)
TryExtractCopying(p) ==
  IF Pendings(Flow[p]) = {} THEN UNCHANGED <<pending, paths>>
  ELSE /\ UNCHANGED pending
       /\ \E s \in Longest(Pendings(Flow[p])) :
            paths' = [paths EXCEPT ![p] = BuildPath(pending[s])]

TryExtractPending(p) ==
  IF Pendings(Flow[p]) = {} THEN UNCHANGED <<pending, paths>>
  ELSE \E s \in Longest(Pendings(Flow[p])) :
         /\ paths' = [paths EXCEPT ![p] = BuildPath(pending[s])]
         /\ pending' = [pending EXCEPT ![s] = <<>>]

(* A fault: the window is not cut.                                        *)
SlidUncut(q) == q

Slid(q) == IF Len(q) > Window THEN SubSeq(q, WindowDropped + 1, Len(q)) ELSE q

(* drain_capture_packets.  A packet is seen by the capture before, between *)
(* or after the functions that are traced.                                 *)
DrainPacket(p) ==
  /\ ~fileMode /\ p \notin Range(captured)
  /\ captured' = Append(captured, p)
  /\ IF traceState = "inactive" THEN UNCHANGED <<pending, paths, recent>>
     ELSE TryExtractPending(p) /\ recent' = Slid(Append(recent, p))
  /\ UNCHANGED <<kernelVars, modeVars, age, sweepAge, fileMode>>

(* poll: the buffers of the CPUs one after the other.                      *)
CpuOrder == CHOOSE q \in [1..Cardinality(Cpu) -> Cpu] : Range(q) = Cpu
Taken(c) == IF Len(perf[c]) < PollMax THEN Len(perf[c]) ELSE PollMax
Read ==
  LET upTo[n \in 0..Cardinality(Cpu)] ==
        IF n = 0 THEN <<>> ELSE upTo[n - 1] \o SubSeq(perf[CpuOrder[n]], 1, Taken(CpuOrder[n]))
  IN  upTo[Cardinality(Cpu)]

(* drain_path_events: without an event nothing is done, not even expiry.   *)
DrainPathEvents ==
  /\ engine /\ Read # <<>>
  /\ perf' = [c \in Cpu |-> SubSeq(perf[c], Taken(c) + 1, Len(perf[c]))]
  /\ LET s == Ingested(Aggregator, Read)
     IN  /\ sweepAge' = IF sweepAge >= SweepAge THEN 0 ELSE sweepAge
         /\ \E t \in IF sweepAge >= SweepAge THEN ExpirePaths(s) ELSE {s} :
              /\ pending' = t.pending /\ age' = t.age
              /\ paths' = Stored(t.completed)
  /\ UNCHANGED <<hop, skbOf, kernelTime, modeVars, recent, captured, fileMode>>

-----------------------------------------------------------------------------
(* toggle_path_trace, with a packet selected or none.                      *)

Mode(state) == traceState' = state /\ UNCHANGED <<perf, aggVars, paths, engine, taken>>

(* On demand.  The map of the events is given away by the first time, so   *)
(* there is no second.                                                     *)
Attach(selected) ==
  /\ traceState = "inactive" /\ ~taken
  /\ taken' = TRUE /\ engine' = TRUE
  /\ \/ /\ selected # None /\ kernelFilter' = Flow[selected] /\ traceState' = "filtered"
     \/ kernelFilter' = kernelFilter /\ traceState' = "active"
  /\ UNCHANGED <<perf, aggVars, paths>>

Narrow(selected) ==
  /\ traceState = "active" /\ always /\ selected # None
  /\ kernelFilter' = Flow[selected] /\ Mode("filtered")

(* A fault: the filter stays in the kernel.                                *)
WidenShownOnly ==
  /\ traceState = "filtered" /\ always
  /\ UNCHANGED kernelFilter /\ Mode("active")

Widen ==
  /\ traceState = "filtered" /\ always
  /\ kernelFilter' = None /\ Mode("active")

(* A fault: what is pending is not finished first.                         *)
DetachAtOnce ==
  /\ traceState # "inactive" /\ ~always
  /\ engine' = FALSE /\ perf' = [c \in Cpu |-> <<>>] /\ traceState' = "inactive"
  /\ UNCHANGED <<aggVars, paths, kernelFilter, taken>>

(* The perf buffers are closed with what is in them; the probes and their  *)
(* filter stay in the kernel.                                              *)
Detach ==
  /\ traceState # "inactive" /\ ~always
  /\ \E q \in Orders(Held(Aggregator)) :
       LET t == Finish(Aggregator, q)
       IN  pending' = t.pending /\ paths' = Stored(t.completed)
  /\ engine' = FALSE /\ perf' = [c \in Cpu |-> <<>>] /\ traceState' = "inactive"
  /\ UNCHANGED <<age, sweepAge, kernelFilter, taken>>

TogglePathTrace ==
  /\ ~fileMode
  /\ \/ \E p \in Range(captured) \union {None} : Attach(p) \/ Narrow(p)
     \/ Widen \/ Detach
  /\ UNCHANGED <<hop, skbOf, kernelTime, recent, captured, fileMode, always>>

(* A fault: the packets of the former document can still be matched.       *)
OpenFileKeepsRecent ==
  /\ ~fileMode /\ fileMode' = TRUE
  /\ captured' = <<>> /\ paths' = [p \in Packet |-> None]
  /\ UNCHANGED <<recent, kernelVars, aggVars, modeVars>>

(* do_open_file: the capture ends, and tracing goes on unseen.             *)
TraceFileOpened ==
  /\ ~fileMode /\ fileMode' = TRUE
  /\ captured' = <<>> /\ recent' = <<>> /\ paths' = [p \in Packet |-> None]
  /\ UNCHANGED <<kernelVars, aggVars, modeVars>>

PathNext ==
  \/ \E p \in Packet, c \in Cpu, set \in BOOLEAN : HandleSkb(p, c, set)
  \/ \E p \in Packet : DrainPacket(p)
  \/ DrainPathEvents \/ PathTick \/ TogglePathTrace \/ TraceFileOpened

PathSpec == PathInit /\ [][PathNext]_pathVars

(* The kernel's packets go on, time passes, and the main loop runs.        *)
PathFairness ==
  /\ \A p \in Packet : WF_pathVars(\E c \in Cpu, set \in BOOLEAN : HandleSkb(p, c, set))
  /\ \A p \in Packet : WF_pathVars(DrainPacket(p))
  /\ WF_pathVars(DrainPathEvents) /\ WF_pathVars(PathTick)

PathFairSpec == PathSpec /\ PathFairness

-----------------------------------------------------------------------------
(* Properties.                                                             *)

EventsAt(path) == IF path = None THEN {} ELSE Range(path)

(* No event is counted for two packets: neither the early extraction, nor  *)
(* expiry, nor the flush leaves behind what it takes (try_extract_pending, *)
(* expire_paths, flush).                                                   *)
EventsOnce ==
  LET holders == {perf[c] : c \in Cpu} \union {pending[s] : s \in Skb}
                   \union {paths[p] : p \in Packet}
  IN  /\ \A x, y \in holders \ {None, <<>>} : x # y => Range(x) \intersect Range(y) = {}
      /\ \A p, q \in Packet : p # q /\ paths[p] # None => paths[p] # paths[q]
      /\ \A s \in Skb, p \in Packet : pending[s] # <<>> => pending[s] # paths[p]

(* The hops of a path are in the order in which the kernel did them,       *)
(* although the buffers of the CPUs are read one after the other           *)
(* (build_path).                                                           *)
HopsInTimeOrder ==
  \A p \in Packet : paths[p] # None =>
    \A i, j \in DOMAIN paths[p] : i < j => paths[p][i].at < paths[p][j].at

(* A path is one of packets between the hosts of its packet, all in one    *)
(* direction, also when the kernel used the address again (ingest).        *)
PathOfItsHosts ==
  \A p \in Packet : \A e, f \in EventsAt(paths[p]) :
    /\ <<e.flow.src, e.flow.dst>> = <<f.flow.src, f.flow.dst>>
    /\ {e.flow.src, e.flow.dst} = {Flow[p].src, Flow[p].dst}

(* What the status says of the filter is what the kernel does: every flow, *)
(* or one (toggle_path_trace).                                             *)
FilterAsShown ==
  /\ traceState = "active" => kernelFilter = None /\ engine
  /\ traceState = "filtered" => kernelFilter # None /\ engine

(* Turning tracing off leaves nothing behind that would be shown later     *)
(* (toggle_path_trace, flush).                                             *)
InactiveIsFlushed == traceState = "inactive" => \A s \in Skb : pending[s] = <<>>

(* After a file was opened no packet of it gets a path of a captured one   *)
(* (do_open_file, drain_path_events).                                      *)
FileHasNoPaths == fileMode => \A p \in Packet : paths[p] = None

(* Paths are of one packet each, and there are none when tracing is off.   *)
PathsSound ==
  /\ PathTypeOK /\ EventsOnce /\ HopsInTimeOrder /\ PathOfItsHosts
  /\ FilterAsShown /\ InactiveIsFlushed /\ FileHasNoPaths

(* A finished path goes to the newest packet of its flow and direction     *)
(* that is still remembered; the last packet captured is (match_to_packets,*)
(* recent_flow_keys).                                                      *)
MatchedToNewest ==
  [][DrainPathEvents => \A i \in DOMAIN captured :
       LET p == captured[i]
       IN  paths'[p] # paths[p] /\ Flow[p] = paths'[p][1].flow
             => \A j \in DOMAIN captured : Flow[captured[j]] = Flow[p] => j <= i]_pathVars

(* What the documentation says and the code does not do: a path is         *)
(* complete 50 ms after its last event.                                    *)
PathsComplete == \A s \in Skb : pending[s] # <<>> ~> pending[s] = <<>> \/ fileMode
=============================================================================
