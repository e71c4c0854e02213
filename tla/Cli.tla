--------------------------------- MODULE Cli ---------------------------------
(***************************************************************************)
(* The command line mode (cli.rs): a loop that prints the packets of a     *)
(* file, or those of a capture thread until a signal, a count, a closed    *)
(* pipe or the end of the thread; and the kernel paths printed with them.  *)
(* PathTrace has the aggregator of paths in detail: here a path is that of *)
(* one packet, and it is written to the perf buffer, pending there, and    *)
(* ended.  What is printed of a packet is in Export.                       *)
(***************************************************************************)
EXTENDS Integers, Sequences, FiniteSets, SequencesExt, Functions

CONSTANTS
  CliPackets,    \* bound: packets there are
  Traffic,       \* of each: is it wanted by the filter, and its flow
  Limits,        \* values of --count; more than CliPackets is none
  QueueMax,      \* CHANNEL_CAPACITY
  RecentMax, RecentDropped,   \* 2,000 and 1,000
  MatchedMax,    \* 2,000
  NoPath

(* A flow is a number, the reverse of it the negative number, and 0 is     *)
(* that of packets that have no flow key.                                  *)
ASSUME CliAssumption ==
  /\ Traffic \subseteq [1..CliPackets -> [wanted : BOOLEAN, flow : Int]]
  /\ {CliPackets, QueueMax, RecentMax, MatchedMax} \subseteq Nat \ {0}
  /\ RecentDropped \in 1..RecentMax /\ Limits \subseteq Nat
  /\ NoPath \notin 1..CliPackets

VARIABLES
  kind,      \* of each packet
  limit,     \* count
  live,      \* run_live, not run_file
  tracing,   \* path_engine is Some
  on,        \* RUNNING
  pipe,      \* standard output has a reader
  loop,      \* where the loop is
  caught,    \* packets the capture has numbered so far
  catching,    \* the capture thread runs
  queue,     \* the channel
  refused,      \* packets dropped because the channel was full
  stage,     \* of each packet's path
  window,    \* recent_flow_keys, without the keys
  matched,   \* matched_paths
  output     \* what was printed, with the path

cliVars == <<kind, limit, live, tracing, on, pipe, loop, caught, catching, queue, refused,
             stage, window, matched, output>>
pathParts == <<stage, window, matched>>
inputs == <<kind, limit, live, tracing>>

Numbers == 1..CliPackets
FlowOf(i) == kind[i].flow

CliTypeOK ==
  /\ kind \in Traffic /\ limit \in Limits
  /\ {live, tracing, on, pipe, catching} \subseteq BOOLEAN
  /\ loop \in {"top", "receive", "empty", "stopping", "done"}
  /\ caught \in 0..CliPackets
  /\ queue \in Seq(Numbers) /\ refused \subseteq Numbers
  /\ stage \in [Numbers -> {"none", "perf", "pending", "ended"}]
  /\ window \in Seq(Numbers)
  /\ matched \in [Numbers -> Numbers \union {NoPath}]
  /\ output \in Seq([index : Numbers, path : Numbers \union {NoPath}])

CliInit ==
  /\ kind \in Traffic /\ limit \in Limits
  /\ live \in BOOLEAN /\ tracing \in {FALSE, live}
  /\ on = TRUE /\ pipe = TRUE /\ loop = "top"
  /\ catching = live /\ refused = {}
  /\ IF live THEN caught = 0 /\ queue = <<>>
     ELSE caught = CliPackets /\ queue = [i \in Numbers |-> i]
  /\ stage = [i \in Numbers |-> "none"]
  /\ window = <<>> /\ matched = [i \in Numbers |-> NoPath] /\ output = <<>>

-----------------------------------------------------------------------------
(* What happens around the loop.                                           *)

(* A fault: packets are counted from zero.                                 *)
NextFromZero == caught

NextNumber == caught + 1

(* capture_loop: a packet is numbered, and dropped if the channel is full. *)
Catch ==
  /\ catching /\ caught < CliPackets
  /\ caught' = caught + 1
  /\ IF Len(queue) < QueueMax
       THEN queue' = Append(queue, NextNumber) /\ UNCHANGED refused
       ELSE refused' = refused \union {NextNumber} /\ UNCHANGED queue
  /\ UNCHANGED <<inputs, on, pipe, loop, catching, pathParts, output>>

(* The device fails.                                                       *)
Die ==
  /\ catching /\ loop # "stopping"
  /\ catching' = FALSE
  /\ UNCHANGED <<inputs, on, pipe, loop, caught, queue, refused, pathParts, output>>

(* The kernel writes a packet's path, before or after its capture.         *)
Emit(i) ==
  /\ tracing /\ FlowOf(i) # 0 /\ stage[i] = "none"
  /\ stage' = [stage EXCEPT ![i] = "perf"]
  /\ UNCHANGED <<inputs, on, pipe, loop, caught, catching, queue, refused, window, matched, output>>

Signal ==
  /\ on /\ on' = FALSE
  /\ UNCHANGED <<inputs, pipe, loop, caught, catching, queue, refused, pathParts, output>>

ClosePipe ==
  /\ pipe /\ pipe' = FALSE
  /\ UNCHANGED <<inputs, on, loop, caught, catching, queue, refused, pathParts, output>>

-----------------------------------------------------------------------------
(* The loop.                                                               *)

(* A fault: the count is looked at after the packet.                       *)
ReachedAfter == Len(output) > limit

Reached == Len(output) >= limit

(* A fault: the signal only matters when nothing arrives.                  *)
HaltsByCount == Reached

Halts == ~on \/ Reached

(* match_to_packets, for a path: the newest packet of its flow, or else of *)
(* the reverse.                                                            *)
NewestOf(f) ==
  LET same == {n \in DOMAIN window : FlowOf(window[n]) = f}
  IN  IF same = {} THEN NoPath ELSE window[CHOOSE n \in same : \A m \in same : m <= n]

(* A fault: what matches is taken to be the packet that comes next.        *)
MatchOfNext(p) ==
  LET i == NewestOf(FlowOf(p)) IN IF i # NoPath /\ i < CliPackets THEN i + 1 ELSE i

MatchOf(p) == IF NewestOf(FlowOf(p)) # NoPath THEN NewestOf(FlowOf(p)) ELSE NewestOf(-FlowOf(p))

Capped(m) ==
  IF Cardinality({i \in Numbers : m[i] # NoPath}) > MatchedMax THEN [i \in Numbers |-> NoPath] ELSE m

(* Events are read, and with them (ingest calls expire_paths) the paths    *)
(* without an event for 50 ms end and are matched; so are those whose      *)
(* sk_buff was used again, also for a packet read at once with it: the one *)
(* that used it last stays.                                                *)
Poll ==
  /\ loop = "top" /\ live /\ ~Halts
  /\ loop' = "receive"
  /\ \E ended \in SUBSET {p \in Numbers : stage[p] \in {"perf", "pending"}} :
       LET read == {p \in Numbers : stage[p] = "perf"}
           found(i) == {p \in ended : MatchOf(p) = i}
       IN /\ ended = {} \/ ~(read \subseteq ended)
          /\ stage' = [p \in Numbers |-> IF p \in ended THEN "ended"
                                        ELSE IF p \in read THEN "pending" ELSE stage[p]]
          /\ IF ended = {} THEN UNCHANGED matched
             ELSE \E m \in [Numbers -> Numbers \union {NoPath}] :
                    /\ \A i \in Numbers : IF found(i) = {} THEN m[i] = matched[i] ELSE m[i] \in found(i)
                    /\ matched' = Capped(m)
  /\ UNCHANGED <<inputs, on, pipe, caught, catching, queue, refused, window, output>>

(* try_extract_pending: which of several is the longest is left open.      *)
Extractable(i) == {p \in Numbers : stage[p] = "pending" /\ FlowOf(p) \in {FlowOf(i), -FlowOf(i)}}

(* A fault: a path that is printed stays pending.                          *)
SpentNever(p) == stage

Spent(p) == [stage EXCEPT ![p] = "ended"]

(* A fault: the window is not cut.                                         *)
RememberedAll(i) == Append(window, i)

Remembered(i) ==
  LET all == Append(window, i)
  IN  IF Len(all) > RecentMax THEN SubSeq(all, RecentDropped + 1, Len(all)) ELSE all

(* The path for a packet, and what is left of the paths.                   *)
PathFor(i, path) ==
  /\ matched' = [matched EXCEPT ![i] = NoPath]
  /\ IF matched[i] # NoPath THEN path = matched[i] /\ UNCHANGED stage
     ELSE IF tracing /\ FlowOf(i) # 0 /\ Extractable(i) # {}
       THEN path \in Extractable(i) /\ stage' = Spent(path)
       ELSE path = NoPath /\ UNCHANGED stage
  /\ window' = IF tracing /\ FlowOf(i) # 0 THEN Remembered(i) ELSE window

(* A packet taken from the channel, or the next one of the file: passed    *)
(* over, or printed.  Standard output is buffered, so that writing may     *)
(* succeed although nobody reads it any more.                              *)
PrintNext ==
  /\ \/ live /\ loop = "receive"
     \/ ~live /\ loop = "top" /\ ~Halts
  /\ queue # <<>>
  /\ queue' = Tail(queue)
  /\ LET i == Head(queue) IN
       \/ ~kind[i].wanted /\ loop' = "top" /\ UNCHANGED <<pathParts, output>>
       \/ /\ kind[i].wanted
          /\ \E path \in Numbers \union {NoPath} :
               /\ PathFor(i, path)
               /\ \/ output' = Append(output, [index |-> i, path |-> path]) /\ loop' = "top"
                  \/ ~pipe /\ loop' = "stopping" /\ UNCHANGED output
  /\ UNCHANGED <<inputs, on, pipe, caught, catching, refused>>

(* try_recv finds nothing; only after that is the thread asked about.      *)
FindNothing ==
  /\ loop = "receive" /\ queue = <<>>
  /\ loop' = "empty"
  /\ UNCHANGED <<inputs, on, pipe, caught, catching, queue, refused, pathParts, output>>

(* A fault: the loop goes on while the thread is gone.                     *)
OverNever == FALSE

Over == ~catching

AskThread ==
  /\ loop = "empty"
  /\ loop' = IF Over THEN "stopping" ELSE "top"
  /\ UNCHANGED <<inputs, on, pipe, caught, catching, queue, refused, pathParts, output>>

LeaveLoop ==
  /\ loop = "top"
  /\ Halts \/ (~live /\ queue = <<>>)
  /\ loop' = "stopping"
  /\ UNCHANGED <<inputs, on, pipe, caught, catching, queue, refused, pathParts, output>>

(* capture.stop() joins the thread, which looks at the flag every 100 ms;  *)
(* before it, remaining events are read and all paths end, unmatched.      *)
Finished ==
  /\ loop = "stopping"
  /\ loop' = "done" /\ catching' = FALSE
  /\ stage' = [p \in Numbers |-> IF stage[p] = "none" THEN "none" ELSE "ended"]
  /\ UNCHANGED <<inputs, on, pipe, caught, queue, refused, window, matched, output>>

CliLoop == Poll \/ PrintNext \/ FindNothing \/ AskThread \/ LeaveLoop \/ Finished

CliNext == Catch \/ Die \/ Signal \/ ClosePipe \/ (\E i \in Numbers : Emit(i)) \/ CliLoop

CliSpec == CliInit /\ [][CliNext]_cliVars

-----------------------------------------------------------------------------
(* Properties.                                                             *)

Printed == {output[n].index : n \in DOMAIN output}
Passed(i) == i <= caught /\ i \notin Range(queue) /\ i \notin refused

(* Packets are printed in the order of their numbers, each that the filter *)
(* wants and the channel carried, without a gap, until the count           *)
(* ("packets captured and displayed").  The one being written when the     *)
(* pipe broke is not.                                                      *)
PrintsInOrder ==
  /\ Len(output) <= limit
  /\ \A n \in 2..Len(output) : output[n - 1].index < output[n].index
  /\ \A i \in Numbers : Passed(i) /\ kind[i].wanted => i \in Printed \/ ~pipe

(* A path is printed with a packet of its flow, in either direction, and   *)
(* with one packet only.                                                   *)
PathPrintedOnce ==
  \A n \in DOMAIN output : output[n].path # NoPath =>
    /\ FlowOf(output[n].path) \in {FlowOf(output[n].index), -FlowOf(output[n].index)}
    /\ \A m \in DOMAIN output : output[m].path = output[n].path => m = n

(* Paths that end later are matched only with packets that have been       *)
(* printed already: what matched_paths holds is never printed, although    *)
(* the summary counts it ("fallback matching of late-completing paths").   *)
LateIsTooLate == \A i \in Numbers : matched[i] # NoPath => i \in Printed \/ ~pipe

(* However long the capture, the lists for matching stay small.            *)
KeptBounded ==
  /\ Len(window) <= RecentMax
  /\ Cardinality({i \in Numbers : matched[i] # NoPath}) <= MatchedMax

(* What the command line mode prints and keeps, together.                  *)
CliOutput == CliTypeOK /\ PrintsInOrder /\ PathPrintedOnce /\ LateIsTooLate /\ KeptBounded

(* The loop ends by itself when the thread is gone, and at once on a       *)
(* signal, whatever keeps arriving.                                        *)
SignalEnds == ~on ~> loop = "done"
DeathEnds == ~catching ~> loop = "done"

(* The mode ends when it should (the loop of run_live).                    *)
CliEnds == SignalEnds /\ DeathEnds
=============================================================================
