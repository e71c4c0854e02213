------------------------------ MODULE DeepPipe ------------------------------
(***************************************************************************)
(* One dissector of dissect/deep.rs after another: a FIFO, a tshark that   *)
(* reads frames from it and writes what it makes of them, and calls of     *)
(* dissect_packet, each of which writes a frame and reads one answer.      *)
(* DeepDissect has the worker around it; here is what joins an answer to   *)
(* its frame, and what is left behind of a dissector that is given up.     *)
(***************************************************************************)
EXTENDS Integers, Sequences, FiniteSets

CONSTANTS
  Frames,      \* packets to dissect
  MaxInstances \* bound: dissectors made

ASSUME PipeAssumption == MaxInstances \in Nat \ {0}

VARIABLES
  used,      \* the dissector that the worker holds, a number, or 0
  writer,    \* of each dissector: fifo_writer is open
  tshark,    \* its process: "off", "up", "stuck" or "dead"
  inFifo,    \* frames written and not yet read by it
  inPipe,    \* its answers, not yet read
  call,      \* the frame a dissector is at work on, as a sequence of 0 or 1
  replies,   \* pairs of the frame asked about and the one answered
  instances  \* INSTANCE_SEQ

pipeVars == <<used, writer, tshark, inFifo, inPipe, call, replies, instances>>

Instance == 1..MaxInstances

PipeTypeOK ==
  /\ used \in 0..MaxInstances /\ instances \in 0..MaxInstances
  /\ writer \in [Instance -> BOOLEAN]
  /\ tshark \in [Instance -> {"off", "up", "stuck", "dead"}]
  /\ inFifo \in [Instance -> Seq(Frames)] /\ inPipe \in [Instance -> Seq(Frames)]
  /\ call \in [Instance -> Seq(Frames)] /\ \A d \in Instance : Len(call[d]) <= 1
  /\ replies \subseteq Frames \X Frames

PipeInit ==
  /\ used = 0 /\ instances = 0 /\ replies = {}
  /\ writer = [d \in Instance |-> FALSE] /\ tshark = [d \in Instance |-> "off"]
  /\ inFifo = [d \in Instance |-> <<>>] /\ inPipe = [d \in Instance |-> <<>>]
  /\ call = [d \in Instance |-> <<>>]

(* DeepDissector::new: everything works, or the FIFO or tshark does not.   *)
New ==
  /\ used = 0 /\ instances < MaxInstances
  /\ instances' = instances + 1
  /\ \/ /\ used' = instances + 1
        /\ writer' = [writer EXCEPT ![instances + 1] = TRUE]
        /\ tshark' = [tshark EXCEPT ![instances + 1] = "up"]
     \/ UNCHANGED <<used, writer, tshark>>
  /\ UNCHANGED <<inFifo, inPipe, call, replies>>

(* A fault: the process of a dissector outlives it.                        *)
ReleasedInPart(d) ==
  /\ writer' = IF d = used THEN writer ELSE [writer EXCEPT ![d] = FALSE]
  /\ UNCHANGED tshark

(* A call has returned.  The worker keeps its dissector; one that it has   *)
(* given up is dropped by the thread that made the call (drop): the writer *)
(* is closed, tshark killed and the FIFO removed.                          *)
Released(d) ==
  /\ writer' = IF d = used THEN writer ELSE [writer EXCEPT ![d] = FALSE]
  /\ tshark' = IF d = used THEN tshark ELSE [tshark EXCEPT ![d] = "dead"]

(* A fault: the next packet is written before the last answer is read.     *)
FreeAnyway == used # 0

(* The worker takes a request when the call for the last one has returned. *)
Free == used # 0 /\ call[used] = <<>>

(* dissect_packet, up to its read.  A time before the first packet's is    *)
(* refused and a dead tshark breaks the pipe: then nothing happens.        *)
WriteFrame(f) ==
  /\ Free /\ tshark[used] # "dead"
  /\ inFifo' = [inFifo EXCEPT ![used] = Append(@, f)]
  /\ call' = [call EXCEPT ![used] = Append(@, f)]
  /\ UNCHANGED <<used, writer, tshark, inPipe, replies, instances>>

(* The read returns; nobody hears of it if the dissector was given up.     *)
ReadAnswer(d) ==
  /\ call[d] # <<>> /\ inPipe[d] # <<>>
  /\ call' = [call EXCEPT ![d] = <<>>] /\ inPipe' = [inPipe EXCEPT ![d] = Tail(@)]
  /\ replies' = IF d = used THEN replies \union {<<call[d][1], Head(inPipe[d])>>} ELSE replies
  /\ Released(d)
  /\ UNCHANGED <<used, inFifo, instances>>

(* It returns with an error, since tshark has ended.                       *)
ReadEnd(d) ==
  /\ call[d] # <<>> /\ inPipe[d] = <<>> /\ tshark[d] = "dead"
  /\ call' = [call EXCEPT ![d] = <<>>]
  /\ Released(d)
  /\ UNCHANGED <<used, inFifo, inPipe, replies, instances>>

(* A fault: the dissector is used again, and its call forgotten.           *)
KeepLate ==
  /\ call' = [call EXCEPT ![used] = <<>>]
  /\ UNCHANGED <<used, instances, writer, tshark>>

(* The worker lets the call go on without it and makes another dissector.  *)
GiveUpLate ==
  /\ used' = 0
  /\ UNCHANGED <<call, instances, writer, tshark>>

Late ==
  /\ used # 0 /\ call[used] # <<>>
  /\ GiveUpLate
  /\ UNCHANGED <<inFifo, inPipe, replies>>

(* The worker ends, and with it its dissector.                             *)
EndWorker ==
  /\ Free
  /\ used' = 0
  /\ writer' = [writer EXCEPT ![used] = FALSE] /\ tshark' = [tshark EXCEPT ![used] = "dead"]
  /\ UNCHANGED <<inFifo, inPipe, call, replies, instances>>

(* tshark: an answer for each frame, in order; or it hangs, goes on, or    *)
(* ends.                                                                   *)
Answers(d) ==
  /\ tshark[d] = "up" /\ inFifo[d] # <<>>
  /\ inFifo' = [inFifo EXCEPT ![d] = Tail(@)] /\ inPipe' = [inPipe EXCEPT ![d] = Append(@, Head(inFifo[d]))]
  /\ UNCHANGED <<used, writer, tshark, call, replies, instances>>

Behaves(d) ==
  /\ \E s \in {"up", "stuck", "dead"} \ {tshark[d]} :
       tshark[d] \in {"up", "stuck"} /\ tshark' = [tshark EXCEPT ![d] = s]
  /\ UNCHANGED <<used, writer, inFifo, inPipe, call, replies, instances>>

PipeNext ==
  \/ New \/ Late \/ EndWorker
  \/ \E f \in Frames : WriteFrame(f)
  \/ \E d \in Instance : ReadAnswer(d) \/ ReadEnd(d) \/ Answers(d) \/ Behaves(d)

PipeSpec == PipeInit /\ [][PipeNext]_pipeVars

-----------------------------------------------------------------------------
(* Properties.                                                             *)

(* What is shown for a packet is what tshark made of that packet, though   *)
(* frames and answers carry no number, calls are given up in the middle    *)
(* and some packets are never written.                                     *)
AnswersItsFrame == \A r \in replies : r[1] = r[2]

(* A dissector that the worker has left is at work on its last call, or    *)
(* its FIFO is closed and its tshark gone: none idles on.                  *)
NoneIdlesOn ==
  \A d \in Instance :
    d # used /\ call[d] = <<>> => ~writer[d] /\ tshark[d] \in {"off", "dead"}

(* One frame, one answer, one owner: what the worker above relies on.      *)
PipeSound == PipeTypeOK /\ AnswersItsFrame /\ NoneIdlesOn
=============================================================================
