--------------------------- MODULE MCDeepDissect ---------------------------
(* Small instances of DeepDissect, of the dissectors under it, and of the  *)
(* processes that packets are said to belong to, for TLC.  They share no   *)
(* variable: a behaviour is one of one of them.                            *)
EXTENDS DeepDissect, DeepPipe, Owners

VARIABLE part

(* An empty file and one of two packets.                                   *)
MCFileLengths == {0, 2}

(* Both ends of one connection on this host, and one to a name server.     *)
MCFlow(s, d, q) == [src |-> s, dst |-> d, protocol |-> q]
MCConnections ==
  {MCFlow("a", "b", "udp"), MCFlow("b", "a", "udp"), MCFlow("a", "dns", "tcp")}

MCInit ==
  /\ part \in {"deep", "pipe", "owners"}
  /\ Init /\ PipeInit /\ OwnersInit

Worker == part = "deep" /\ UNCHANGED <<part, pipeVars, ownerVars>>
Pipe == part = "pipe" /\ UNCHANGED <<part, vars, ownerVars>>
Kernel == part = "owners" /\ UNCHANGED <<part, vars, pipeVars>>

(* The bound on dissectors is reached and the last one is left.            *)
Ended == Pipe /\ used = 0 /\ instances = MaxInstances /\ UNCHANGED pipeVars

MCNext == (Worker /\ Next) \/ (Pipe /\ PipeNext) \/ (Kernel /\ OwnersNext) \/ Ended

MCVars == <<part, vars, pipeVars, ownerVars>>
MCSpec == MCInit /\ [][MCNext]_MCVars
MCFairSpec ==
  MCSpec /\ WF_MCVars(Worker /\ WorkerNext) /\ WF_MCVars(Worker /\ UiNext)
=============================================================================
