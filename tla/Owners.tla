------------------------------- MODULE Owners -------------------------------
(***************************************************************************)
(* Which process a packet is said to belong to: the kprobes on the send    *)
(* and receive calls, which note the calling process under the flow of its *)
(* socket in FLOW_MAP; and the lookup, once, when the main loop takes the  *)
(* packet from the capture.  An end of a flow is an address with a port.   *)
(***************************************************************************)
EXTENDS Integers, Sequences, FiniteSets, SequencesExt, Functions

CONSTANTS
  Processes,
  Connections,   \* the flows of sockets, seen from their process
  DnsEnds,       \* ends whose port is 53
  FlowMax,       \* entries of FLOW_MAP, 65,536
  MaxSeen,       \* bound: packets captured
  Nobody

Ends == UNION {{f.src, f.dst} : f \in Connections}
Flows == [src : Ends, dst : Ends, protocol : {"tcp", "udp"}]

ASSUME OwnersAssumption ==
  /\ Connections \subseteq [src : STRING, dst : STRING, protocol : {"tcp", "udp"}]
  /\ FlowMax \in Nat \ {0} /\ MaxSeen \in Nat /\ Nobody \notin Processes

VARIABLES
  socket,   \* the flow of each process's socket
  users,    \* history: the processes that ever had a socket with a flow
  flowMap,  \* FLOW_MAP
  evicted,  \* history: flows the map had to drop
  air,      \* packets captured and not yet taken
  owned     \* packets taken, with the process in trace_store

ownerVars == <<socket, users, flowMap, evicted, air, owned>>

Captured == [flow : Flows, sent : BOOLEAN]

OwnersTypeOK ==
  /\ socket \in [Processes -> Connections \union {Nobody}]
  /\ users \in [Flows -> SUBSET Processes]
  /\ DOMAIN flowMap \subseteq Flows /\ Range(flowMap) \subseteq Processes
  /\ Cardinality(DOMAIN flowMap) <= FlowMax
  /\ evicted \subseteq Flows /\ air \in Seq(Captured)
  /\ owned \in Seq([packet : Captured, by : Processes \union {Nobody}])

OwnersInit ==
  /\ socket = [p \in Processes |-> Nobody] /\ users = [f \in Flows |-> {}]
  /\ flowMap = <<>> /\ evicted = {} /\ air = <<>> /\ owned = <<>>

Reversed(f) == [src |-> f.dst, dst |-> f.src, protocol |-> f.protocol]

(* The flow key of a packet: DNS counts as UDP whatever carried it.        *)
FlowKeyFromSummary(f) == [f EXCEPT !.protocol = IF {f.src, f.dst} \intersect DnsEnds # {} THEN "udp" ELSE @]

(* A fault: an entry is only added while there is room.                    *)
InsertedIfRoom(f, p) ==
  {IF f \in DOMAIN flowMap \/ Cardinality(DOMAIN flowMap) < FlowMax
     THEN [g \in DOMAIN flowMap \union {f} |-> IF g = f THEN p ELSE flowMap[g]] ELSE flowMap}

(* A fault: no entry makes room.                                           *)
InsertedAnyway(f, p) == {[g \in DOMAIN flowMap \union {f} |-> IF g = f THEN p ELSE flowMap[g]]}

(* FLOW_MAP.insert: a full map drops an entry that was not used lately;    *)
(* which one the kernel's approximation picks is left open.                *)
Inserted(f, p) ==
  LET keep == IF f \in DOMAIN flowMap \/ Cardinality(DOMAIN flowMap) < FlowMax THEN {DOMAIN flowMap}
              ELSE {DOMAIN flowMap \ {e} : e \in DOMAIN flowMap}
  IN {[g \in k \union {f} |-> IF g = f THEN p ELSE flowMap[g]] : k \in keep}

(* handle_sock, in the context of process p.                               *)
HandleSock(p) ==
  /\ flowMap' \in Inserted(socket[p], p)
  /\ evicted' = evicted \union (DOMAIN flowMap \ DOMAIN flowMap')

Appears(f, sent) ==
  /\ Len(air) + Len(owned) < MaxSeen
  /\ air' = Append(air, [flow |-> f, sent |-> sent])

(* A connection: what is sent for it comes from no send call.              *)
Connect(p, f) ==
  /\ socket[p] = Nobody /\ f \notin Range(socket)
  /\ socket' = [socket EXCEPT ![p] = f] /\ users' = [users EXCEPT ![f] = @ \union {p}]
  /\ IF f.protocol = "tcp" THEN Appears(f, FALSE) ELSE UNCHANGED air
  /\ UNCHANGED <<flowMap, evicted, owned>>

Close(p) ==
  /\ socket[p] # Nobody
  /\ socket' = [socket EXCEPT ![p] = Nobody]
  /\ UNCHANGED <<users, flowMap, evicted, air, owned>>

SendMsg(p) ==
  /\ socket[p] # Nobody
  /\ HandleSock(p) /\ Appears(socket[p], TRUE)
  /\ UNCHANGED <<socket, users, owned>>

RecvMsg(p) ==
  /\ socket[p] # Nobody
  /\ HandleSock(p)
  /\ UNCHANGED <<socket, users, air, owned>>

(* From another host, also to a port that nobody has.                      *)
Arrive(f) ==
  /\ Reversed(f) \notin Connections
  /\ Appears(Reversed(f), FALSE)
  /\ UNCHANGED <<socket, users, flowMap, evicted, owned>>

(* A fault: the flow from the other end's side is looked up first.         *)
LookupReverseFirst(f) ==
  IF Reversed(f) \in DOMAIN flowMap THEN flowMap[Reversed(f)]
  ELSE IF f \in DOMAIN flowMap THEN flowMap[f] ELSE Nobody

(* A fault: only the end on this host is compared.                         *)
LookupOwnEnd(f) ==
  LET found == {g \in DOMAIN flowMap : g.src \in {f.src, f.dst}}
  IN IF found # {} THEN flowMap[CHOOSE g \in found : TRUE] ELSE Nobody

(* TraceEngine::lookup.                                                    *)
Lookup(f) ==
  IF f \in DOMAIN flowMap THEN flowMap[f]
  ELSE IF Reversed(f) \in DOMAIN flowMap THEN flowMap[Reversed(f)] ELSE Nobody

(* The part of drain_capture_packets about trace_store.                    *)
TakeCaptured ==
  /\ air # <<>> /\ air' = Tail(air)
  /\ owned' = Append(owned, [packet |-> Head(air), by |-> Lookup(FlowKeyFromSummary(Head(air).flow))])
  /\ UNCHANGED <<socket, users, flowMap, evicted>>

OwnersNext ==
  \/ \E p \in Processes : Close(p) \/ SendMsg(p) \/ RecvMsg(p) \/ \E f \in Connections : Connect(p, f)
  \/ \E f \in Connections : Arrive(f)
  \/ TakeCaptured

OwnersSpec == OwnersInit /\ [][OwnersNext]_ownerVars

-----------------------------------------------------------------------------
(* Properties.                                                             *)

(* While only one process has had a socket with a flow and the map had     *)
(* room for it, what it sent with a send call is said to be its own, also  *)
(* when both ends are on this host and the other end is in the map, too.   *)
SenderIsNamed ==
  \A n \in DOMAIN owned :
    LET f == owned[n].packet.flow IN
    /\ owned[n].packet.sent /\ FlowKeyFromSummary(f) = f /\ Cardinality(users[f]) = 1
    /\ f \notin evicted
    => owned[n].by \in users[f]

(* A packet of a flow that no process here has had is nobody's, unless it  *)
(* is taken for UDP for its port.                                          *)
StrangersAreNobodys ==
  \A n \in DOMAIN owned :
    LET f == FlowKeyFromSummary(owned[n].packet.flow)
    IN owned[n].by # Nobody => owned[n].by \in users[f] \union users[Reversed(f)]

(* The name beside a packet is that of a process that had to do with it.   *)
OwnerSound == OwnersTypeOK /\ SenderIsNamed /\ StrangersAreNobodys
=============================================================================
